--------------------------- MODULE MCControlLoop ---------------------------
(* Requests that are in order and requests with one or two defects.         *)
EXTENDS ControlLoop, TLC

CONSTANTS l1, l2

InCatalog(id) == CHOOSE b \in DefaultCatalog : b.id = id

MCRunbook == InCatalog("aks.rollout.undo")

\* The catalog, and what the undo runbook might have been.
MCRunbooks ==
    DefaultCatalog \union
    {[MCRunbook EXCEPT !.environments = environments, !.max_blast_radius = radius,
                       !.required_level = level, !.rollback = rollback] :
        environments \in {{}, {"dev", "stage", "prod"}}, radius \in {0, 10},
        level \in {3, 4}, rollback \in {"none", "aks.rollout.redo"}}

MCRunbookIds == {b.id : b \in DefaultCatalog}

\* Certified under revision `rev' for the scope the request falls in.
Certify(r, rev) ==
    [r EXCEPT !.certification =
        [present |-> TRUE, scope_hash |-> ScopeHashFor(r),
         inputs_hash |-> MaterialInputsHashFor(r, rev),
         expires_on |-> [form |-> "zoned", at |-> 1]]]

NoCertification ==
    [present |-> FALSE, scope_hash |-> <<>>, inputs_hash |-> <<>>,
     expires_on |-> [form |-> "garbled", at |-> 0]]

InOrder(level, claim) ==
    Certify([service |-> "a", environment |-> "prod", runbook |-> MCRunbook,
             blast_radius |-> 1, error_budget |-> TRUE,
             policy |-> [service |-> "a", environment |-> "prod", level |-> level,
                         certified_runbooks |-> MCRunbookIds,
                         max_blast_radius |-> 1, kill_switch |-> FALSE],
             approval_verified |-> TRUE, audit_available |-> TRUE,
             verification_defined |-> TRUE, autonomy_level |-> claim,
             certification |-> NoCertification, evaluator |-> "opa",
             canary |-> FALSE,
             managed |-> TRUE, impacted |-> {"b"},
             target |-> "protocol", loads |-> FALSE], "v1")

Defects ==
    {"none", "kill switch", "service", "environment", "runbook environment",
     "runbook radius", "policy radius", "no budget", "required level",
     "uncertified runbook", "unapproved", "error budget", "audit",
     "verification", "no certification", "expired", "naive", "garbled",
     "other scope", "no inputs", "other inputs", "other revision",
     "local evaluator", "no evaluator"}

Defect(r, d) ==
    CASE d = "kill switch"      -> [r EXCEPT !.policy.kill_switch = TRUE]
      [] d = "service"          -> [r EXCEPT !.policy.service = "b"]
      [] d = "environment"      -> [r EXCEPT !.policy.environment = "dev"]
      [] d = "runbook environment" ->
            Certify([r EXCEPT !.runbook.environments = {}], "v1")
      [] d = "runbook radius"   ->
            Certify([r EXCEPT !.runbook.max_blast_radius = 0], "v1")
      [] d = "policy radius"    -> [r EXCEPT !.blast_radius = 2]
      [] d = "no budget"        -> [r EXCEPT !.policy.max_blast_radius = 0,
                                             !.blast_radius = 0]
      [] d = "required level"   -> Certify([r EXCEPT !.runbook.required_level = 4], "v1")
      [] d = "uncertified runbook" -> [r EXCEPT !.policy.certified_runbooks = {}]
      [] d = "unapproved"       -> [r EXCEPT !.approval_verified = FALSE]
      [] d = "error budget"     -> [r EXCEPT !.error_budget = FALSE]
      [] d = "audit"            -> [r EXCEPT !.audit_available = FALSE]
      [] d = "verification"     -> [r EXCEPT !.verification_defined = FALSE]
      [] d = "no certification" -> [r EXCEPT !.certification = NoCertification]
      [] d = "expired"          -> [r EXCEPT !.certification.expires_on.at = 0]
      [] d = "naive"            -> [r EXCEPT !.certification.expires_on.form = "naive"]
      [] d = "garbled"          -> [r EXCEPT !.certification.expires_on.form = "garbled"]
      [] d = "other scope"      -> [r EXCEPT !.certification.scope_hash =
                                        <<"b", "prod", "aks.rollout.undo", 1>>]
      [] d = "no inputs"        -> [r EXCEPT !.certification.inputs_hash = <<>>]
      [] d = "other inputs"     -> [r EXCEPT !.certification.inputs_hash =
            <<ScopeHashFor(r), [r.runbook EXCEPT !.rollback = "none"], "v1">>]
      [] d = "other revision"   -> Certify(r, LocalRevision)
      [] d = "local evaluator"  -> Certify([r EXCEPT !.evaluator = "local"],
                                           LocalRevision)
      [] d = "no evaluator"     -> [r EXCEPT !.evaluator = "missing"]
      [] OTHER                  -> r

\* Every claim with at most one defect, and the three claims that are accepted
\* at L3 and L4 with any two.
Wide ==
    {Defect(InOrder(level, claim), d) :
        level \in 2..4, claim \in Claims, d \in Defects}
    \union
    {Defect(Defect(InOrder(v[1], v[2]), d), e) :
        v \in {<<3, NoClaim>>, <<4, NoClaim>>, <<4, 3>>}, d \in Defects, e \in Defects}

\* Requests that reach some workload: with and without a canary and a rollback,
\* without the lock manager, and at L4.
Core ==
    {[InOrder(3, NoClaim) EXCEPT !.runbook.rollback = rollback, !.canary = canary] :
        rollback \in {"none", "aks.rollout.redo"}, canary \in BOOLEAN}
    \union {[InOrder(3, NoClaim) EXCEPT !.managed = FALSE]}
    \union {[Certify(InOrder(4, 4), rev) EXCEPT !.approval_verified = FALSE] :
                rev \in Revisions}

\* Requests of the Kubernetes adapter: a supervised runbook, with a canary or
\* not, and an autonomous one with the certification on file.
Kubernetes ==
    {[InOrder(3, NoClaim) EXCEPT !.target = "kubernetes", !.runbook = InCatalog(id)] :
        id \in {"aks.rollout.undo", "aks.restart.oom", "k8s.node.drain_with_pdb_eviction"}}
    \union {[InOrder(3, NoClaim) EXCEPT !.target = "kubernetes", !.canary = TRUE]}
    \union {[InOrder(4, NoClaim) EXCEPT !.target = "kubernetes",
                !.runbook = InCatalog("aks.scale.memory"),
                !.environment = "stage", !.policy.environment = "stage",
                !.approval_verified = FALSE, !.loads = TRUE,
                !.certification = NoCertification]}

\* Rehearsals: under the local evaluator, or where OPA is required; at L4 a
\* rehearsal has no certification to show.
Twin ==
    {[InOrder(level, NoClaim) EXCEPT !.target = "twin", !.runbook = InCatalog(id),
        !.evaluator = evaluator, !.certification = NoCertification,
        !.managed = FALSE, !.impacted = {}] :
        level \in {3, 4}, evaluator \in {"local", "missing"},
        id \in {"aks.rollout.undo", "aks.restart.workload"}}

\* Another service whose blast radius reaches `b' too, or that is unrelated.
Neighbour ==
    {[InOrder(3, NoClaim) EXCEPT !.service = "c", !.policy.service = "c",
                                 !.impacted = impacted] : impacted \in {{"b"}, {}}}

\* The same repair of the same service, by another incident.
Double == [InOrder(3, NoClaim) EXCEPT !.target = "kubernetes"]

MCRequestsOf ==
    (l1 :> Wide \union Core \union Kubernetes \union Twin)
        @@ (l2 :> Neighbour \union {Double})

-----------------------------------------------------------------------------
Ill == [ready |-> FALSE, available |-> FALSE, reasons |-> {"OOMKilled"}]
Well == [ready |-> TRUE, available |-> TRUE, reasons |-> {}]

MCPodStates == {Ill, Well}

Released(memories, pods, previous) ==
    [history |-> [i \in DOMAIN memories |-> [image |-> i, memory |-> memories[i]]],
     pods |-> pods, approved |-> TRUE, profile |-> TRUE, previous |-> previous]

\* A release that is ill, with what a rollback of its memory needs and without,
\* a first release, and one that is well.
MCInitialClusters ==
    {[s \in Services |-> IF s = "a" THEN d ELSE NoDeployment] :
        d \in {Released(<<"given", "given">>, Ill, TRUE),
               Released(<<"given", "given">>, Ill, FALSE),
               Released(<<"given">>, Ill, TRUE),
               Released(<<"given", "given">>, Well, TRUE)}}

\* It began as the first of these, or as the last.
Usual(c) == c["a"].previous /\ Len(c["a"].history) > 1

Exercise(kind) ==
    [kind |-> kind, passed |-> TRUE, service |-> "a", environment |-> "stage",
     runbook_id |-> "aks.scale.memory", observed_blast_radius |-> 1,
     referenced |-> TRUE, grade |-> "production"]

Evidence(controls) ==
    [decision |-> "l4-promotion", scope |-> <<"a", "stage", "aks.scale.memory">>,
     basis |-> "observed", controls |-> controls, passed |-> TRUE]

\* Seven exercises that include the five kinds, one of them twice.
GoodExercises ==
    [i \in 1..7 |-> Exercise(<<"rollback", "kill_switch", "error_budget_exhausted",
        "policy_outage", "audit_outage", "successful_remediation", "rollback">>[i])]

GoodPromotion ==
    [service |-> "a", environment |-> "stage", runbook |-> InCatalog("aks.scale.memory"),
     budget |-> 1, revision |-> "v1", issued_by |-> "person", valid_days |-> 1,
     into_registry |-> FALSE, readable |-> TRUE, exercises |-> GoodExercises,
     records |-> {Evidence({"independent-verification"}), Evidence({"security-review"})}]

\* The promotion in order, for another revision, and on reviews that failed; and
\* with one defect each.
MCPromotions ==
    LET p == GoodPromotion
    IN  {p, [p EXCEPT !.revision = "v2"],
         [p EXCEPT !.records = {[e EXCEPT !.passed = FALSE] : e \in @}],
         [p EXCEPT !.issued_by = "platform"], [p EXCEPT !.valid_days = 0],
         [p EXCEPT !.into_registry = TRUE], [p EXCEPT !.environment = "prod"],
         [p EXCEPT !.budget = 0], [p EXCEPT !.readable = FALSE],
         [p EXCEPT !.exercises = SubSeq(@, 1, 6)],
         [p EXCEPT !.exercises[5] = Exercise("verification_failure")],
         [p EXCEPT !.exercises[6].passed = FALSE],
         [p EXCEPT !.exercises = Append(@, [Exercise("rollback") EXCEPT !.passed = FALSE])],
         [p EXCEPT !.exercises = Append(@, [Exercise("rollback") EXCEPT !.grade = "rehearsal"])],
         [p EXCEPT !.exercises[7].service = "b"],
         [p EXCEPT !.exercises[7].observed_blast_radius = 2],
         [p EXCEPT !.exercises[7].referenced = FALSE],
         [p EXCEPT !.records = {Evidence({"security-review"})}],
         [p EXCEPT !.records = {[Evidence(AttestedControls) EXCEPT !.basis = "modeled"]}],
         [p EXCEPT !.records = {[Evidence(AttestedControls) EXCEPT !.decision = "other"]}]}

\* l1 starts first; a request with defects is tried on its own, before the clock
\* runs on, and what only some requests look at changes only for them.
Focus ==
    LET first == loops[l1].request
        second == loops[l2].request
    IN  /\ Started(l2) =>
            /\ Started(l1)
            /\ IF second.target = "kubernetes"
               THEN first.target = "kubernetes" /\ now = 0 /\ Usual(cluster)
               ELSE first \in Core
        /\ Started(l1) =>
            /\ first.target = "protocol" =>
                Usual(cluster) /\ pod_changes = 0 /\ cluster["a"].pods = Ill
            /\ now > 1 => Started(l2) \/ first \in Core
            /\ now > 0 => first.target # "twin"
        /\ Cardinality(issued) <= 1
        /\ issued # {} => now <= 1 /\ (Started(l1) => first.loads)

=============================================================================
