---------------------------- MODULE ControlLoop ----------------------------
(***************************************************************************)
(* execute_control_loop of remediation/executor.py with the progressive    *)
(* rollout of remediation/canary.py and the blast-radius locks of          *)
(* remediation/concurrency_lock.py.  Any number of loops run at once, in   *)
(* the threads of one process; the policy service, the preflight checks,   *)
(* the cluster and the lock manager are called in steps of their own.      *)
(*                                                                         *)
(* A loop reads the clock once, when it starts, and judges everything      *)
(* later (certifications, leases) by that moment.  The lock manager has no *)
(* lock of its own: acquire looks for a conflict and then inserts.         *)
(*                                                                         *)
(* Composed with it are the Kubernetes adapter and the digital twin, whose *)
(* rehearsal is the same loop run against a clone, and the script that     *)
(* files the certifications an L4 call presents.                           *)
(***************************************************************************)
EXTENDS L4Certification, RunbookAdapter

CONSTANTS
    Loops,          \* concurrent calls of execute_control_loop
    RequestsOf,     \* Loops -> the requests a call may be made with
    TTL,            \* ttl_seconds of a lease
    MaxTime,        \* bound on the clock
    InitialClusters,    \* the deployments of the services to begin with
    PodStates,      \* what the pods of a deployment may report
    MaxPodChanges,  \* bound on the changes of what they report
    Promotions      \* what certify_l4_scope.py may be called with

\* A caller that reads its certification has none of its own to show; simulate
\* passes a rehearsal's request on with the defaults of everything else.
ASSUME ControlLoopConstants ==
    /\ \A l \in Loops : RequestsOf[l] \subseteq Request
    /\ \A l \in Loops : \A r \in RequestsOf[l] : r.loads => ~r.certification.present
    /\ \A l \in Loops : \A r \in RequestsOf[l] :
        r.target = "twin" =>
            /\ r.evaluator # "opa" /\ r.autonomy_level = NoClaim
            /\ ~r.certification.present /\ ~r.loads
            /\ ~r.canary /\ ~r.managed /\ r.impacted = {}
            /\ r.audit_available /\ r.verification_defined
    /\ TTL \in Nat \ {0} /\ MaxTime \in Nat
    /\ InitialClusters \subseteq [Services -> Deployment]
    /\ PodStates \subseteq Pods /\ MaxPodChanges \in Nat
    /\ Promotions \subseteq Promotion

VARIABLES
    loops,          \* Loops -> where a call is
    leases,         \* the lock manager's _leases
    now,            \* the clock
    raced,          \* history: loops whose acquire overlapped another one
    cluster,        \* Services -> the deployment in the source namespace
    twins,          \* Loops -> the clone in the sandbox of a rehearsal
    sandboxes,      \* the rehearsals whose sandbox namespace exists
    pod_changes,    \* changes of the pods so far
    stirred,        \* history: loops whose checked deployment another changed
    issued          \* the certifications on file, each with its promotion

vars == <<loops, leases, now, raced, cluster, twins, sandboxes, pod_changes,
          stirred, issued>>

locks == <<leases, raced>>
kubernetes == <<cluster, twins, sandboxes, pod_changes, stirred>>

Phase == {"whole", "canary", "fleet"}

Status == {"none", "blocked", "denied", "deferred", "raised", "succeeded",
           "rolled_back", "escalate"}

\* `answered' is the revision that authorized the request; `effects' are the
\* changes the cluster has seen, in order.
Loop ==
    [pc: {"rehearse", "provision", "enter", "evaluate", "preflight", "scan",
          "insert", "deploy", "verify", "rollback", "release", "destroy", "done"},
     request: Request, moment: Nat, switched: BOOLEAN,
     answered: Revisions \union {LocalRevision}, phase: Phase,
     effects: Seq({"canary", "fleet", "rollback"}), verified: BOOLEAN,
     status: Status]

Idle == [pc |-> "idle"]

Lease == [loop: Loops, services: SUBSET Services, expires_at: Nat]

TypeOK ==
    /\ loops \in [Loops -> Loop \union {Idle}]
    /\ leases \subseteq Lease
    /\ now \in Nat
    /\ raced \subseteq Loops
    /\ cluster \in [Services -> Deployment]
    /\ twins \in [Loops -> Deployment]
    /\ sandboxes \subseteq Loops
    /\ pod_changes \in 0..MaxPodChanges
    /\ stirred \subseteq Loops
    /\ issued \subseteq [claim: CertificationClaim, promotion: Promotions]

Init ==
    /\ loops = [l \in Loops |-> Idle]
    /\ leases = {}
    /\ now = 0
    /\ raced = {}
    /\ cluster \in InitialClusters
    /\ twins = [l \in Loops |-> NoDeployment]
    /\ sandboxes = {}
    /\ pod_changes = 0
    /\ stirred = {}
    /\ issued = {}

-----------------------------------------------------------------------------
(* Where a loop looks and acts *)

Rehearses(l) == loops[l].request.target = "twin"

\* The deployment the adapter of a loop sees.
Seen(l) == IF Rehearses(l) THEN twins[l] ELSE cluster[loops[l].request.service]

\* The other loops that looked at the deployment of a service and have not
\* returned.
Onlookers(service, except) ==
    {m \in Loops \ except :
        /\ loops[m].pc \in {"scan", "insert", "deploy", "verify", "rollback", "release"}
        /\ loops[m].request.target = "kubernetes"
        /\ loops[m].request.service = service}

\* The deployment a loop's adapter acts on becomes d.
Put(l, d) ==
    LET service == loops[l].request.service
    IN  /\ IF Rehearses(l)
           THEN twins' = [twins EXCEPT ![l] = d] /\ UNCHANGED <<cluster, stirred>>
           ELSE /\ cluster' = [cluster EXCEPT ![service] = d]
                /\ stirred' = IF d = cluster[service] THEN stirred
                              ELSE stirred \union Onlookers(service, {l})
                /\ UNCHANGED twins
        /\ UNCHANGED <<sandboxes, pod_changes>>

Goto(l, pc) == loops' = [loops EXCEPT ![l].pc = pc]

\* A rehearsal goes on to its finally clause.
Returned(l) == IF Rehearses(l) THEN "destroy" ELSE "done"

Finish(l, status) ==
    loops' = [loops EXCEPT ![l].pc = Returned(l), ![l].status = status]

-----------------------------------------------------------------------------
(* Before the first mutation *)

\* What is decided without asking anyone: the kill switch (an operator may
\* engage or release it between two calls), the claimed level, a required
\* evaluator that is missing, an L4 certification that is absent, expired or
\* for another scope.
Refusal(r, kill_switch) ==
    IF SwitchLevel(r) >= ApproveAndExecute /\ kill_switch THEN "blocked"
    ELSE IF ~ClaimAccepted(r) THEN "blocked"
    ELSE IF r.evaluator = "missing" THEN "denied"
    ELSE IF /\ EffectiveLevel(r) >= BoundedAutonomous
            /\ CertificationDenial(r, EffectiveLevel(r), now) # Authorized
         THEN "blocked"
    ELSE "none"

\* The certifications a caller may present.
Presented(r) ==
    IF r.loads /\ issued # {} THEN {i.claim : i \in issued} ELSE {r.certification}

\* A caller makes its request, of the loop or of a rehearsal.
Start(l) ==
    /\ loops[l] = Idle
    /\ \E r \in RequestsOf[l] : \E claim \in Presented(r) :
        loops' = [loops EXCEPT ![l] =
            [pc |-> IF r.target = "twin" THEN "rehearse" ELSE "enter",
             request |-> [r EXCEPT !.certification = claim],
             moment |-> now, switched |-> FALSE, answered |-> LocalRevision,
             phase |-> IF r.canary THEN "canary" ELSE "whole",
             effects |-> <<>>, verified |-> FALSE, status |-> "none"]]
    /\ UNCHANGED <<locks, now, kubernetes, issued>>

\* execute_control_loop up to the call of the evaluator.
Enter(l) ==
    /\ loops[l].pc = "enter"
    /\ \E kill_switch \in BOOLEAN :
        LET refusal == Refusal(loops[l].request, kill_switch)
        IN  loops' = [loops EXCEPT
                ![l].pc = IF refusal = "none" THEN "evaluate" ELSE Returned(l),
                ![l].moment = now, ![l].switched = kill_switch,
                ![l].status = refusal]
    /\ UNCHANGED <<locks, now, kubernetes, issued>>

\* What the evaluator may answer.  An OPA that cannot be reached, or whose
\* answer is no decision, denies for a reason of its own.
Answers(r, level, moment) ==
    IF r.evaluator = "opa" THEN {RegoReason(r, level, moment), "OPA unavailable"}
    ELSE {LocalReason(r, level, moment)}

\* The evaluator answers, and the certification is compared under the revision
\* that did (OPA may have loaded another bundle since).
Evaluate(l, answered) ==
    LET loop == loops[l]
        r == loop.request
        level == EffectiveLevel(r)
        refused == /\ level >= BoundedAutonomous
                   /\ CertificationRefused(r, answered, loop.moment)
    IN  /\ loop.pc = "evaluate"
        /\ (r.evaluator = "opa") <=> (answered \in Revisions)
        /\ \E reason \in Answers(r, level, loop.moment) :
            \/ /\ reason # Authorized
               /\ Finish(l, "denied")
            \/ /\ reason = Authorized /\ refused
               /\ Finish(l, "blocked")
            \/ /\ reason = Authorized /\ ~refused
               /\ loops' = [loops EXCEPT ![l].pc = "preflight",
                                         ![l].answered = answered]
        /\ UNCHANGED <<locks, now, kubernetes, issued>>

\* What preflight may find.  A rehearsal trusts every precondition; a kubectl
\* that fails is a precondition that cannot be evaluated.
Checks(l) ==
    LET r == loops[l].request
    IN  CASE r.target = "protocol"   -> BOOLEAN
          [] r.target = "kubernetes" ->
                {FALSE, PreconditionsHold(r.runbook, {}, Seen(l))}
          [] r.target = "twin"       ->
                {PreconditionsHold(r.runbook, r.runbook.preconditions, Seen(l))}

\* The runbook's preconditions are checked before the lease is asked for.
Preflight(l) ==
    /\ loops[l].pc = "preflight"
    /\ \/ /\ TRUE \in Checks(l)
          /\ Goto(l, IF loops[l].request.managed THEN "scan" ELSE "deploy")
       \/ FALSE \in Checks(l) /\ Finish(l, "denied")
    /\ UNCHANGED <<locks, now, kubernetes, issued>>

-----------------------------------------------------------------------------
(* remediation/concurrency_lock.py *)

\* The scope of a lease: the policy's service and the impacted ones.
TargetScope(r) == {r.policy.service} \union r.impacted

LeaseOf(l) ==
    [loop |-> l, services |-> TargetScope(loops[l].request),
     expires_at |-> loops[l].moment + TTL]

\* Mutant of Conflicts: only the remediated service is compared.
ConflictsOnService(l, lease) == loops[l].request.policy.service \in
    {loops[lease.loop].request.policy.service}

Conflicts(l, lease) ==
    TargetScope(loops[l].request) \intersect lease.services # {}

\* The first half of acquire: prune what has expired by the loop's own moment
\* and look for a conflict.  Two unsynchronized callers may also trip over
\* each other's changes to the dictionary.
Scan(l) ==
    LET active == {x \in leases : x.expires_at > loops[l].moment}
        others == {m \in Loops \ {l} : loops[m].pc = "insert"}
    IN  /\ loops[l].pc = "scan"
        /\ \/ /\ leases' = active
              /\ IF \E x \in active : Conflicts(l, x)
                 THEN Finish(l, "deferred")
                 ELSE Goto(l, "insert")
           \/ /\ others # {}                \* RuntimeError, KeyError
              /\ Finish(l, "raised")
              /\ UNCHANGED leases
        /\ raced' = IF others = {} THEN raced ELSE raced \union others \union {l}
        /\ UNCHANGED <<now, kubernetes, issued>>

Insert(l) ==
    /\ loops[l].pc = "insert"
    /\ leases' = leases \union {LeaseOf(l)}
    /\ Goto(l, "deploy")
    /\ UNCHANGED <<now, raced, kubernetes, issued>>

\* The finally clause: by the id of the loop's own lease, which another loop may
\* have pruned. One that prunes it between the test and the deletion makes the
\* deletion raise, and that replaces the result.
Release(l) ==
    /\ loops[l].pc = "release"
    /\ leases' = {x \in leases : x.loop # l}
    /\ \/ Goto(l, Returned(l))
       \/ /\ LeaseOf(l) \in leases          \* KeyError
          /\ \E m \in Loops \ {l} :
                loops[m].pc = "scan" /\ LeaseOf(l).expires_at <= loops[m].moment
          /\ Finish(l, "raised")
    /\ UNCHANGED <<now, raced, kubernetes, issued>>

-----------------------------------------------------------------------------
(* _run_execution_and_verify and execute_progressive *)

Ends(l, status, effects, verified) ==
    loops' = [loops EXCEPT ![l].pc = "release", ![l].status = status,
                           ![l].effects = effects, ![l].verified = verified]

\* The status of a deployment that raised.
DeployFailed(phase) == IF phase = "canary" THEN "rolled_back" ELSE "escalate"

\* The deployment after adapter.execute.  Of an unknown adapter nothing is
\* known; the Kubernetes one has no action for a canary slice.
Outcomes(l) ==
    LET loop == loops[l]
    IN  IF loop.request.target = "protocol" THEN {Seen(l)}
        ELSE IF loop.phase = "canary" THEN {}
        ELSE Executed(loop.request.runbook.id, Seen(l))

\* adapter.execute: the canary slice or the whole workload changes; a call
\* that raises may have changed it or not.
Deploy(l) ==
    LET loop == loops[l]
        changed == Append(loop.effects,
                          IF loop.phase = "canary" THEN "canary" ELSE "fleet")
    IN  /\ loop.pc = "deploy"
        /\ \/ \E d \in Outcomes(l) :
                /\ Put(l, d)
                /\ \/ loops' = [loops EXCEPT ![l].pc = "verify",
                                             ![l].effects = changed]
                   \/ Ends(l, DeployFailed(loop.phase), changed, FALSE)
           \/ /\ Ends(l, DeployFailed(loop.phase), loop.effects, FALSE)
              /\ UNCHANGED kubernetes
        /\ UNCHANGED <<locks, now, issued>>

\* The answers of adapter.verify; one that raises counts as unhealthy.
Verdicts(l) ==
    LET r == loops[l].request
    IN  IF r.target = "protocol" THEN BOOLEAN
        ELSE {FALSE, VerifySignal(r.runbook.verify_signal, Seen(l))}

\* adapter.verify: a healthy canary is promoted; anything else unhealthy is
\* rolled back.
Verify(l) ==
    LET loop == loops[l]
    IN  /\ loop.pc = "verify"
        /\ \/ /\ TRUE \in Verdicts(l) /\ loop.phase = "canary"
              /\ loops' = [loops EXCEPT ![l].pc = "deploy", ![l].phase = "fleet"]
           \/ /\ TRUE \in Verdicts(l) /\ loop.phase # "canary"
              /\ Ends(l, "succeeded", loop.effects, TRUE)
           \/ Goto(l, "rollback")
        /\ UNCHANGED <<locks, now, kubernetes, issued>>

\* Mutant of RolledBack: an unverified action always counts as rolled back.
RolledBackAlways(phase, done) == "rolled_back"

\* The status after an attempted rollback that worked or not.
RolledBack(phase, done) ==
    CASE phase = "whole"  -> IF done THEN "rolled_back" ELSE "escalate"
      [] phase = "canary" -> "rolled_back"
      [] phase = "fleet"  -> "escalate"

\* The deployment after adapter.rollback.
Restorations(l) ==
    LET r == loops[l].request
    IN  IF r.target = "protocol" THEN {Seen(l)}
        ELSE Restored(r.runbook.rollback, Seen(l))

\* adapter.rollback, when the runbook names one; it may raise, before or after
\* the workload changed.
Rollback(l) ==
    LET loop == loops[l]
    IN  /\ loop.pc = "rollback"
        /\ \/ /\ loop.request.runbook.rollback # "none"
              /\ \E d \in Restorations(l), done \in BOOLEAN :
                    /\ Put(l, d)
                    /\ Ends(l, RolledBack(loop.phase, done),
                            Append(loop.effects, "rollback"), FALSE)
           \/ /\ Ends(l, RolledBack(loop.phase, FALSE), loop.effects, FALSE)
              /\ UNCHANGED kubernetes
        /\ UNCHANGED <<locks, now, issued>>

-----------------------------------------------------------------------------
(* remediation/digital_twin.py *)

\* simulate: the preconditions are checked in the source namespace first; a
\* kubectl that fails raises out of the rehearsal.
Rehearse(l) ==
    LET r == loops[l].request
        held == PreconditionsHold(r.runbook, {}, cluster[r.service])
    IN  /\ loops[l].pc = "rehearse"
        /\ \/ held /\ Goto(l, "provision")
           \/ \E status \in {"raised"} \union (IF held THEN {} ELSE {"denied"}) :
                loops' = [loops EXCEPT ![l].pc = "done", ![l].status = status]
        /\ UNCHANGED <<locks, now, kubernetes, issued>>

\* provision: a namespace with a clone of the source deployment.  If a step
\* fails the namespace is destroyed, or stays when that fails too.
Provision(l) ==
    LET source == cluster[loops[l].request.service]
    IN  /\ loops[l].pc = "provision"
        /\ \/ /\ Exists(source)
              /\ \E pods \in PodStates :
                    twins' = [twins EXCEPT ![l] = Clone(source, pods)]
              /\ sandboxes' = sandboxes \union {l}
              /\ Goto(l, "enter")
           \/ /\ \E left \in SUBSET {l} : sandboxes' = sandboxes \union left
              /\ loops' = [loops EXCEPT ![l].pc = "done", ![l].status = "raised"]
              /\ UNCHANGED twins
        /\ UNCHANGED <<locks, now, cluster, pod_changes, stirred, issued>>

\* The finally clause of simulate; what it raises replaces the result.
Destroy(l) ==
    /\ loops[l].pc = "destroy"
    /\ \/ /\ Goto(l, "done")
          /\ sandboxes' = sandboxes \ {l}
          /\ twins' = [twins EXCEPT ![l] = NoDeployment]
       \/ /\ loops' = [loops EXCEPT ![l].pc = "done", ![l].status = "raised"]
          /\ UNCHANGED <<sandboxes, twins>>
    /\ UNCHANGED <<locks, now, cluster, pod_changes, stirred, issued>>

-----------------------------------------------------------------------------
\* certify_l4_scope.py files a certification, or refuses and files nothing.
Promotable == {p \in Promotions : RequestIsValid(p) /\ Eligible(p)}

CertifyScope(p) ==
    /\ issued' = issued \union {[claim |-> RecordOf(p, now), promotion |-> p]}
    /\ UNCHANGED <<loops, locks, now, kubernetes>>

\* The pods of a deployment, or of a clone, report something else.
PodsChange ==
    /\ pod_changes < MaxPodChanges
    /\ pod_changes' = pod_changes + 1
    /\ \/ \E s \in Services, pods \in PodStates :
            /\ Exists(cluster[s]) /\ pods # cluster[s].pods
            /\ cluster' = [cluster EXCEPT ![s].pods = pods]
            /\ stirred' = stirred \union Onlookers(s, {})
            /\ UNCHANGED twins
       \/ \E l \in sandboxes, pods \in PodStates :
            /\ Exists(twins[l]) /\ pods # twins[l].pods
            /\ twins' = [twins EXCEPT ![l].pods = pods]
            /\ UNCHANGED <<cluster, stirred>>
    /\ UNCHANGED <<loops, locks, now, sandboxes, issued>>

Tick ==
    /\ now < MaxTime
    /\ now' = now + 1
    /\ UNCHANGED <<loops, locks, kubernetes, issued>>

Next ==
    \/ \E l \in Loops :
        \/ Start(l) \/ Enter(l)
        \/ \E answered \in Revisions \union {LocalRevision} : Evaluate(l, answered)
        \/ Preflight(l)
        \/ Scan(l) \/ Insert(l) \/ Release(l)
        \/ Deploy(l) \/ Verify(l) \/ Rollback(l)
        \/ Rehearse(l) \/ Provision(l) \/ Destroy(l)
    \/ \E p \in Promotable : CertifyScope(p)
    \/ PodsChange
    \/ Tick

Spec == Init /\ [][Next]_vars

-----------------------------------------------------------------------------
(* Properties *)

Started(l) == loops[l] # Idle

\* A human stands behind the request and it runs at L3.
Supervised(r) ==
    /\ r.approval_verified
    /\ r.policy.level = 3 \/ (r.policy.level = 4 /\ r.autonomy_level = 3)

\* An unexpired certification of exactly this scope, these inputs and the
\* bundle that answered stands behind it.
Certified(l) ==
    LET r == loops[l].request
    IN  /\ r.policy.level = 4 /\ r.policy.max_blast_radius > 0
        /\ r.certification.present
        /\ r.certification.expires_on.form # "garbled"
        /\ r.certification.expires_on.at > loops[l].moment
        /\ r.certification.inputs_hash =
               <<<<r.service, r.environment, r.runbook.id,
                   r.policy.max_blast_radius>>, r.runbook, loops[l].answered>>
        /\ r.certification.scope_hash = r.certification.inputs_hash[1]

\* What a promotion that covers a request rests on: two attested controls, and
\* at least seven production exercises of the scope, none of the others failed
\* or only rehearsed, with the five failure kinds among the passed ones.
Backs(p, r) ==
    LET scope == <<r.service, r.environment, r.runbook.id>>
        scoped == {k \in DOMAIN p.exercises :
            LET e == p.exercises[k]
            IN  <<e.service, e.environment, e.runbook_id>> = scope}
        reviews == {e \in p.records :
            e.scope = scope /\ e.decision = "l4-promotion" /\ e.basis = "observed"}
    IN  /\ p.issued_by = "person"
        /\ Cardinality(scoped) >= 7
        /\ \A k \in scoped :
            /\ p.exercises[k].passed /\ p.exercises[k].grade = "production"
            /\ p.exercises[k].observed_blast_radius <= r.policy.max_blast_radius
        /\ ExerciseBackedKinds \subseteq {p.exercises[k].kind : k \in scoped}
        /\ AttestedControls \subseteq UNION {e.controls : e \in reviews}

\* The certification a loop presents was filed for a promotion that covers it.
Earned(l) ==
    \E i \in issued :
        /\ i.claim = loops[l].request.certification
        /\ Backs(i.promotion, loops[l].request)

\* No request, claim, evaluator, downgrade or race reaches a cluster or a clone
\* unless a verified approval (L3) or a matching certification (L4) stands
\* behind it, inside both blast-radius limits, with no kill switch seen and,
\* under an L4 policy, error budget left.  A certification read from a file
\* was earned by the evidence of exactly this scope.  A Kubernetes deployment
\* that nobody touched since the loop looked still meets the preconditions,
\* and one about to be rehearsed on is never the source.
MutationGated ==
    \A l \in Loops :
        /\ Started(l) /\ loops[l].effects # <<>> =>
            LET r == loops[l].request
            IN  /\ ~loops[l].switched /\ ~r.policy.kill_switch
                /\ r.service = r.policy.service
                /\ r.environment = r.policy.environment
                /\ r.blast_radius <= r.runbook.max_blast_radius
                /\ r.blast_radius <= r.policy.max_blast_radius
                /\ r.runbook.id \in r.policy.certified_runbooks
                /\ Supervised(r) \/ Certified(l)
                /\ r.policy.level = 4 => r.error_budget
                /\ r.loads /\ ~Supervised(r) => Earned(l)
        /\ loops[l].pc = "deploy" /\ l \notin stirred =>
            LET r == loops[l].request
            IN  /\ r.target = "kubernetes" =>
                       PreconditionsHold(r.runbook, {}, cluster[r.service])
                /\ Rehearses(l) => l \in sandboxes /\ Exists(twins[l])

\* "The offline reference evaluator and the authoritative bundle agree": for
\* every request, also one the executor blocks before it asks, both give the
\* same reason, except that the bundle also refuses an expiry without an
\* offset.
EvaluatorsAgree ==
    \A l \in Loops :
        loops[l].pc = "evaluate" \/ (Started(l) /\ loops[l].status = "blocked") =>
            LET r == loops[l].request
                level == EffectiveLevel(r)
                local == LocalReason(r, level, loops[l].moment)
                rego == RegoReason(r, level, loops[l].moment)
            IN  IF r.certification.expires_on.form = "naive"
                THEN rego = Authorized => local = Authorized
                ELSE rego = local

Executing(l) == loops[l].pc \in {"deploy", "verify", "rollback", "release"}

Overran(l) == loops[l].moment + TTL <= now

\* Two loops that use the lock manager never change overlapping sets of
\* services at the same time, unless one outlived the lease it took by its
\* starting moment or the two acquired at the same time; and no lease outlives
\* its loop.
BlastRadiusExclusive ==
    /\ \A l, m \in Loops :
        /\ l # m /\ Executing(l) /\ Executing(m)
        /\ loops[l].request.managed /\ loops[m].request.managed
        /\ TargetScope(loops[l].request) \intersect TargetScope(loops[m].request) # {}
        => Overran(l) \/ Overran(m) \/ {l, m} \subseteq raced
    /\ \A x \in leases : Executing(x.loop) /\ x = LeaseOf(x.loop)

\* The result tells what happened to the workload: a refusal or a deferral
\* changed nothing, nor did a call that raised, unless it was a rehearsal or
\* outlived its lease; `succeeded' ends with a verified change of the whole
\* workload, `rolled_back' with a rollback (of a memory profile, to the one
\* before) or with a canary that never touched the fleet; and a rehearsal that
\* returns a result leaves no sandbox behind.
ResultIsTrue ==
    \A l \in Loops :
        Started(l) =>
            LET loop == loops[l]
                n == Len(loop.effects)
            IN  /\ loop.status \in {"blocked", "denied", "deferred", "raised"} =>
                       \/ loop.effects = <<>>
                       \/ loop.status = "raised" /\ (Rehearses(l) \/ Overran(l))
                /\ loop.status = "succeeded" =>
                       loop.verified /\ n > 0 /\ loop.effects[n] = "fleet"
                /\ loop.status = "rolled_back" =>
                       IF loop.request.canary
                       THEN \A i \in 1..n : loop.effects[i] # "fleet"
                       ELSE n = 2 /\ loop.effects[n] = "rollback"
                /\ /\ loop.status = "rolled_back" /\ ~loop.request.canary
                   /\ loop.request.target = "kubernetes"
                   /\ loop.pc = "release" /\ l \notin stirred
                   => Current(Seen(l)).memory = "previous"
                /\ Rehearses(l) /\ loop.pc = "done" /\ loop.status # "raised" =>
                       l \notin sandboxes /\ twins[l] = NoDeployment

=============================================================================
