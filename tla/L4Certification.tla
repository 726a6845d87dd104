-------------------------- MODULE L4Certification --------------------------
(***************************************************************************)
(* How a certification comes to be: evaluate_l4_eligibility of             *)
(* resilience/certification.py over the exercises of a scope and the       *)
(* evidence registry, and scripts/certify_l4_scope.py, the only program    *)
(* that writes one.                                                        *)
(***************************************************************************)
EXTENDS RemediationPolicy, FiniteSets

ExerciseKind ==
    {"successful_remediation", "verification_failure", "rollback", "kill_switch",
     "policy_outage", "audit_outage", "error_budget_exhausted"}

\* `referenced' says that evidence_ref is not blank; a result that does not
\* state its grade is read as a rehearsal.
ExerciseResult ==
    [kind: ExerciseKind, passed: BOOLEAN, service: Services,
     environment: Environments, runbook_id: RunbookIds,
     observed_blast_radius: Nat, referenced: BOOLEAN,
     grade: {"production", "rehearsal"}]

AttestedControls == {"independent-verification", "security-review"}

\* An evidence record: what _attests reads of it, and whether its result is a
\* pass, which nobody reads.
EvidenceRecord ==
    [decision: {"l4-promotion", "other"}, scope: Services \X Environments \X RunbookIds,
     basis: {"observed", "modeled"}, controls: SUBSET AttestedControls,
     passed: BOOLEAN]

MinSuccessfulExercises == Cardinality(ExerciseKind)

ExerciseBackedKinds ==
    {"rollback", "kill_switch", "error_budget_exhausted", "policy_outage", "audit_outage"}

\* The arguments of certify_l4_scope.py and the files they name.
Promotion ==
    [service: Services, environment: Environments, runbook: Runbooks,
     budget: Nat, revision: Revisions \union {LocalRevision},
     issued_by: {"person", "platform", "blank"}, valid_days: Nat,
     into_registry: BOOLEAN, readable: BOOLEAN,
     exercises: Seq(ExerciseResult), records: SUBSET EvidenceRecord]

-----------------------------------------------------------------------------
\* A control is attested by a reviewed record of exactly this service,
\* environment and runbook, never by a modelled one.
Attests(record, p, control) ==
    /\ record.decision = "l4-promotion"
    /\ record.scope = <<p.service, p.environment, p.runbook.id>>
    /\ record.basis # "modeled"
    /\ control \in record.controls

\* The exercises of the scope, and those that count: not a rehearsal, passed;
\* each is named by its place in the file.
Relevant(p) ==
    {k \in DOMAIN p.exercises :
        LET e == p.exercises[k]
        IN  /\ e.service = p.service /\ e.environment = p.environment
            /\ e.runbook_id = p.runbook.id}

Graded(p) == {k \in Relevant(p) : p.exercises[k].grade # "rehearsal"}

Passed(p) == {k \in Graded(p) : p.exercises[k].passed}

\* evaluate_l4_eligibility: nothing is missing.
Eligible(p) ==
    /\ ExerciseBackedKinds \subseteq {p.exercises[k].kind : k \in Passed(p)}
    /\ \A control \in AttestedControls :
        \E record \in p.records : Attests(record, p, control)
    /\ \A k \in Passed(p) :
        /\ p.exercises[k].observed_blast_radius <= p.budget
        /\ p.exercises[k].referenced
    /\ Cardinality(Passed(p)) >= MinSuccessfulExercises
    /\ Passed(p) = Relevant(p)          \* no failure and no rehearsal among them

\* The checks of the script before it looks at any evidence.
RequestIsValid(p) ==
    /\ p.issued_by = "person"
    /\ p.valid_days > 0
    /\ ~p.into_registry
    /\ p.environment \in p.runbook.environments
    /\ p.budget > 0
    /\ p.readable

\* L4CertificationRecord, as the control loop and OPA see it.
RecordOf(p, now) ==
    LET scope == <<p.service, p.environment, p.runbook.id, p.budget>>
    IN  [present |-> TRUE, scope_hash |-> scope,
         inputs_hash |-> <<scope, p.runbook, p.revision>>,
         expires_on |-> [form |-> "zoned", at |-> now + p.valid_days]]

=============================================================================
