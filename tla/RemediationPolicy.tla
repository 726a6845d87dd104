------------------------- MODULE RemediationPolicy -------------------------
(***************************************************************************)
(* The authorization rules in front of a mutation: how the executor        *)
(* resolves a claimed autonomy level (remediation/executor.py), the        *)
(* offline reference evaluator (remediation/opa_policy.py), the Rego       *)
(* bundle it mirrors (infra/policy/remediation-policy.rego) and the scoped *)
(* L4 certification (resilience/certification.py, resilience/scope.py).    *)
(*                                                                         *)
(* A hash is represented by the tuple it hashes, and <<>> is the empty     *)
(* hash.  Of an instant the rules see whether it can be read: "zoned" is   *)
(* read by Python and by Rego, "naive" only by Python (as UTC), "garbled"  *)
(* by neither.                                                             *)
(***************************************************************************)
EXTENDS Naturals, SequencesExt

CONSTANTS
    Services, Environments,
    RunbookIds,
    Runbooks,       \* the definitions a runbook may have in the catalog
    Revisions,      \* policy bundle revisions of OPA
    LocalRevision   \* the revision the local evaluator reports

\* AutonomyLevel; 5 is an integer that is no level.
Levels == 0..4
ApproveAndExecute == 3
BoundedAutonomous == 4
NoClaim == 10           \* autonomy_level = None
NotANumber == 11        \* autonomy_level is no integer
Claims == (0..5) \union {NoClaim, NotANumber}

\* `rollback' is rollback_id, "none" where it is not set.
Runbook ==
    [id: RunbookIds, environments: SUBSET Environments, max_blast_radius: Nat,
     required_level: Levels, verify_signal: STRING, rollback: STRING,
     preconditions: SUBSET STRING]

\* Every runbook of default_catalog requires at least L3, and register refuses
\* one of that level without preconditions.
ASSUME PolicyConstants ==
    /\ Runbooks \subseteq Runbook
    /\ \A b \in Runbooks :
        b.required_level >= ApproveAndExecute /\ b.preconditions # {}
    /\ LocalRevision \notin Revisions

ServiceAutonomy ==
    [service: Services, environment: Environments, level: Levels,
     certified_runbooks: SUBSET RunbookIds, max_blast_radius: Nat,
     kill_switch: BOOLEAN]

ScopeHash ==
    {<<>>} \union (Services \X Environments \X RunbookIds \X (Nat \ {0}))

InputsHash ==
    {<<>>} \union (ScopeHash \X Runbooks \X (Revisions \union {LocalRevision}))

Instant == [form: {"zoned", "naive", "garbled"}, at: Nat]

CertificationClaim ==
    [present: BOOLEAN, scope_hash: ScopeHash, inputs_hash: InputsHash,
     expires_on: Instant]

\* ActionRequest and the other arguments of execute_control_loop.  `managed'
\* says that the call is given a concurrency_lock_manager; the evaluator is
\* OPA, none at all (the local one then decides), or none where OPA is
\* required (opa_evaluator_required).  `target' is the adapter: some
\* ActionAdapter, the Kubernetes one, or the Kubernetes one on a digital twin;
\* `loads' says that the caller presents a certification record it read.
Request ==
    [service: Services, environment: Environments, runbook: Runbooks,
     blast_radius: Nat, error_budget: BOOLEAN, policy: ServiceAutonomy,
     approval_verified: BOOLEAN, audit_available: BOOLEAN,
     verification_defined: BOOLEAN, autonomy_level: Claims,
     certification: CertificationClaim, evaluator: {"opa", "local", "missing"},
     canary: BOOLEAN, managed: BOOLEAN, impacted: SUBSET Services,
     target: {"protocol", "kubernetes", "twin"}, loads: BOOLEAN]

-----------------------------------------------------------------------------
(* remediation/executor.py: levels *)

\* _claimed_level_value.
ClaimedLevelValue(claim) == IF claim \in 0..5 THEN claim ELSE 0

\* The kill switch goes by the higher of the granted and the claimed level.
SwitchLevel(r) ==
    IF r.policy.level >= ClaimedLevelValue(r.autonomy_level)
    THEN r.policy.level ELSE ClaimedLevelValue(r.autonomy_level)

\* Mutant of ClaimAccepted: any claim below the granted level is a downgrade.
ClaimAcceptedBelow(r) ==
    r.autonomy_level = NoClaim \/ r.autonomy_level <= r.policy.level

\* _effective_level refuses every claim but the granted level, none at all,
\* and a supervised run of an L4 scope as L3.
ClaimAccepted(r) ==
    \/ r.autonomy_level \in {NoClaim, r.policy.level}
    \/ /\ r.autonomy_level = ApproveAndExecute
       /\ r.policy.level = BoundedAutonomous

\* The level an accepted claim runs at.
EffectiveLevel(r) ==
    IF r.autonomy_level = NoClaim THEN r.policy.level ELSE r.autonomy_level

-----------------------------------------------------------------------------
(* resilience/scope.py and resilience/certification.py *)

\* certification_scope_for(...).scope_hash(); no bounded budget, no scope.
ScopeHashFor(r) ==
    IF r.policy.max_blast_radius = 0 THEN <<>>
    ELSE <<r.service, r.environment, r.runbook.id, r.policy.max_blast_radius>>

\* material_inputs_hash_for.
MaterialInputsHashFor(r, revision) ==
    <<ScopeHashFor(r), r.runbook, revision>>

Readable(instant) == instant.form # "garbled"           \* parse_instant
ReadableByRego(instant) == instant.form = "zoned"       \* parse_rfc3339_ns

\* _certification_refusal: the certification does not cover the request as
\* the revision that answered it sees it.
CertificationRefused(r, revision, moment) ==
    LET claim == r.certification
    IN  \/ ScopeHashFor(r) = <<>>
        \/ ~claim.present
        \/ ~Readable(claim.expires_on)
        \/ claim.expires_on.at <= moment
        \/ claim.scope_hash # ScopeHashFor(r)
        \/ claim.inputs_hash # MaterialInputsHashFor(r, revision)

-----------------------------------------------------------------------------
(* The two evaluators.  A rule is a condition and the reason it denies for; *)
(* the first rule whose condition holds decides, and none is an approval.   *)

Authorized == "authorized"

Rule(denies, reason) == [denies |-> denies, reason |-> reason]

FirstReason(rules) ==
    LET i == SelectInSeq(rules, LAMBDA rule : rule.denies)
    IN  IF i = 0 THEN Authorized ELSE rules[i].reason

\* AutonomyContext.is_l4: a declared L4 counts, a declared L3 does not, and
\* anything else falls back to the policy's level.
IsL4(r, level) == level = 4 \/ (level # 3 /\ r.policy.level >= 4)

\* certification_denial, for a request that runs at `level'.
CertificationDenial(r, level, moment) ==
    LET claim == r.certification
    IN  IF ~IsL4(r, level) THEN Authorized
        ELSE FirstReason(<<
            Rule(~claim.present, "certification absent"),
            Rule(~Readable(claim.expires_on), "expiry unreadable"),
            Rule(claim.expires_on.at <= moment, "certification expired"),
            Rule(ScopeHashFor(r) = <<>>, "scope missing"),
            Rule(claim.scope_hash # ScopeHashFor(r), "scope mismatch"),
            Rule(claim.inputs_hash = <<>>, "inputs hash missing")>>)

\* Mutant of LocalReason: the approval is asked for by the policy's level, as
\* remediation/policy.py does.
LocalReasonByPolicyLevel(r, level, moment) ==
    FirstReason(<<
        Rule(r.policy.kill_switch, "kill switch"),
        Rule(r.service # r.policy.service \/ r.environment # r.policy.environment,
             "outside scope"),
        Rule(r.environment \notin r.runbook.environments, "environment"),
        Rule(r.blast_radius > r.runbook.max_blast_radius
                \/ r.blast_radius > r.policy.max_blast_radius, "blast radius"),
        Rule(r.policy.level < r.runbook.required_level, "autonomy level"),
        Rule(r.runbook.id \notin r.policy.certified_runbooks, "runbook certification"),
        Rule(r.policy.level = 3 /\ ~r.approval_verified, "human approval"),
        Rule(r.policy.level >= 4 /\ ~r.error_budget, "error budget"),
        Rule(CertificationDenial(r, level, moment) # Authorized,
             CertificationDenial(r, level, moment)),
        Rule(~r.audit_available, "audit unavailable"),
        Rule(~r.verification_defined, "verification unavailable")>>)

\* LocalReferenceEvaluator.evaluate.
LocalReason(r, level, moment) ==
    LET effective == IF level = 3 /\ r.policy.level >= 4 THEN 3 ELSE r.policy.level
        denial == CertificationDenial(r, level, moment)
    IN  FirstReason(<<
        Rule(r.policy.kill_switch, "kill switch"),
        Rule(r.service # r.policy.service \/ r.environment # r.policy.environment,
             "outside scope"),
        Rule(r.environment \notin r.runbook.environments, "environment"),
        Rule(r.blast_radius > r.runbook.max_blast_radius
                \/ r.blast_radius > r.policy.max_blast_radius, "blast radius"),
        Rule(r.policy.level < r.runbook.required_level, "autonomy level"),
        Rule(r.runbook.id \notin r.policy.certified_runbooks, "runbook certification"),
        Rule(effective = 3 /\ ~r.approval_verified, "human approval"),
        Rule(r.policy.level >= 4 /\ ~r.error_budget, "error budget"),
        Rule(denial # Authorized, denial),
        Rule(~r.audit_available, "audit unavailable"),
        Rule(~r.verification_defined, "verification unavailable")>>)

\* deny_reason of the bundle: one flat chain, in its own order.  The input's
\* declared level and policy level are numbers here, because the executor
\* sends no others.
RegoReason(r, level, moment) ==
    LET claim == r.certification
        effective_level == IF level = 3 /\ r.policy.level >= 4 THEN 3
                           ELSE r.policy.level
        is_l4 == level = 4 \/ (level \notin {3, 4} /\ r.policy.level >= 4)
    IN  FirstReason(<<
        Rule(r.policy.kill_switch, "kill switch"),
        Rule(r.service # r.policy.service, "outside scope"),
        Rule(r.environment # r.policy.environment, "outside scope"),
        Rule(r.environment \notin r.runbook.environments, "environment"),
        Rule(r.blast_radius > r.runbook.max_blast_radius, "blast radius"),
        Rule(r.blast_radius > r.policy.max_blast_radius, "blast radius"),
        Rule(r.policy.level < r.runbook.required_level, "autonomy level"),
        Rule(r.runbook.id \notin r.policy.certified_runbooks, "runbook certification"),
        Rule(effective_level = 3 /\ ~r.approval_verified, "human approval"),
        Rule(r.policy.level >= 4 /\ ~r.error_budget, "error budget"),
        Rule(is_l4 /\ ~claim.present, "certification absent"),
        Rule(is_l4 /\ ~ReadableByRego(claim.expires_on), "expiry unreadable"),
        Rule(is_l4 /\ claim.expires_on.at <= moment, "certification expired"),
        Rule(is_l4 /\ ScopeHashFor(r) = <<>>, "scope missing"),
        Rule(is_l4 /\ claim.scope_hash # ScopeHashFor(r), "scope mismatch"),
        Rule(is_l4 /\ claim.inputs_hash = <<>>, "inputs hash missing"),
        Rule(~r.audit_available, "audit unavailable"),
        Rule(~r.verification_defined, "verification unavailable")>>)

=============================================================================
