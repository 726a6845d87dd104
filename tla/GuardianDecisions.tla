-------------------------- MODULE GuardianDecisions --------------------------
(***************************************************************************)
(* The pure decisions of PR Guardian: the risk of a change                 *)
(* (intelligence/risk.py), the simulated policy, the repository            *)
(* configuration a runtime loads (product/pr_guardian/config.py,           *)
(* contracts.py), the one rule that may fail a check                       *)
(* (product/pr_guardian/enforcement.py), the finding of a review and the   *)
(* observation that crosses from the evaluation to the trusted publisher   *)
(* (product/pr_guardian_shadow.py).                                        *)
(*                                                                         *)
(* A path is the set of classes the path predicates put it in, a glob the  *)
(* set of paths it matches, a date a day number.                           *)
(***************************************************************************)
EXTENDS Naturals, FiniteSets

CONSTANTS
    Services,       \* the nodes of the service graph
    Tier,           \* Services -> 1..3
    DependsOn,      \* the pairs <<a, b>> such that a depends on b
    Owners,         \* the people a configuration may name as service owners
    MaxFindings     \* 64 architecture findings fit into an observation

ASSUME GraphConstants ==
    /\ Tier \in [Services -> 1..3]
    /\ DependsOn \subseteq Services \X Services
    /\ MaxFindings \in Nat

Least(a, b) == IF a < b THEN a ELSE b

-----------------------------------------------------------------------------
(* The risk of a change *)

\* A set of services that with a service has everything depending on it.
Closed(S) == \A edge \in DependsOn : edge[2] \in S => edge[1] \in S

\* ServiceGraph.blast_radius: the changed services and their transitive dependents.
BlastRadius(changed) ==
    {s \in Services : \A S \in SUBSET Services :
                          (changed \subseteq S /\ Closed(S)) => s \in S}

\* is_iac_path, is_security_boundary_path, is_delivery_control_path, ...
PathClass == {"iac", "security", "delivery", "test", "docs"}
Touches(paths, class) == \E p \in paths : class \in p

\* A change: the class sets of its paths, how many files it has, the services
\* its paths map to, similar failed changes, the qualified context, if any, and
\* what the architecture rules see: files in scope, readable ones, findings.
Change == [paths: SUBSET SUBSET PathClass, files: Nat, services: SUBSET Services,
           failed: Nat, context: {"none", "qualified", "unqualified"},
           scope: Nat, readable: Nat, findings: Nat]

SourcePaths(change) == {p \in change.paths : p \intersect {"test", "docs"} = {}}

WeakTests(change) == SourcePaths(change) # {} /\ ~Touches(change.paths, "test")

Unmapped(change) ==
    /\ SourcePaths(change) # {}
    /\ change.services = {} \/ change.context = "unqualified"

Points(present, points) == IF present THEN points ELSE 0

\* assess_change: the sum of the factors' points, at most 100.
Score(change) ==
    LET blast == BlastRadius(change.services)
        wide == Cardinality(blast)
    IN Least(100, Points(\E s \in blast : Tier[s] = 1, 20)
                + (IF wide >= 5 THEN 20 ELSE Points(wide >= 2, 10))
                + (IF change.files >= 25 THEN 15 ELSE Points(change.files >= 10, 8))
                + Points(Touches(change.paths, "iac"), 12)
                + Points(Touches(change.paths, "delivery"), 15)
                + Points(Touches(change.paths, "security"), 20)
                + Points(Unmapped(change), 12)
                + Points(WeakTests(change), 10)
                + Least(20, 8 * change.failed))

Band(score) == CASE score < 25 -> "low" [] score \in 25..49 -> "moderate"
                 [] score \in 50..74 -> "high" [] OTHER -> "critical"

\* policy_for
MaximumPolicy(score) == [tests |-> score >= 55, approval |-> score >= 70,
                         block |-> score >= 90]

NoPolicy == [tests |-> FALSE, approval |-> FALSE, block |-> FALSE]

\* An unqualified context may surface a risk but simulates no control.
SimulatedPolicy(change) ==
    IF change.context = "unqualified" THEN NoPolicy ELSE MaximumPolicy(Score(change))

-----------------------------------------------------------------------------
(* The repository configuration *)

ProductMode == {"shadow", "advisory", "enforce"}
EnforcementRule == {"iac", "security"}      \* each without test evidence, at high risk
NoEnforcement == [rule |-> "none", threshold |-> 0, approved_by |-> "none",
                  approved_on |-> 0, expires_on |-> 0, waivers |-> {}]

ShadowConfig == [mode |-> "shadow", owners |-> {}, enforcement |-> NoEnforcement]

\* _enforcement and _waiver, and EnforcementPolicy.__post_init__.
EnforcementAccepted(e, owners, today, requireUnexpired) ==
    /\ e.rule \in EnforcementRule
    /\ e.threshold \in 0..100
    /\ e.approved_by \in owners
    /\ e.expires_on >= e.approved_on
    /\ requireUnexpired => e.expires_on >= today
    /\ \A w \in e.waivers : w.owner \in owners

\* RepositoryConfig.__post_init__: an enforcement policy if and only if enforcing.
ModeMatchesPolicy(raw) == raw.mode = "enforce" <=> raw.enforcement # NoEnforcement

\* parse_repository_config: `raw' is the file's content, "valid" in all that is
\* only shape: recognised fields, non-empty identifier lists, a policy version.
ConfigAccepted(raw, today, requireUnexpired) ==
    /\ raw.valid
    /\ raw.repository \in {"undeclared", "this"}
    /\ raw.mode \in ProductMode
    /\ ModeMatchesPolicy(raw)
    /\ raw.mode = "enforce" =>
           EnforcementAccepted(raw.enforcement, raw.owners, today, requireUnexpired)

\* load_effective_config: an absent file is shadow, and so, with a reason, is a
\* file that is not accepted; an expired approval loads as it is written.
EffectiveConfig(raw, today) ==
    IF raw.present /\ ConfigAccepted(raw, today, FALSE)
    THEN [mode |-> raw.mode, owners |-> raw.owners, enforcement |-> raw.enforcement]
    ELSE ShadowConfig

ConfigError(raw, today) == raw.present /\ ~ConfigAccepted(raw, today, FALSE)

-----------------------------------------------------------------------------
(* The enforcement decision *)

Decision(block, reason, rule, by) ==
    [would_block |-> block, reason |-> reason, rule |-> rule, waived_by |-> by]

Triggering(config, paths) == {p \in paths : config.enforcement.rule \in p}

ConditionMet(config, change) ==
    /\ Score(change) >= config.enforcement.threshold
    /\ WeakTests(change)
    /\ Triggering(config, change.paths) # {}

\* Waivers that are active and whose glob covers every triggering path.
CoveringWaivers(config, paths, today) ==
    {w \in config.enforcement.waivers :
        w.expires_on >= today /\ Triggering(config, paths) \subseteq w.covers}

\* enforcement_decision, its returns in order.
EnforcementDecision(config, change, today, kill) ==
    LET e == config.enforcement
        waivers == CoveringWaivers(config, change.paths, today)
    IN IF kill THEN Decision(FALSE, "kill-switch", e.rule, "none")
       ELSE IF config.mode # "enforce" THEN Decision(FALSE, "mode-not-enforcing", "none", "none")
       ELSE IF e.expires_on < today THEN Decision(FALSE, "approval-expired", e.rule, "none")
       ELSE IF ~ConditionMet(config, change)
       THEN Decision(FALSE, "condition-not-met", e.rule, "none")
       ELSE IF waivers # {}
       THEN Decision(FALSE, "waived", e.rule, (CHOOSE w \in waivers : TRUE).owner)
       ELSE Decision(TRUE, "condition-met", e.rule, "none")

\* PRGuardianService.evaluate: an unqualified context never blocks.
ServiceDecision(config, change, today, kill) ==
    LET d == EnforcementDecision(config, change, today, kill)
    IN IF change.context = "unqualified"
       THEN Decision(FALSE, "context-unqualified", d.rule, "none")
       ELSE d

-----------------------------------------------------------------------------
(* Findings and observations *)

\* PRFindingFactory.create and _simulated_action.
SimulatedAction(change) ==
    LET p == SimulatedPolicy(change)
    IN IF change.context # "qualified" THEN "none"
       ELSE IF p.block THEN "would-block"
       ELSE IF p.approval THEN "additional-approval"
       ELSE IF p.tests THEN "extended-tests" ELSE "none"

\* review_changed_paths: a file that cannot be read is skipped, never clean.
ArchitectureReview(change) ==
    [in_scope |-> change.scope, reviewed |-> change.readable,
     findings |-> IF change.readable = 0 THEN 0 ELSE change.findings]

\* observation_from_assessment: what the evaluation hands to the publisher.
Observation(config, change, today, kill, head) ==
    LET d == ServiceDecision(config, change, today, kill)
    IN [mode |-> config.mode, would_block |-> d.would_block, reason |-> d.reason,
        rule |-> d.rule, score |-> Score(change), head |-> head,
        policy |-> SimulatedPolicy(change), architecture |-> ArchitectureReview(change)]

\* _validate_architecture: no finding without a reviewed file.
ArchitectureAccepted(review) ==
    /\ review.reviewed <= review.in_scope
    /\ review.findings > 0 => review.reviewed > 0
    /\ review.findings <= MaxFindings

\* _validate_assessment and what it calls.
AssessmentAccepted(o) == o.score \in 0..100

\* The relations validate_observation demands beyond the shape of the record.
ObservationAccepted(o) ==
    /\ o.mode \in ProductMode
    /\ o.would_block => o.rule # "none" /\ o.mode = "enforce"
    /\ AssessmentAccepted(o)
    /\ ArchitectureAccepted(o.architecture)

\* Mutant: the approval may have expired since the evaluation.
PublishDecisionExpired(o, config, kill, today) ==
    IF /\ o.mode = "enforce" /\ o.would_block /\ ~kill /\ config.mode = "enforce"
       /\ o.rule = config.enforcement.rule /\ o.score >= config.enforcement.threshold
    THEN [conclusion |-> "failure", reason |-> "enforced"]
    ELSE [conclusion |-> "neutral", reason |-> "other"]

\* Mutant: the observation alone decides.
PublishDecisionTrusting(o, config, kill, today) ==
    IF o.mode = "enforce" /\ o.would_block /\ ~kill
    THEN [conclusion |-> "failure", reason |-> "enforced"]
    ELSE [conclusion |-> "neutral", reason |-> "other"]

\* publishable_conclusion, its returns in order.
PublishDecision(o, config, kill, today) ==
    LET e == config.enforcement
        Neutral(reason) == [conclusion |-> "neutral", reason |-> reason]
    IN IF o.mode # "enforce" THEN Neutral("observation-not-enforcing")
       ELSE IF ~o.would_block THEN Neutral(o.reason)
       ELSE IF kill THEN Neutral("kill-switch")
       ELSE IF config.mode # "enforce" THEN Neutral("config-not-enforcing")
       ELSE IF o.rule # e.rule THEN Neutral("rule-mismatch")
       ELSE IF o.score < e.threshold THEN Neutral("threshold-not-met")
       ELSE IF e.expires_on < today THEN Neutral("approval-expired")
       ELSE [conclusion |-> "failure", reason |-> "enforced"]
=============================================================================
