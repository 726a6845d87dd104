---------------------------- MODULE GuardianPilot ----------------------------
(***************************************************************************)
(* The contracts around a PR Guardian shadow pilot, as operators: the      *)
(* pilot manifest and its readiness (product/pr_guardian/pilot.py,         *)
(* pilot_readiness.py, pilot_bootstrap.py), the record of a closed pull    *)
(* request (product/pr_guardian_shadow.py), the report over those records  *)
(* (feedback/pr_guardian_shadow.py, intelligence/risk_calibration.py) and  *)
(* the packet a human promotion review is asked to read                    *)
(* (feedback/pr_guardian_promotion.py).                                    *)
(*                                                                         *)
(* A field that only has to be well-formed text is part of `valid'.  A     *)
(* digest is what it is taken of.                                          *)
(***************************************************************************)
EXTENDS GuardianDecisions

CONSTANTS
    MinJoined,          \* 30 joined observations
    MinReviewed,        \* 30 reviewer classifications
    MinConfirmed,       \* 5 confirmed risks
    MinRetention        \* 90 days of retention

-----------------------------------------------------------------------------
(* The manifest and its readiness *)

\* No manifest file, or one that is not JSON of the expected shape.
NoManifest == [valid |-> FALSE, owners |-> {}, impact |-> "none", permissions |-> "none",
               check_required |-> FALSE, retention_days |-> 0, external |-> FALSE]

\* The parsers of the manifest's parts: the expected keys, and text, numbers
\* and named people where they are expected.
WellFormed(m) == m.valid

\* ShadowWorkflowControls.__post_init__: exactly the reviewed split of
\* permissions, and no required check.
ControlsReviewed(m) == m.permissions = "reviewed" /\ ~m.check_required

\* PilotEvidenceRetention.__post_init__: a store outside of Actions that keeps
\* records long enough.
RetentionAccepted(m) == m.external /\ m.retention_days >= MinRetention

\* parse_shadow_pilot_manifest and ShadowPilotManifest.__post_init__.
ManifestAccepted(m) ==
    /\ WellFormed(m)
    /\ m.impact = "advisory"
    /\ ControlsReviewed(m)
    /\ RetentionAccepted(m)
    /\ m.owners # {}

\* build_shadow_pilot_bundle: the manifest and the configuration it writes.
BundleManifest(owners) ==
    [valid |-> TRUE, owners |-> owners, impact |-> "advisory", permissions |-> "reviewed",
     check_required |-> FALSE, retention_days |-> MinRetention, external |-> TRUE]

BundleConfig(owners) ==
    [present |-> TRUE, valid |-> TRUE, repository |-> "this", mode |-> "shadow",
     owners |-> owners, enforcement |-> NoEnforcement]

\* validate_shadow_installation: mode shadow, and the scope of the manifest.
InstallationMatches(m, config) == config.mode = "shadow" /\ config.owners = m.owners

\* load_repository_config refuses an absent or unaccepted file, and an expired
\* approval.
ConfigLoads(raw, today) == raw.present /\ ConfigAccepted(raw, today, TRUE)

\* assess_shadow_pilot_checkout
ContractReady(m, raw, today) ==
    /\ ManifestAccepted(m)
    /\ ConfigLoads(raw, today)
    /\ InstallationMatches(m, raw)

-----------------------------------------------------------------------------
(* Closure records *)

RiskLabel == {"confirmed-risk", "false-positive"}
UtilityLabel == {"useful", "not-useful"}

\* _single_signal fails on two labels of a group.
Conflicting(labels) == RiskLabel \subseteq labels \/ UtilityLabel \subseteq labels

Signal(labels, group) ==
    IF labels \intersect group = {} THEN "not-reviewed"
    ELSE CHOOSE l \in labels \intersect group : TRUE

NoSource == [score |-> 0, would_block |-> FALSE, joined |-> FALSE, head |-> 0]

\* The sticky comment: what observation_from_comment reads out of it.
NoComment == [joined |-> FALSE]

\* Mutant: the comment of any head is joined.
OutcomeAcceptedAnyHead(closure, comment) == ~Conflicting(closure.labels)

\* closure_outcome raises on conflicting labels and on a comment about another head.
OutcomeAccepted(closure, comment) ==
    /\ ~Conflicting(closure.labels)
    /\ comment.joined => comment.observation.head = closure.head

Outcome(closure, comment) ==
    [closure |-> closure.id, head |-> closure.head,
     risk |-> Signal(closure.labels, RiskLabel),
     utility |-> Signal(closure.labels, UtilityLabel),
     source |-> IF comment.joined
                THEN [score |-> comment.observation.score,
                      would_block |-> comment.observation.policy.block,
                      joined |-> TRUE, head |-> comment.observation.head]
                ELSE NoSource]

-----------------------------------------------------------------------------
(* The report: build_shadow_report over a set of records *)

Joined(outcomes) == {o \in outcomes : o.source.joined}
Reviewed(outcomes) == {o \in Joined(outcomes) : o.risk # "not-reviewed"}
Confirmed(outcomes) == {o \in Reviewed(outcomes) : o.risk = "confirmed-risk"}
Blocked(outcomes) == {o \in Reviewed(outcomes) : o.source.would_block}

\* At least n / d of the whole; a ratio over nothing is None.  (_ratio rounds to
\* four digits, which tells no two of these apart below ten thousand records.)
AtLeast(part, whole, n, d) == whole > 0 /\ d * part >= n * whole

Requirements(outcomes) ==
    LET hits == Cardinality(Blocked(outcomes) \intersect Confirmed(outcomes))
    IN [joined |-> Cardinality(Joined(outcomes)) >= MinJoined,
        reviewed |-> Cardinality(Reviewed(outcomes)) >= MinReviewed,
        confirmed |-> Cardinality(Confirmed(outcomes)) >= MinConfirmed,
        precision |-> AtLeast(hits, Cardinality(Blocked(outcomes)), 1, 2),
        recall |-> AtLeast(hits, Cardinality(Confirmed(outcomes)), 4, 5)]

Unmet(outcomes) == {r \in {"joined", "reviewed", "confirmed", "precision", "recall"} :
                        ~Requirements(outcomes)[r]}

\* evaluate_threshold: the reviewed records a threshold would have called high.
Flagged(outcomes, threshold) == {o \in Reviewed(outcomes) : o.source.score >= threshold}

\* The thresholds the precision and recall floors admit.
CandidateThresholds(outcomes) ==
    {t \in {5 * k : k \in 8..15} :
        LET flagged == Flagged(outcomes, t)
            hits == Cardinality(flagged \intersect Confirmed(outcomes))
        IN /\ AtLeast(hits, Cardinality(flagged), 1, 2)
           /\ AtLeast(hits, Cardinality(Confirmed(outcomes)), 4, 5)}

Distance(t) == IF t < 50 THEN 50 - t ELSE t - 50

\* rank: fewest missed risks, then highest precision, then nearest the default,
\* then the lower one, which min meets first.
Better(outcomes, t, u) ==
    LET hits(v) == Cardinality(Flagged(outcomes, v) \intersect Confirmed(outcomes))
        size(v) == Cardinality(Flagged(outcomes, v))
    IN \/ hits(t) > hits(u)
       \/ hits(t) = hits(u) /\ size(t) < size(u)
       \/ /\ hits(t) = hits(u) /\ size(t) = size(u)
          /\ Distance(t) < Distance(u) \/ (Distance(t) = Distance(u) /\ t <= u)

\* calibrate_high_risk_threshold: the default is kept below the sample minimums.
SuggestedThreshold(outcomes) ==
    LET candidates == CandidateThresholds(outcomes)
    IN IF \/ Cardinality(Reviewed(outcomes)) < MinReviewed
          \/ Cardinality(Confirmed(outcomes)) < MinConfirmed
          \/ candidates = {}
       THEN 50
       ELSE CHOOSE t \in candidates : \A u \in candidates : Better(outcomes, t, u)

Report(outcomes) ==
    [export |-> outcomes, unmet |-> Unmet(outcomes),
     suggested |-> SuggestedThreshold(outcomes),
     blocking_authorized |-> FALSE,
     decision |-> IF Unmet(outcomes) = {} THEN "advisory-candidate" ELSE "shadow-only"]

-----------------------------------------------------------------------------
(* The packet for a human promotion review *)

Purpose == {"shadow-outcome-export", "shadow-report", "citation-quality-review",
            "performance-and-cost-report", "independent-post-merge-correlation"}

\* canonical_json_sha256 of a report, canonical_shadow_outcomes_sha256 of an export.
Digest(kind, content) == <<kind, content>>

\* RetainedEvidenceReference.__post_init__
EvidenceAccepted(e) ==
    /\ e.external /\ e.retention_days >= MinRetention
    /\ CASE e.purpose = "shadow-outcome-export" -> e.basis = "measured"
         [] e.purpose = "shadow-report" -> e.basis = "derived"
         [] e.purpose = "independent-post-merge-correlation" ->
                e.basis = "measured" /\ e.verified_by \notin {"nobody", e.produced_by}
         [] OTHER -> e.basis # "modeled"

\* FeedbackLoopSummary of a report that is a candidate: the report's digest and
\* that of the export.
Feedback(report) == [report |-> report, export |-> report.export]

\* Mutant: the digests are not compared with the feedback's.
PacketAcceptedUnbound(packet) ==
    /\ packet.expires_on >= packet.prepared_on
    /\ \A e \in packet.evidence : EvidenceAccepted(e)

\* _retained_evidence_by_purpose: every purpose once, and no other.
EveryPurposeOnce(packet) ==
    /\ \A e \in packet.evidence : e.purpose \in Purpose
    /\ \A p \in Purpose : \E e \in packet.evidence :
           e.purpose = p /\ \A f \in packet.evidence : f.purpose = p => f = e

\* AdvisoryPromotionReviewPacket.__post_init__: the two digests of the feedback
\* are those of the evidence that is named for them.
PacketAccepted(packet) ==
    /\ packet.expires_on >= packet.prepared_on
    /\ packet.mode = "shadow"
    /\ EveryPurposeOnce(packet)
    /\ \A e \in packet.evidence :
          /\ EvidenceAccepted(e)
          /\ e.purpose = "shadow-report" =>
                 e.content = Digest("report", packet.feedback.report)
          /\ e.purpose = "shadow-outcome-export" =>
                 e.content = Digest("export", packet.feedback.export)

\* feedback_summary_from_shadow_report refuses a report that is no candidate.
ReportIsCandidate(report) ==
    /\ report.unmet = {}
    /\ report.decision = "advisory-candidate"
    /\ ~report.blocking_authorized

\* parse_advisory_promotion_review_packet on `today', and
\* validate_packet_against_shadow_report.
PacketValid(packet, report, today) ==
    /\ PacketAccepted(packet)
    /\ packet.expires_on >= today
    /\ ReportIsCandidate(report)
    /\ packet.feedback = Feedback(report)
=============================================================================
