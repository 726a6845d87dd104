----------------------------- MODULE ShadowPilot -----------------------------
(***************************************************************************)
(* PR Guardian as GitHub workflows over one pull request of a repository:  *)
(* the read-only evaluation job (scripts/run_pr_guardian.py), the trusted  *)
(* publisher (scripts/publish_pr_guardian_shadow.py), the closure record   *)
(* (scripts/capture_pr_guardian_shadow_outcome.py), the report over the    *)
(* records (scripts/summarize_pr_guardian_shadow.py) and the packet of a   *)
(* promotion review (scripts/validate_pr_guardian_promotion_packet.py).    *)
(*                                                                         *)
(* Each job is started by an event and runs on its own: jobs of several    *)
(* heads overlap, end in any order or not at all (no step of a job is      *)
(* forced: a call of GitHub that fails ends it), while people change the   *)
(* configuration, the kill switch and the labels, push, close and reopen.  *)
(***************************************************************************)
EXTENDS GuardianPilot, Sequences

CONSTANTS
    RawConfigs,     \* contents the configuration file may be given
    Manifests,      \* contents the pilot manifest may be given
    HeadChanges,    \* what a head may change
    Labels,         \* the label sets reviewers may leave
    Claims,         \* what a workflow the pull request alters may say of itself
    Flaws,          \* what may be wrong with the evidence of a packet
    ReviewDays,     \* how long a packet stays current
    MaxDay,         \* bound on the date
    MaxRuns,        \* bound: evaluation runs
    MaxClosures,    \* bound: closures of the pull request
    MaxEdits,       \* bound: changes of configuration, manifest, kill switch, labels
    MaxPackets      \* bound: promotion packets written

ASSUME PilotConstants ==
    /\ \A claim \in Claims : "head" \in DOMAIN claim
    /\ ReviewDays \in Nat

VARIABLES
    today,
    kill,           \* the repository variable EIP_PR_GUARDIAN_KILL_SWITCH
    raw,            \* .eip/pr-guardian.json on the default branch
    manifest,       \* .eip/pr-guardian-shadow-pilot.json on the default branch
    pull,           \* the pull request: [head, change, open, labels]
    runs,           \* evaluation runs and the publisher each one triggers
    checkRuns,      \* check runs on GitHub: [run, mode, conclusion]
    comment,        \* the sticky comment
    closures,       \* closed events and what became of each
    outcomes,       \* retained closure records
    report,         \* the report last generated
    packet,         \* the promotion packet last written
    reviewed,       \* packets found valid, with the records retained then
    edits,
    packets

pilotVars == <<today, kill, raw, manifest, pull, runs, checkRuns, comment, closures, outcomes,
               report, packet, reviewed, edits, packets>>
people == <<today, kill, raw, manifest, edits>>
pilot == <<closures, outcomes, report, packet, packets, reviewed>>

Missing == [kind |-> "missing"]

NewRun(head, change) ==
    [stage |-> "queued", head |-> head, change |-> change, artifact |-> Missing]

NoPacket == [written |-> FALSE]

InitPilot ==
    /\ today = 0 /\ kill = FALSE /\ edits = 0
    /\ raw \in RawConfigs
    /\ manifest = NoManifest
    /\ \E c \in HeadChanges :
          /\ pull = [head |-> 1, change |-> c, open |-> TRUE, labels |-> {}]
          /\ runs = <<NewRun(1, c)>>
    /\ checkRuns = {} /\ comment = NoComment
    /\ closures = <<>> /\ outcomes = {}
    /\ report = Report({}) /\ packet = NoPacket /\ packets = 0 /\ reviewed = {}

-----------------------------------------------------------------------------
(* People *)

Edit == edits < MaxEdits /\ edits' = edits + 1

SetConfig ==
    /\ Edit
    /\ \E c \in RawConfigs \ {raw} : raw' = c
    /\ UNCHANGED <<today, kill, manifest, pull, runs, checkRuns, comment, pilot>>

SetManifest ==
    /\ Edit
    /\ \E m \in Manifests \ {manifest} : manifest' = m
    /\ UNCHANGED <<today, kill, raw, pull, runs, checkRuns, comment, pilot>>

\* scripts/prepare_pr_guardian_shadow_pilot.py, reviewed and merged.
Bootstrap ==
    /\ Edit
    /\ manifest' = BundleManifest(Owners) /\ raw' = BundleConfig(Owners)
    /\ UNCHANGED <<today, kill, pull, runs, checkRuns, comment, pilot>>

ToggleKillSwitch ==
    /\ Edit
    /\ kill' = ~kill
    /\ UNCHANGED <<today, raw, manifest, pull, runs, checkRuns, comment, pilot>>

SetLabels ==
    /\ Edit /\ pull.open
    /\ \E ls \in Labels \ {pull.labels} : pull' = [pull EXCEPT !.labels = ls]
    /\ UNCHANGED <<today, kill, raw, manifest, runs, checkRuns, comment, pilot>>

NextDay ==
    /\ today < MaxDay /\ today' = today + 1
    /\ UNCHANGED <<kill, raw, manifest, pull, runs, checkRuns, comment, pilot, edits>>

\* synchronize: a new head, and an evaluation of it.
Push ==
    /\ pull.open /\ Len(runs) < MaxRuns
    /\ \E c \in HeadChanges :
          /\ pull' = [pull EXCEPT !.head = @ + 1, !.change = c]
          /\ runs' = Append(runs, NewRun(pull.head + 1, c))
    /\ UNCHANGED <<people, checkRuns, comment, pilot>>

Reopen ==
    /\ ~pull.open /\ Len(runs) < MaxRuns
    /\ pull' = [pull EXCEPT !.open = TRUE]
    /\ runs' = Append(runs, NewRun(pull.head, pull.change))
    /\ UNCHANGED <<people, checkRuns, comment, pilot>>

\* closed: the event carries the head and the labels of its moment.
Close ==
    /\ pull.open /\ Len(closures) < MaxClosures
    /\ pull' = [pull EXCEPT !.open = FALSE]
    /\ closures' = Append(closures, [id |-> Len(closures) + 1, head |-> pull.head,
                                     labels |-> pull.labels, state |-> "pending"])
    /\ UNCHANGED <<people, runs, checkRuns, comment, outcomes, report, packet, packets, reviewed>>

-----------------------------------------------------------------------------
(* The evaluation job: never a gate, it exits 0 and at worst writes no artifact *)

\* The result a run uploads.  `altered' is history: no code can read it.
Uploaded(observation, altered) ==
    [kind |-> "observation", altered |-> altered, observation |-> observation]

\* _evaluate_and_write, with the configuration of the base commit.
Evaluate(r) ==
    LET o == Observation(EffectiveConfig(raw, today), runs[r].change, today, kill,
                         runs[r].head)
    IN /\ runs[r].stage = "queued"
       /\ runs' = [runs EXCEPT ![r].stage = "evaluated",
                      ![r].artifact = IF ObservationAccepted(o) THEN Uploaded(o, FALSE)
                                      ELSE Missing]
       /\ UNCHANGED <<people, pull, checkRuns, comment, pilot>>

\* The job is defined by the head it runs on, so a change of the delivery
\* workflows may have the job upload another observation of its head.
UploadAltered(r) ==
    /\ runs[r].stage = "queued"
    /\ Touches(runs[r].change.paths, "delivery")
    /\ \E claim \in Claims :
          runs' = [runs EXCEPT ![r].stage = "evaluated",
                      ![r].artifact = Uploaded([claim EXCEPT !.head = runs[r].head], TRUE)]
    /\ UNCHANGED <<people, pull, checkRuns, comment, pilot>>

\* The job fails, its artifact is lost, or it cannot be parsed.
EvaluationLost(r) ==
    /\ runs[r].stage = "queued"
    /\ runs' = [runs EXCEPT ![r].stage = "evaluated"]
    /\ UNCHANGED <<people, pull, checkRuns, comment, pilot>>

\* The artifact that is downloaded is the one of another head.
WrongArtifact(r) ==
    /\ runs[r].stage = "evaluated"
    /\ \E q \in 1..Len(runs) :
          /\ runs[q].artifact # Missing /\ runs[q].head # runs[r].head
          /\ runs' = [runs EXCEPT ![r].artifact = runs[q].artifact]
    /\ UNCHANGED <<people, pull, checkRuns, comment, pilot>>

-----------------------------------------------------------------------------
(* The trusted publisher *)

\* trusted_observation: the artifact is there, validates, and is of this head.
Trusted(run) ==
    /\ run.artifact.kind = "observation"
    /\ ObservationAccepted(run.artifact.observation)
    /\ run.artifact.observation.head = run.head

\* main and publish_observation: what the check concludes.
Conclude(run, config, error, killed, day) ==
    IF Trusted(run) /\ ~error
    THEN PublishDecision(run.artifact.observation, config, killed, day).conclusion
    ELSE "neutral"

\* The configuration and the kill switch as they are by then, then publish_check
\* without an external_id: one more check run under the mode's name.
PublishCheck(r) ==
    LET config == EffectiveConfig(raw, today)
    IN /\ runs[r].stage = "evaluated"
       /\ checkRuns' = checkRuns \union
              {[run |-> r, mode |-> config.mode,
                conclusion |-> Conclude(runs[r], config, ConfigError(raw, today), kill, today)]}
       /\ runs' = [runs EXCEPT ![r].stage = "checked"]
       /\ UNCHANGED <<people, pull, comment, pilot>>

\* publish_sticky_comment: one comment for the pull request, overwritten.
PublishComment(r) ==
    /\ runs[r].stage = "checked"
    /\ comment' = IF Trusted(runs[r])
                  THEN [joined |-> TRUE, observation |-> runs[r].artifact.observation]
                  ELSE NoComment
    /\ runs' = [runs EXCEPT ![r].stage = "done"]
    /\ UNCHANGED <<people, pull, checkRuns, pilot>>

-----------------------------------------------------------------------------
(* Closure records, report, promotion packet *)

\* capture_pr_guardian_shadow_outcome reads the comment as it is by then; the
\* record is kept whether or not its own comment can be published.
Capture(c) ==
    /\ closures[c].state = "pending"
    /\ \/ /\ OutcomeAccepted(closures[c], comment)
          /\ outcomes' = outcomes \union {Outcome(closures[c], comment)}
          /\ closures' = [closures EXCEPT ![c].state = "recorded"]
       \/ /\ ~OutcomeAccepted(closures[c], comment)
          /\ closures' = [closures EXCEPT ![c].state = "refused"]
          /\ UNCHANGED outcomes
    /\ UNCHANGED <<people, pull, runs, checkRuns, comment, report, packet, packets, reviewed>>

Summarize ==
    /\ report.export # outcomes
    /\ report' = Report(outcomes)
    /\ UNCHANGED <<people, pull, runs, checkRuns, comment, closures, outcomes, packet, packets,
                   reviewed>>

\* The evidence of a packet: each purpose, with the content that is at hand.
Evidence(from, flaw) ==
    LET Item(p, content) ==
            [purpose |-> p, external |-> flaw # "actions-artifact",
             retention_days |-> MinRetention - (IF flaw = "short-retention" THEN 1 ELSE 0),
             basis |-> CASE p = "shadow-report" -> "derived"
                         [] flaw = "modeled" -> "modeled"
                         [] OTHER -> "measured",
             produced_by |-> "pilot-owner",
             verified_by |-> IF flaw = "self-verified" THEN "pilot-owner" ELSE "sre",
             content |-> content]
    IN {Item(p, CASE p = "shadow-report" -> Digest("report", from)
                  [] p = "shadow-outcome-export" -> Digest("export", from.export)
                  [] OTHER -> Digest("other", {})) :
            p \in Purpose \ (IF flaw = "missing" THEN {"citation-quality-review"} ELSE {})}

\* People write a packet about the report they have, once there is one with
\* records; the evidence may be about those of an earlier or a later report, and
\* there may be something wrong with it.
WritePacket ==
    /\ report.export # {}
    /\ packets < MaxPackets /\ packets' = packets + 1
    /\ \E flaw \in Flaws, records \in {{}, report.export, outcomes} :
          packet' = [written |-> TRUE, feedback |-> Feedback(report), mode |-> "shadow",
                     evidence |-> Evidence(Report(records), flaw),
                     prepared_on |-> today, expires_on |-> today + ReviewDays]
    /\ UNCHANGED <<people, pull, runs, checkRuns, comment, closures, outcomes, report, reviewed>>

\* validate_pr_guardian_promotion_packet with --shadow-report.
ReviewPacket ==
    /\ packet.written
    /\ PacketValid(packet, report, today)
    /\ reviewed' = reviewed \union {[packet |-> packet, on |-> today]}
    /\ UNCHANGED <<people, pull, runs, checkRuns, comment, closures, outcomes, report, packet,
                   packets>>

NextPilot ==
    \/ SetConfig \/ SetManifest \/ Bootstrap \/ ToggleKillSwitch \/ SetLabels \/ NextDay
    \/ Push \/ Reopen \/ Close
    \/ \E r \in 1..Len(runs) :
          \/ Evaluate(r) \/ UploadAltered(r) \/ EvaluationLost(r) \/ WrongArtifact(r)
          \/ PublishCheck(r) \/ PublishComment(r)
    \/ \E c \in 1..Len(closures) : Capture(c)
    \/ Summarize \/ WritePacket \/ ReviewPacket

PilotSpec == InitPilot /\ [][NextPilot]_pilotVars

-----------------------------------------------------------------------------
(* Properties *)

\* The artifact of a run is one the pull request's own workflow made up.
OwnWorkflow(run) == run.artifact.altered /\ Touches(run.change.paths, "delivery")

\* A failing check is one the default branch, the kill switch and the date of the
\* moment it is published allow, although it follows from an older evaluation
\* under an older configuration: enforcement is on and approved, the observation
\* is of this head, names the rule in force and clears its threshold, and the
\* change deserves the failure but for a waiver granted in between, which
\* publishable_conclusion does not read (product/pr_guardian/enforcement.py:200).
\* Only a pull request that alters the delivery workflows can fail undeserved.
FailureIsDeserved ==
    [][\A k \in checkRuns' \ checkRuns : k.conclusion = "failure" =>
          LET config == EffectiveConfig(raw, today)
              e == config.enforcement
              run == runs[k.run]
              o == run.artifact.observation
              d == ServiceDecision(config, run.change, today, kill)
          IN /\ ~kill /\ config.mode = "enforce" /\ ~(e.expires_on < today)
             /\ o.head = run.head /\ o.rule = e.rule /\ ~(o.score < e.threshold)
             /\ d.would_block \/ d.reason = "waived" \/ OwnWorkflow(run)]_pilotVars

\* A change of no path that an enforcement rule is about, or one with tests,
\* meets the condition of no rule.
NoRuleCanFire(change) ==
    ~WeakTests(change) \/ \A rule \in EnforcementRule : ~Touches(change.paths, rule)

\* "A forged `would_block: true' ... degrade[s] to `neutral'"
\* (docs/PR-GUARDIAN-REPOSITORY-CONFIG.md:174): what no rule can fire on is never
\* failed, whatever its workflow says.
ForgedBlockIsNeutral ==
    \A k \in checkRuns :
        NoRuleCanFire(runs[k.run].change) => k.conclusion = "neutral"

\* While the default branch is ready for a pilot, every check that is published
\* is neutral and bears the shadow mode, whatever was evaluated before
\* (assess_shadow_pilot_checkout, product/pr_guardian/pilot_readiness.py:77).
PilotNeverBlocks ==
    [][ContractReady(manifest, raw, today) =>
          \A k \in checkRuns' \ checkRuns : k.conclusion = "neutral" /\ k.mode = "shadow"]_pilotVars

\* A record that is joined carries the score and the simulated block that a run of
\* the very head that was closed published, and they are those of its change
\* unless its own workflow made them up, however publishers of several heads
\* overwrote the comment (closure_outcome, product/pr_guardian_shadow.py:593).
JoinedToItsHead ==
    \A o \in Joined(outcomes) :
        \E r \in 1..Len(runs) :
            LET said == runs[r].artifact.observation
            IN /\ runs[r].head = o.head /\ runs[r].stage = "done"
               /\ runs[r].artifact # Missing
               /\ o.source.score = said.score /\ o.source.would_block = said.policy.block
               /\ \/ OwnWorkflow(runs[r])
                  \/ /\ said.score = Score(runs[r].change)
                     /\ said.policy = SimulatedPolicy(runs[r].change)

\* The records a promotion may rest on: enough of them joined, classified and
\* confirmed; at least half of the classified blocks are confirmed risks, and at
\* least four fifths of the confirmed risks would have been blocked.
EnoughEvidence(records) ==
    LET joined == {o \in records : o.source.joined}
        classified == {o \in joined : o.risk # "not-reviewed"}
        risks == {o \in joined : o.risk = "confirmed-risk"}
        blocks == {o \in classified : o.source.would_block}
        hits == Cardinality(blocks \intersect risks)
    IN /\ Cardinality(joined) >= MinJoined
       /\ Cardinality(classified) >= MinReviewed
       /\ Cardinality(risks) >= MinConfirmed
       /\ Cardinality(blocks) > 0 /\ 2 * hits >= Cardinality(blocks)
       /\ Cardinality(risks) > 0 /\ 5 * hits >= 4 * Cardinality(risks)

\* What a reader of the packet relies on for one purpose.
SoundEvidence(e, records) ==
    /\ e.external /\ e.retention_days >= MinRetention /\ e.basis # "modeled"
    /\ e.purpose = "shadow-outcome-export" =>
           e.basis = "measured" /\ e.content = Digest("export", records)
    /\ e.purpose = "shadow-report" =>
           e.basis = "derived" /\ e.content = Digest("report", Report(records))
    /\ e.purpose = "independent-post-merge-correlation" =>
           e.basis = "measured" /\ e.verified_by \notin {"nobody", e.produced_by}

\* A packet is only found valid while it was current, over retained records that
\* meet every one of the five requirements, with one piece of evidence for each
\* purpose, retained outside of Actions and about those very records, though
\* records, report and packet change in between
\* (validate_packet_against_shadow_report, feedback/pr_guardian_promotion.py:595).
ValidPacketIsSound ==
    \A v \in reviewed :
        LET records == v.packet.feedback.export
            evidence == v.packet.evidence
        IN /\ records \subseteq outcomes /\ EnoughEvidence(records)
           /\ \A p \in Purpose : \E e \in evidence : e.purpose = p
           /\ \A e, f \in evidence : e.purpose = f.purpose => e = f
           /\ \A e \in evidence : SoundEvidence(e, records)
           /\ v.on <= v.packet.expires_on
=============================================================================
