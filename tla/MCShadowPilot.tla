---------------------------- MODULE MCShadowPilot ----------------------------
(***************************************************************************)
(* One pull request in two settings.  In a repository that enforces, heads *)
(* of different risk and a configuration that moves between thresholds, a  *)
(* waiver, a defect and a pilot; heads that change the workflows may have  *)
(* them say what they like.  In a repository with a pilot, the records of  *)
(* two closures and a packet over them.                                    *)
(***************************************************************************)
EXTENDS ShadowPilot

MCTier == [s \in Services |-> 1]
MCDependsOn == {}

MCOwner == CHOOSE o \in Owners : TRUE

RawFile(mode, enforcement) ==
    [present |-> TRUE, valid |-> TRUE, repository |-> "this", mode |-> mode,
     owners |-> Owners, enforcement |-> enforcement]

IacRule(threshold, waivers) ==
    [rule |-> "iac", threshold |-> threshold, approved_by |-> MCOwner, approved_on |-> 0,
     expires_on |-> 0, waivers |-> waivers]

IacWaiver == [owner |-> MCOwner, expires_on |-> 1, covers |-> {{"iac"}}]

\* A threshold the wide change clears, one it does not, a waiver, and a defect;
\* and a pilot in shadow mode.
MCRawConfigs ==
    {BundleConfig(Owners),
     RawFile("enforce", IacRule(42, {})),
     RawFile("enforce", IacRule(95, {})),
     RawFile("enforce", IacRule(42, {IacWaiver})),
     RawFile("enforce", NoEnforcement)}
MCManifests == {[BundleManifest(Owners) EXCEPT !.check_required = TRUE]}

\* The infrastructure change meets the rule at its threshold, the wide one is
\* also high enough for a simulated block; the last has more architecture
\* findings than an observation holds.
IacChange == [paths |-> {{"iac"}}, files |-> 3, services |-> Services, failed |-> 0,
              context |-> "none", scope |-> 0, readable |-> 0, findings |-> 0]
WideChange == [IacChange EXCEPT !.paths = {{"iac"}, {"delivery"}, {"security"}}, !.files = 25]
FlawedChange == [IacChange EXCEPT !.scope = 2, !.readable = 1, !.findings = MaxFindings + 1]

\* A change of the workflows alone, with its tests.
WorkflowChange == [IacChange EXCEPT !.paths = {{"delivery"}, {"test"}}]

\* What a workflow that was altered may say of its head: a block at one threshold
\* and not at the other, one at both, and that all is well.
Claim(block, score) ==
    [mode |-> "enforce", would_block |-> block, reason |-> "condition-met", rule |-> "iac",
     score |-> score, head |-> 0, policy |-> MaximumPolicy(score),
     architecture |-> [in_scope |-> 0, reviewed |-> 0, findings |-> 0]]
MCClaims == {Claim(TRUE, 60), Claim(TRUE, 100), Claim(FALSE, 0)}

MCFlaws == {"none", "missing", "actions-artifact", "short-retention", "modeled",
            "self-verified"}

\* The wide change of a repository whose pilot is to be promoted.
PilotChange == [WideChange EXCEPT !.files = 26]

MCChanges == {WideChange, FlawedChange, PilotChange, IacChange}
MCLabels == {{"confirmed-risk"}, {"confirmed-risk", "false-positive"}, {"false-positive"}}

\* A repository that enforces: people make one edit, and nobody reports on it.
Enforces ==
    /\ {runs[r].change : r \in 1..Len(runs)} \subseteq {WideChange, FlawedChange}
    /\ edits = 0 => raw # BundleConfig(Owners)
    /\ edits <= 1 /\ report.export = {}
    /\ pull.labels # {"false-positive"}

\* A repository with a pilot, where nothing is enforced and no workflow altered:
\* people set labels, and days pass for a packet.
Pilots ==
    /\ {runs[r].change : r \in 1..Len(runs)} \subseteq {PilotChange, IacChange}
    /\ raw = BundleConfig(Owners) /\ manifest = NoManifest /\ ~kill
    /\ today > 0 => packet.written
    /\ pull.labels # {"confirmed-risk", "false-positive"}
    /\ \A r \in 1..Len(runs) : runs[r].artifact # Missing => ~runs[r].artifact.altered

\* A behaviour stays in one of the two settings.
Focus == Enforces \/ Pilots

\* The one change of the workflows.
WorkflowChanges == {WorkflowChange}
=============================================================================
