------------------------ MODULE RemediationWorkflow ------------------------
(***************************************************************************)
(* The durable remediation loop of orchestration/remediation_workflow.py   *)
(* and the activities of orchestration/control_plane_activities.py behind  *)
(* it, for one request: evidence, plan, human approval, policy, rehearsal, *)
(* action, recorded outcome.  Every state change of an activity goes       *)
(* through persist_workflow_lifecycle: commit the transition in the state  *)
(* store, then append its audit event.                                     *)
(*                                                                         *)
(* Temporal (external) runs one activity at a time and starts a new        *)
(* attempt when an attempt raises, dies with its worker or exceeds its     *)
(* start-to-close timeout.  An attempt that timed out may still be         *)
(* running: its remaining steps interleave with those of its successors    *)
(* and of later activities, and its result is discarded.  A closed run may *)
(* be started again for the same request.                                  *)
(*                                                                         *)
(* The state store is StateStore (one workflow, no put_workflow here); the *)
(* audit log is the sequence of its events, without the hashes AuditLog    *)
(* puts on them.                                                           *)
(***************************************************************************)
EXTENDS Lifecycle, Sequences, FiniteSets

CONSTANTS
    Workflow,       \* request.workflow_id
    Scope,          \* the request's tenant, service, environment, ...
    Evidence,       \* what one read of the evidence provider may return
    NoEvidence,     \* before the read
    PlanFor,        \* Evidence -> the plan hash, NoHash when no runbook fits
    Signals,        \* the approval signals that may arrive
    NoSignal,       \* no signal accepted yet
    TwinVerdicts,   \* the safe_to_promote values the twin may return
    StepAttempts,   \* _STEP_RETRY.maximum_attempts
    MaxRuns,        \* bound: runs started for the request
    MaxPending,     \* bound: undelivered signals
    MaxLive         \* bound: attempts still executing at one time

\* Mutant of ActionAttempts: the action is retried like a step.
ActionAttemptsRetried == 2

\* _ACTION_RETRY.maximum_attempts.
ActionAttempts == 1

Steps == {"evidence", "planned", "awaiting-approval", "executing", "verifying",
          "outcome"}

\* workflow_id and plan_hash are what the signal names; `complete' says that
\* approver and signature are not blank, `genuine' that the HMAC verifies.
ApprovalSignal ==
    [workflow_id: WorkflowIds, plan_hash: PlanHashes, complete: BOOLEAN,
     genuine: BOOLEAN]

ASSUME RemediationConstants ==
    /\ Workflow \in WorkflowIds /\ Scope \in Scopes
    /\ Steps \subseteq EventIds /\ Steps \subseteq Keys
    /\ NoEvidence \notin Evidence
    /\ PlanFor \in [Evidence -> PlanHashes \union {NoHash}]
    /\ Signals \subseteq ApprovalSignal /\ NoSignal \notin Signals
    /\ TwinVerdicts \subseteq BOOLEAN
    /\ StepAttempts \in Nat \ {0} /\ MaxRuns \in Nat \ {0}
    /\ MaxPending \in Nat /\ MaxLive \in Nat

VARIABLES
    workflows, receipts,    \* the state store
    trail,                  \* the audit log
    run,                    \* the workflow function: where it is, its locals
    pending,                \* the _pending signals
    attempts,               \* the activity attempts still executing
    mutations,              \* history: every adapter.execute call
    rollbacks               \* history: the number of successful rollbacks

vars == <<workflows, receipts, trail, run, pending, attempts, mutations,
          rollbacks>>

record == workflows[Workflow]

-----------------------------------------------------------------------------
(* The run and its attempts *)

Activities == {"collect", "plan", "verify", "policy", "rehearse", "execute",
               "record"}

Closed == {"done", "failed"}

\* ExecutionResult.status, and "none" before there is one.
ActionStatus == {"none", "succeeded", "rolled_back", "escalate", "denied",
                 "blocked"}

\* What the run threads from one activity to the next.  from_status and
\* version are the predecessor of the next transition.
Locals ==
    [evidence: Evidence \union {NoEvidence},
     plan_hash: PlanHashes \union {NoHash},
     from_status: Statuses, version: Nat,
     signal: Signals \union {NoSignal}, verified: BOOLEAN, allowed: BOOLEAN,
     safe: BOOLEAN, status: ActionStatus, executed: BOOLEAN]

NewLocals ==
    [evidence |-> NoEvidence, plan_hash |-> NoHash, from_status |-> NoStatus,
     version |-> 0, signal |-> NoSignal, verified |-> FALSE, allowed |-> FALSE,
     safe |-> FALSE, status |-> "none", executed |-> FALSE]

\* The part of an event's content that could differ between two events of one
\* step: the run (occurred_at), the evidence or result in its attributes.
Body == [run: 1..MaxRuns, evidence: Evidence \union {NoEvidence},
         status: ActionStatus]

LifecycleEvent ==
    [event_id: Steps, idempotency_key: Steps, workflow_id: {Workflow},
     from_status: Statuses, to_status: WorkflowStatus, expected_version: Nat,
     plan_hash: PlanHashes \union {NoHash}, scope: {Scope}, body: Body]

NoEvent == [event_id |-> "none"]

\* `record' is the snapshot apply_workflow_event returned for `event'.
Attempt ==
    [run: 1..MaxRuns, activity: Activities, number: Nat \ {0},
     pc: {"begin", "commit", "export", "loop", "mutated", "return"},
     locals: Locals, event: LifecycleEvent \union {NoEvent},
     record: WorkflowRecord]

Run == [number: 1..MaxRuns, pc: Activities \union Closed \union {"awaiting"},
        attempt: Nat, locals: Locals, late: BOOLEAN]

\* _audit_event: the event and the snapshot its transition produced.
AuditEvent == [event: LifecycleEvent, record: WorkflowRecord]

Mutation == [run: 1..MaxRuns, locals: Locals]

State == INSTANCE StateStore WITH
    Events <- LifecycleEvent, PutRecords <- {}, UniqueEventIds <- FALSE,
    MaxVersion <- Cardinality(Steps), answers <- {}

TypeOK ==
    /\ workflows \in [WorkflowIds -> WorkflowRecord]
    /\ receipts \subseteq AuditEvent
    /\ trail \in Seq(AuditEvent)
    /\ run \in Run
    /\ pending \in Seq(Signals)
    /\ attempts \subseteq Attempt
    /\ mutations \in Seq(Mutation)
    /\ rollbacks \in Nat

-----------------------------------------------------------------------------

NewAttempt(number, activity, attempt, locals) ==
    [run |-> number, activity |-> activity, number |-> attempt,
     pc |-> "begin", locals |-> locals, event |-> NoEvent,
     record |-> NoRecord]

NewRun(number) ==
    [number |-> number, pc |-> "collect", attempt |-> 1, locals |-> NewLocals,
     late |-> FALSE]

Init ==
    /\ workflows = [w \in WorkflowIds |-> NoRecord]
    /\ receipts = {}
    /\ trail = <<>>
    /\ run = NewRun(1)
    /\ pending = <<>>
    /\ attempts = {NewAttempt(1, "collect", 1, NewLocals)}
    /\ mutations = <<>>
    /\ rollbacks = 0

\* The attempt whose result the run is waiting for.
Current(a) ==
    /\ a.run = run.number
    /\ a.activity = run.pc
    /\ a.number = run.attempt

\* execute_activity for the next activity of the run.
Schedule(activity, locals, others) ==
    /\ run' = [run EXCEPT !.pc = activity, !.attempt = 1, !.locals = locals]
    /\ attempts' = others \union
                       {NewAttempt(run.number, activity, 1, locals)}

\* _finish: nothing was executed, the decision is recorded.
Finish(status, locals, others) ==
    Schedule("record", [locals EXCEPT !.status = status], others)

MaxAttempts(activity) ==
    IF activity = "execute" THEN ActionAttempts ELSE StepAttempts

\* The server's reaction to a lost attempt: another one, or ActivityError,
\* which run() does not catch.
Retry(others) ==
    IF run.attempt < MaxAttempts(run.pc)
    THEN /\ run' = [run EXCEPT !.attempt = @ + 1]
         /\ attempts' = others \union {NewAttempt(run.number, run.pc,
                                                  run.attempt + 1, run.locals)}
    ELSE /\ run' = [run EXCEPT !.pc = "failed"]
         /\ attempts' = others

\* The attempt raises.
Raise(a) ==
    /\ IF Current(a)
       THEN Retry(attempts \ {a})
       ELSE attempts' = attempts \ {a} /\ UNCHANGED run
    /\ UNCHANGED pending

Continue(a, b) ==
    /\ attempts' = (attempts \ {a}) \union {b}
    /\ UNCHANGED <<run, pending>>

-----------------------------------------------------------------------------
(* The activities, up to their first write *)

\* _advance: the event of a step.  Its predecessor is an argument, never read
\* from the store.
Event(a, step, from, expected, to) ==
    [event_id |-> step, idempotency_key |-> step, workflow_id |-> Workflow,
     from_status |-> from, to_status |-> to, expected_version |-> expected,
     plan_hash |-> a.locals.plan_hash, scope |-> Scope,
     body |-> [run |-> a.run,
               evidence |-> IF step = "evidence" THEN a.locals.evidence
                            ELSE NoEvidence,
               status |-> a.locals.status]]

Advance(a, step, to) ==
    [a EXCEPT !.pc = "commit",
              !.event = Event(a, step, a.locals.from_status, a.locals.version, to)]

CollectEvidence(a) ==
    /\ a.activity = "collect"
    /\ \E evidence \in Evidence :
        Continue(a, Advance([a EXCEPT !.locals.evidence = evidence],
                            "evidence", "received"))

PlanRemediation(a) ==
    /\ a.activity = "plan"
    /\ LET plan_hash == PlanFor[a.locals.evidence]
       IN  IF plan_hash = NoHash
           THEN Continue(a, [a EXCEPT !.pc = "return"])
           ELSE Continue(a, Advance([a EXCEPT !.locals.plan_hash = plan_hash],
                                    "planned", "planned"))

\* Mutant of VerifyApproval: the approval's signature is not verified.
VerifyApprovalUnsigned(a) ==
    /\ a.activity = "verify"
    /\ Continue(a, [a EXCEPT !.pc = "return", !.locals.verified =
                        a.locals.signal.plan_hash = a.locals.plan_hash])

\* A genuine approval may have expired by the time it is verified.
VerifyApproval(a) ==
    /\ a.activity = "verify"
    /\ \E expired \in BOOLEAN :
        LET verified == /\ a.locals.signal.workflow_id = Workflow
                        /\ a.locals.signal.plan_hash = a.locals.plan_hash
                        /\ a.locals.signal.genuine
                        /\ ~expired
        IN  Continue(a, [a EXCEPT !.pc = "return", !.locals.verified = verified])

\* OPA answers per call; an unreachable OPA is a denial.
EvaluatePolicy(a) ==
    /\ a.activity = "policy"
    /\ \E allowed \in BOOLEAN :
        Continue(a, [a EXCEPT !.pc = "return", !.locals.allowed = allowed])

RehearseInTwin(a) ==
    /\ a.activity = "rehearse"
    /\ \E safe \in TwinVerdicts :
        Continue(a, [a EXCEPT !.pc = "return", !.locals.safe = safe])

ExecuteAction(a) ==
    /\ a.activity = "execute"
    /\ IF a.locals.verified
       THEN Continue(a, Advance(a, "executing", "executing"))
       ELSE Continue(a, [a EXCEPT !.pc = "return", !.locals.status = "denied"])

\* Mutant of TerminalStatus: every action that did not succeed counts as rolled
\* back.
TerminalStatusHopeful(status) ==
    IF status = "succeeded" THEN "succeeded" ELSE "rolled_back"

\* terminal_status_for_action and _TERMINAL_WORKFLOW_STATUS.
TerminalStatus(status) ==
    CASE status \in {"succeeded", "rolled_back"} -> status
      [] status = "escalate"                     -> "escalated"
      [] OTHER                                   -> "failed"

RecordOutcome(a) ==
    /\ a.activity = "record"
    /\ Continue(a, Advance(a, "outcome", TerminalStatus(a.locals.status)))

Begin(a) ==
    /\ a.pc = "begin"
    /\ \/ CollectEvidence(a)
       \/ PlanRemediation(a)
       \/ VerifyApproval(a)
       \/ EvaluatePolicy(a)
       \/ RehearseInTwin(a)
       \/ ExecuteAction(a)
       \/ RecordOutcome(a)
    /\ UNCHANGED <<workflows, receipts, trail, mutations, rollbacks>>

-----------------------------------------------------------------------------
(* persist_workflow_lifecycle *)

\* state.apply_workflow_event: the transition commits, or the receipt of an
\* earlier attempt answers.
Commit(a) ==
    /\ a.pc = "commit"
    /\ \/ /\ State!CommitTransition(a.event)
          /\ Continue(a, [a EXCEPT !.pc = "export",
                                   !.record = workflows'[Workflow]])
       \/ /\ State!ReplayedTransition(a.event)
          /\ \E r \in State!ReceiptsFor(a.event) :
                Continue(a, [a EXCEPT !.pc = "export", !.record = r.record])
    /\ UNCHANGED <<trail, mutations, rollbacks>>

\* VersionConflict: the key was used for another event, or the record is not
\* the predecessor the event names.
CommitRefused(a) ==
    /\ a.pc = "commit"
    /\ IF State!ReceiptsFor(a.event) # {}
       THEN \A r \in State!ReceiptsFor(a.event) : r.event # a.event
       ELSE ~(/\ Validate(a.event)
              /\ ExpectedHolds(record, a.event.expected_version)
              /\ CanApply(a.event, record))
    /\ Raise(a)
    /\ UNCHANGED <<workflows, receipts, trail, mutations, rollbacks>>

Exported(step) == {i \in DOMAIN trail : trail[i].event.event_id = step}

\* The activity after an export: _advance has returned the new version.
AfterExport(a) ==
    LET b == [a EXCEPT !.locals.version = a.record.version,
                       !.locals.from_status = a.event.to_status]
    IN  CASE a.event.event_id = "planned" ->
                 Advance(b, "awaiting-approval", "waiting_approval")
          [] a.event.event_id = "executing" -> [b EXCEPT !.pc = "loop"]
          [] OTHER -> [b EXCEPT !.pc = "return"]

\* Mutant of Export: an unavailable audit log is logged and passed over.
ExportBestEffort(a) ==
    /\ a.pc = "export"
    /\ \/ trail' = Append(trail, [event |-> a.event, record |-> a.record])
       \/ UNCHANGED trail
    /\ Continue(a, AfterExport(a))
    /\ UNCHANGED <<workflows, receipts, mutations, rollbacks>>

\* audit.append, idempotent by event id.
Export(a) ==
    /\ a.pc = "export"
    /\ LET entry == [event |-> a.event, record |-> a.record]
       IN  IF Exported(a.event.event_id) = {}
           THEN trail' = Append(trail, entry)
           ELSE /\ \E i \in Exported(a.event.event_id) : trail[i] = entry
                /\ UNCHANGED trail
    /\ Continue(a, AfterExport(a))
    /\ UNCHANGED <<workflows, receipts, mutations, rollbacks>>

\* AuditConflict, raised as AuditExportFailure.
ExportRefused(a) ==
    /\ a.pc = "export"
    /\ \E i \in Exported(a.event.event_id) :
        trail[i] # [event |-> a.event, record |-> a.record]
    /\ Raise(a)
    /\ UNCHANGED <<workflows, receipts, trail, mutations, rollbacks>>

-----------------------------------------------------------------------------
(* execute_control_loop, as execute_action calls it *)

\* The control loop refuses (kill switch, level, policy, preflight), or calls
\* the adapter.  A call that raises may have changed production.
Mutate(a) ==
    /\ a.pc = "loop"
    /\ \/ /\ \E status \in {"denied", "blocked"} :
                Continue(a, Advance([a EXCEPT !.locals.status = status],
                                    "verifying", "verifying"))
          /\ UNCHANGED mutations
       \/ /\ mutations' = Append(mutations, [run |-> a.run, locals |-> a.locals])
          /\ \/ Continue(a, [a EXCEPT !.pc = "mutated", !.locals.executed = TRUE])
             \/ Continue(a, Advance([a EXCEPT !.locals.status = "escalate"],
                                    "verifying", "verifying"))
    /\ UNCHANGED <<workflows, receipts, trail, rollbacks>>

\* Verification, and the rollback when it fails.
Settle(a) ==
    /\ a.pc = "mutated"
    /\ \E status \in {"succeeded", "rolled_back", "escalate"} :
        /\ Continue(a, Advance([a EXCEPT !.locals.status = status],
                               "verifying", "verifying"))
        /\ rollbacks' = IF status = "rolled_back" THEN rollbacks + 1
                        ELSE rollbacks
    /\ UNCHANGED <<workflows, receipts, trail, mutations>>

-----------------------------------------------------------------------------
(* RemediationWorkflow.run, between two activities *)

AfterActivity(a) ==
    LET locals == a.locals
        others == attempts \ {a}
    IN  CASE a.activity = "collect" -> Schedule("plan", locals, others)
          [] a.activity = "plan" ->
                IF locals.plan_hash = NoHash
                THEN Finish("escalate", locals, others)
                ELSE /\ run' = [run EXCEPT !.pc = "awaiting", !.attempt = 0,
                                           !.locals = locals]
                     /\ attempts' = others
          [] a.activity = "verify" ->
                IF locals.verified THEN Schedule("policy", locals, others)
                ELSE Finish("escalate", locals, others)
          [] a.activity = "policy" ->
                IF locals.allowed THEN Schedule("rehearse", locals, others)
                ELSE Finish("denied", locals, others)
          [] a.activity = "rehearse" ->
                IF locals.safe THEN Schedule("execute", locals, others)
                ELSE Finish("escalate", locals, others)
          [] a.activity = "execute" -> Schedule("record", locals, others)
          [] a.activity = "record" ->
                /\ run' = [run EXCEPT !.pc = "done", !.attempt = 0,
                                      !.locals = locals]
                /\ attempts' = others

\* The result of the current attempt resumes the run; any other result is
\* discarded by the server.
Return(a) ==
    /\ a.pc = "return"
    /\ IF Current(a)
       THEN AfterActivity(a)
       ELSE attempts' = attempts \ {a} /\ UNCHANGED run
    /\ UNCHANGED <<workflows, receipts, trail, pending, mutations, rollbacks>>

\* evaluate_approval_signal.
Accepted(signal) ==
    /\ signal.workflow_id = Workflow
    /\ signal.plan_hash = run.locals.plan_hash
    /\ signal.complete

\* submit_approval queues a signal in any state of an open run; one that comes
\* after the approval wait is never read again, and is left out.
SubmitApproval(signal) ==
    /\ run.pc \in {"collect", "plan", "awaiting"}
    /\ Len(pending) < MaxPending
    /\ pending' = Append(pending, signal)
    /\ UNCHANGED <<workflows, receipts, trail, run, attempts, mutations,
                   rollbacks>>

DeadlinePasses ==
    /\ run.pc = "awaiting"
    /\ ~run.late
    /\ run' = [run EXCEPT !.late = TRUE]
    /\ UNCHANGED <<workflows, receipts, trail, pending, attempts, mutations,
                   rollbacks>>

\* Mutant of AwaitApproval: the wait has no deadline.
AwaitApprovalForever ==
    /\ run.pc = "awaiting"
    /\ pending # <<>>
    /\ IF Accepted(Head(pending))
       THEN Schedule("verify", [run.locals EXCEPT !.signal = Head(pending)], attempts)
       ELSE UNCHANGED <<run, attempts>>
    /\ pending' = Tail(pending)
    /\ UNCHANGED <<workflows, receipts, trail, mutations, rollbacks>>

\* One turn of _await_approval: drain the queue up to the first acceptable
\* signal; without one, wait again or give up after the deadline.
AwaitApproval ==
    /\ run.pc = "awaiting"
    /\ pending # <<>> \/ run.late
    /\ LET accepted == {i \in DOMAIN pending : Accepted(pending[i])}
       IN  IF accepted # {}
           THEN LET first == CHOOSE i \in accepted : \A j \in accepted : i <= j
                IN  /\ pending' = SubSeq(pending, first + 1, Len(pending))
                    /\ Schedule("verify",
                                [run.locals EXCEPT !.signal = pending[first]],
                                attempts)
           ELSE /\ pending' = <<>>
                /\ IF run.late
                   THEN Finish("escalate", run.locals, attempts)
                   ELSE UNCHANGED <<run, attempts>>
    /\ UNCHANGED <<workflows, receipts, trail, mutations, rollbacks>>

-----------------------------------------------------------------------------
(* Temporal *)

\* An attempt dies with its worker, or a dependency it calls is unavailable.
AttemptFails(a) ==
    /\ Raise(a)
    /\ UNCHANGED <<workflows, receipts, trail, mutations, rollbacks>>

\* start_to_close_timeout: the server gives up on the attempt, whose worker
\* keeps executing it.
AttemptTimesOut(a) ==
    /\ Current(a)
    /\ Cardinality(attempts) < MaxLive
    /\ Retry(attempts)
    /\ UNCHANGED <<workflows, receipts, trail, pending, mutations, rollbacks>>

\* The request is started again after its run closed.
StartAgain ==
    /\ run.pc \in Closed
    /\ run.number < MaxRuns
    /\ run' = NewRun(run.number + 1)
    /\ pending' = <<>>
    /\ attempts' = attempts \union
                       {NewAttempt(run.number + 1, "collect", 1, NewLocals)}
    /\ UNCHANGED <<workflows, receipts, trail, mutations, rollbacks>>

AttemptStep(a) ==
    \/ Begin(a)
    \/ Commit(a) \/ CommitRefused(a)
    \/ Export(a) \/ ExportRefused(a)
    \/ Mutate(a) \/ Settle(a)
    \/ Return(a)

Next ==
    \/ \E a \in attempts :
        AttemptStep(a) \/ AttemptFails(a) \/ AttemptTimesOut(a)
    \/ \E signal \in Signals : SubmitApproval(signal)
    \/ DeadlinePasses
    \/ AwaitApproval
    \/ StartAgain

Spec == Init /\ [][Next]_vars

\* Workers execute the attempts they hold, timers fire, and the run resumes
\* when it can: Temporal's guarantees while some worker is up.
Fairness ==
    /\ WF_vars(\E a \in attempts : AttemptStep(a))
    /\ WF_vars(DeadlinePasses)
    /\ WF_vars(AwaitApproval)

FairSpec == Spec /\ Fairness

-----------------------------------------------------------------------------
(* Properties *)

\* "No silent retry of a mutation": whatever is retried, timed out or started
\* again, the adapter is asked to change production at most once per request.
MutationOnce ==
    /\ Len(mutations) <= 1
    /\ mutations # <<>> => \A a \in attempts : a.pc # "loop"

\* Production is only changed for the plan a human approved: the approval is
\* genuine and names this workflow and the recorded plan, policy and twin
\* agreed, and the transition to `executing' is already in the audit log.
MutationAuthorised ==
    \A i \in DOMAIN mutations :
        LET locals == mutations[i].locals
        IN  /\ locals.signal.genuine
            /\ locals.signal.workflow_id = Workflow
            /\ locals.signal.plan_hash = record.plan_hash
            /\ locals.allowed /\ locals.safe
            /\ \E j \in Exported("executing") :
                   trail[j].event.plan_hash = locals.signal.plan_hash

\* "No remediation step can advance without its audit export": the log is the
\* history of the record, in version order, it lags the record by at most the
\* one transition whose export is still owed, and no run or attempt has been
\* told of a version that is not in it.
AuditTrailsState ==
    /\ record.version \in {Len(trail), Len(trail) + 1}
    /\ \A i \in DOMAIN trail : trail[i].record.version = i /\ trail[i] \in receipts
    /\ run.locals.version <= Len(trail)
    /\ \A a \in attempts : a.locals.version <= Len(trail)

\* A run that returned told the truth: its outcome is the terminal status of
\* the record and is in the log, `succeeded' and `rolled_back' are claimed
\* for one executed action (and one rollback), and no attempt is left that
\* could still change production.
OutcomeIsTrue ==
    run.pc = "done" =>
        /\ record.status = TerminalStatus(run.locals.status)
        /\ Len(trail) = record.version
        /\ record.status \in {"succeeded", "rolled_back"} => Len(mutations) = 1
        /\ record.status = "rolled_back" => rollbacks = 1
        /\ record.status = "succeeded" => rollbacks = 0
        /\ \A a \in attempts : a.pc \notin {"loop", "mutated"}

\* A timeout is represented by a lifecycle event to a terminal status: a run
\* Temporal has closed leaves no record of the workflow in an open status.
ClosedRunsAreRecorded ==
    run.pc \in Closed /\ record.version > 0 => record.status \in Terminal

\* Every run closes: retries are bounded and the approval wait has a deadline.
RunCloses == []<>(run.pc \in Closed)

=============================================================================
