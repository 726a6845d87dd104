----------------------------- MODULE SelfHealing -----------------------------
(***************************************************************************)
(* The reference self-healing path of product/durable_self_healing.py on   *)
(* control_plane/remediation.py, the state store, the audit log and the    *)
(* job queue, for one incident: prepare a plan, approve it and enqueue its *)
(* job, and let the queue's workers simulate, execute and record it.       *)
(*                                                                         *)
(* Each call of the store, of the audit log and of the queue is a          *)
(* transaction of its own, so each is a step; API callers and workers may  *)
(* die between two of them.  The job id is the workflow id and the plan    *)
(* hash, so for one incident a job is named by its plan.                   *)
(***************************************************************************)
EXTENDS JobQueue, Lifecycle, Sequences

CONSTANTS
    Callers,        \* concurrent API requests
    Refusals,       \* the statuses with which the control loop may refuse
    Results,        \* the statuses an executed action may end in
    MaxVersion      \* bound on the version of the workflow record

ASSUME SelfHealingConstants ==
    /\ PlanHashes = JobIds
    /\ Refusals \subseteq {"blocked", "denied"}
    /\ Results \subseteq {"succeeded", "rolled_back", "escalate"}
    /\ MaxVersion \in Nat

VARIABLES
    record,         \* the workflow record
    audit,          \* the audit events of the workflow
    callers,        \* Callers -> what an API request is doing
    stages,         \* Workers -> how far handle_job is
    executions,     \* history: the plans the production adapter has executed
    outages,        \* history: jobs whose result could not be audited
    replaced        \* history: plans the record was replaced under, see Prepare

vars == <<queueVars, record, audit, callers, stages, executions, outages, replaced>>

healing == <<record, audit, callers, stages, executions, outages, replaced>>

AuditEvent == [action: {"planned", "approved", "result"}, version: Nat,
               plan_hash: PlanHashes]

\* prepared: the plan a request holds; approved: the plan its approval names;
\* version: the record it has read or written.
Caller ==
    [pc: {"idle", "audit_planned", "prepared", "put_executing",
          "audit_approved", "enqueue"},
     prepared: PlanHashes \union {NoHash}, approved: PlanHashes \union {NoHash},
     version: Nat]

IdleCaller ==
    [pc |-> "idle", prepared |-> NoHash, approved |-> NoHash, version |-> 0]

Stage == [pc: {"idle", "simulate", "execute", "finish", "put_result",
               "audit_result", "return"},
          status: {"none"} \union Refusals \union Results, version: Nat]

IdleStage == [pc |-> "idle", status |-> "none", version |-> 0]

TypeOK ==
    /\ JobQueueTypeOK
    /\ record \in WorkflowRecord
    /\ audit \in Seq(AuditEvent)
    /\ callers \in [Callers -> Caller]
    /\ stages \in [Workers -> Stage]
    /\ executions \in Seq(PlanHashes)
    /\ outages \subseteq JobIds
    /\ replaced \subseteq PlanHashes

Init ==
    /\ JobQueueInit
    /\ record = NoRecord
    /\ audit = <<>>
    /\ callers = [c \in Callers |-> IdleCaller]
    /\ stages = [w \in Workers |-> IdleStage]
    /\ executions = <<>>
    /\ outages = {}
    /\ replaced = {}

Log(action, version, plan_hash) ==
    audit' = Append(audit, [action |-> action, version |-> version,
                            plan_hash |-> plan_hash])

\* put_workflow without its version check: the record, one version later.
Put(status, plan_hash) ==
    /\ record.version < MaxVersion
    /\ record' = [record EXCEPT !.status = status, !.plan_hash = plan_hash,
                                !.version = @ + 1]

-----------------------------------------------------------------------------
(* The coordinator: prepare and approve_and_enqueue *)

\* The requests that hold a plan and whose approval is not through.
AwaitingApproval ==
    {c \in Callers : callers[c].pc \in {"audit_planned", "prepared", "put_executing"}}

\* RemediationWorkflows.prepare writes WAITING_APPROVAL over any record, also
\* over that of another plan which a request is about to have approved.
Prepare(c, plan_hash) ==
    /\ callers[c].pc = "idle"
    /\ Put("waiting_approval", plan_hash)
    /\ replaced' = replaced \union
                       ({callers[b].prepared : b \in AwaitingApproval} \ {plan_hash})
    /\ callers' = [callers EXCEPT ![c] =
                      [pc |-> "audit_planned", prepared |-> plan_hash,
                       approved |-> NoHash, version |-> record.version + 1]]
    /\ UNCHANGED <<queueVars, audit, stages, executions, outages>>

AuditPlanned(c) ==
    /\ callers[c].pc = "audit_planned"
    /\ Log("planned", callers[c].version, callers[c].prepared)
    /\ callers' = [callers EXCEPT ![c].pc = "prepared"]
    /\ UNCHANGED <<queueVars, record, stages, executions, outages, replaced>>

\* Mutant of Approve: the approval may name any plan of the workflow.
ApproveAnyPlan(c, plan_hash) ==
    /\ callers[c].pc = "prepared"
    /\ record.status = "waiting_approval"
    /\ callers' = [callers EXCEPT ![c].pc = "put_executing",
                                  ![c].approved = plan_hash,
                                  ![c].version = record.version]
    /\ UNCHANGED <<queueVars, record, audit, stages, executions, outages, replaced>>

\* approve reads the record and verifies the approval against its plan; a
\* refusal raises and leaves the request with its prepared plan.
Approve(c, plan_hash) ==
    /\ callers[c].pc = "prepared"
    /\ record.status = "waiting_approval"
    /\ plan_hash = record.plan_hash
    /\ callers' = [callers EXCEPT ![c].pc = "put_executing",
                                  ![c].approved = plan_hash,
                                  ![c].version = record.version]
    /\ UNCHANGED <<queueVars, record, audit, stages, executions, outages, replaced>>

PutExecuting(c) ==
    /\ callers[c].pc = "put_executing"
    /\ IF record.version = callers[c].version
       THEN /\ Put("executing", record.plan_hash)
            /\ callers' = [callers EXCEPT ![c].pc = "audit_approved",
                                          ![c].version = @ + 1]
       ELSE /\ callers' = [callers EXCEPT ![c].pc = "prepared"]
            /\ UNCHANGED record         \* VersionConflict
    /\ UNCHANGED <<queueVars, audit, stages, executions, outages, replaced>>

AuditApproved(c) ==
    /\ callers[c].pc = "audit_approved"
    /\ Log("approved", callers[c].version, callers[c].approved)
    /\ callers' = [callers EXCEPT ![c].pc = "enqueue"]
    /\ UNCHANGED <<queueVars, record, stages, executions, outages, replaced>>

\* The job is the one of the prepared plan.
EnqueueJob(c) ==
    /\ callers[c].pc = "enqueue"
    /\ Enqueue(callers[c].prepared)
    /\ callers' = [callers EXCEPT ![c] = IdleCaller]
    /\ UNCHANGED <<record, audit, stages, executions, outages, replaced>>

\* The request's process dies, or the audit log is unavailable.
CallerDies(c) ==
    /\ callers[c].pc # "idle"
    /\ callers' = [callers EXCEPT ![c] = IdleCaller]
    /\ UNCHANGED <<queueVars, record, audit, stages, executions, outages, replaced>>

-----------------------------------------------------------------------------
(* The worker: handle_job *)

At(w, pc) == stages[w].pc = pc

Goto(w, pc) == stages' = [stages EXCEPT ![w].pc = pc]

ClaimJob(w) ==
    /\ At(w, "idle")
    /\ Claim(w)
    /\ Goto(w, "simulate")
    /\ UNCHANGED <<record, audit, callers, executions, outages, replaced>>

HandlerFails(w) ==
    /\ HandlerRaises(w)
    /\ stages' = [stages EXCEPT ![w] = IdleStage]

\* The sandbox verifies, or handle_job raises.
Simulate(w) ==
    /\ At(w, "simulate")
    /\ \/ Goto(w, "execute") /\ UNCHANGED queueVars
       \/ HandlerFails(w)
    /\ UNCHANGED <<record, audit, callers, executions, outages, replaced>>

\* execute_control_loop: a refusal, or a production change and its result.
Execute(w) ==
    /\ At(w, "execute")
    /\ \/ /\ \E status \in Refusals :
                stages' = [stages EXCEPT ![w].pc = "finish", ![w].status = status]
          /\ UNCHANGED executions
       \/ /\ \E status \in Results :
                stages' = [stages EXCEPT ![w].pc = "finish", ![w].status = status]
          /\ executions' = Append(executions, workers[w].job)
    /\ UNCHANGED <<queueVars, record, audit, callers, outages, replaced>>

\* RemediationWorkflows.finish reads the record, whatever its status...
Finish(w) ==
    /\ At(w, "finish")
    /\ stages' = [stages EXCEPT ![w].pc = "put_result",
                                ![w].version = record.version]
    /\ UNCHANGED <<queueVars, record, audit, callers, executions, outages, replaced>>

\* workflow_status_for_terminal.
WorkflowStatusForTerminal(status) ==
    CASE status \in {"succeeded", "rolled_back"} -> status
      [] status = "escalate"                     -> "escalated"
      [] OTHER                                   -> "failed"

\* ...and replaces its status on the version it has read.
PutResult(w) ==
    /\ At(w, "put_result")
    /\ \/ /\ record.version = stages[w].version
          /\ Put(WorkflowStatusForTerminal(stages[w].status), record.plan_hash)
          /\ stages' = [stages EXCEPT ![w].pc = "audit_result",
                                      ![w].version = @ + 1]
          /\ UNCHANGED <<queueVars, outages>>
       \/ /\ record.version # stages[w].version     \* VersionConflict
          /\ HandlerFails(w)
          /\ outages' = outages \union {workers[w].job}
          /\ UNCHANGED record
    /\ UNCHANGED <<audit, callers, executions, replaced>>

AuditResult(w) ==
    /\ At(w, "audit_result")
    /\ \/ /\ Log("result", stages[w].version, record.plan_hash)
          /\ Goto(w, "return")
          /\ UNCHANGED <<queueVars, outages>>
       \/ /\ HandlerFails(w)                        \* the audit log is down
          /\ outages' = outages \union {workers[w].job}
          /\ UNCHANGED audit
    /\ UNCHANGED <<record, callers, executions, replaced>>

ReturnResult(w) ==
    /\ At(w, "return")
    /\ HandlerReturns(w)
    /\ stages' = [stages EXCEPT ![w] = IdleStage]
    /\ UNCHANGED <<record, audit, callers, executions, outages, replaced>>

FailJob(w) == Fail(w) /\ UNCHANGED healing

JobWorkerDies(w) ==
    /\ WorkerDies(w)
    /\ stages' = [stages EXCEPT ![w] = IdleStage]
    /\ UNCHANGED <<record, audit, callers, executions, outages, replaced>>

TimePasses == Tick /\ UNCHANGED healing

Next ==
    \/ \E c \in Callers :
        \/ \E plan_hash \in PlanHashes :
            Prepare(c, plan_hash) \/ Approve(c, plan_hash)
        \/ AuditPlanned(c) \/ PutExecuting(c) \/ AuditApproved(c)
        \/ EnqueueJob(c) \/ CallerDies(c)
    \/ \E w \in Workers :
        \/ ClaimJob(w) \/ Simulate(w) \/ Execute(w)
        \/ Finish(w) \/ PutResult(w) \/ AuditResult(w) \/ ReturnResult(w)
        \/ FailJob(w) \/ JobWorkerDies(w)
    \/ TimePasses

Spec == Init /\ [][Next]_vars

-----------------------------------------------------------------------------
(* Properties *)

Executed(j) == Cardinality({i \in DOMAIN executions : executions[i] = j})

\* The plans that changed production, and the approvals in the audit log.
ExecutedPlans == {executions[i] : i \in DOMAIN executions}

ApprovalEvents == {i \in DOMAIN audit : audit[i].action = "approved"}

\* An approval in the audit log names the plan.
NamedByApproval(plan_hash) == \E i \in ApprovalEvents : audit[i].plan_hash = plan_hash

\* A plan that was executed is named by an approval in the audit log, however
\* callers, deaths and redeliveries interleave, unless prepare put another plan
\* in the record while a request that held this one was waiting for its
\* approval (approve_and_enqueue, product/durable_self_healing.py:110).  Even
\* then one approval starts one plan: there are as many approvals as plans that
\* were executed, and no two events of a kind claim one version of the record.
ExecutionFollowsApproval ==
    /\ \A p \in ExecutedPlans \ replaced : NamedByApproval(p)
    /\ Cardinality(ExecutedPlans) <= Cardinality(ApprovalEvents)
    /\ \A i, j \in DOMAIN audit :
        audit[i].version = audit[j].version /\ audit[i].action = audit[j].action
            => i = j

\* While no worker outlives its lease or dies and every result is recorded, a
\* job changes production at most once.
ExecutedOnce ==
    \A j \in JobIds \ (overran \union crashed \union outages) : Executed(j) <= 1

\* "Binds the verified approval to a durable, single-use job": a job changes
\* production at most once, whatever happens to its workers.
SingleUseJob == \A j \in JobIds : Executed(j) <= 1

\* "If the plan changes, the hash changes and every prior approval is invalid"
\* (architecture/design.md:227): whatever else is prepared, the plan that is
\* executed is one an approval named.
ExecutedPlanWasApproved == \A p \in ExecutedPlans : NamedByApproval(p)
=============================================================================
