----------------------------- MODULE StateStore -----------------------------
(***************************************************************************)
(* The authoritative workflow store of state/store.py (SqliteStateStore).  *)
(* Every method runs in one BEGIN IMMEDIATE transaction, so every method   *)
(* is one action.  The module is also the abstract specification that the  *)
(* step-by-step CosmosStateStore is shown to implement.                    *)
(*                                                                         *)
(* Delivery is at least once: an event may be applied any number of times, *)
(* by any number of activity attempts, and the answer of an application    *)
(* that commits may never reach its caller.                                *)
(***************************************************************************)
EXTENDS Lifecycle, FiniteSets

CONSTANTS
    Events,             \* the lifecycle events callers may present
    PutRecords,         \* the records put_workflow may be called with
    UniqueEventIds,     \* the UNIQUE (workflow_id, event_id) table constraint
    MaxVersion          \* bound on the versions a workflow reaches

ASSUME StateStoreConstants ==
    /\ Events \subseteq WorkflowLifecycleEvent
    /\ PutRecords \subseteq WorkflowRecord
    /\ \A r \in PutRecords : r.status # NoStatus /\ r.scope # NoScope
    /\ UniqueEventIds \in BOOLEAN
    /\ MaxVersion \in Nat

VARIABLES
    workflows,      \* WorkflowIds -> WorkflowRecord, the workflows table
    receipts,       \* the workflow_transition_receipts table
    answers         \* history: every answer apply_workflow_event has returned

vars == <<workflows, receipts, answers>>

Receipt == [event: Events, record: WorkflowRecord]

Answer == [event: Events, record: WorkflowRecord, replayed: BOOLEAN]

TypeOK ==
    /\ workflows \in [WorkflowIds -> WorkflowRecord]
    /\ receipts \subseteq Receipt
    /\ answers \subseteq Answer

-----------------------------------------------------------------------------

Init ==
    /\ workflows = [w \in WorkflowIds |-> NoRecord]
    /\ receipts = {}
    /\ answers = {}

\* The row the (workflow_id, idempotency_key) primary key selects.
ReceiptsFor(e) ==
    {r \in receipts : /\ r.event.workflow_id = e.workflow_id
                      /\ r.event.idempotency_key = e.idempotency_key}

EventIdUsed(e) ==
    \E r \in receipts : /\ r.event.workflow_id = e.workflow_id
                        /\ r.event.event_id = e.event_id

\* The answer is delivered, or lost with the caller's connection.
Deliver(e, record, replayed) ==
    \/ answers' = answers \union {[event |-> e, record |-> record,
                                   replayed |-> replayed]}
    \/ UNCHANGED answers

(***************************************************************************)
(* apply_workflow_event, split by outcome.  The three outcomes that raise  *)
(* (an invalid event, a key or event id already used, a stale version or   *)
(* status) leave every table alone and are stuttering steps.               *)
(***************************************************************************)

CommitTransition(e) ==
    /\ Validate(e)
    /\ ReceiptsFor(e) = {}
    /\ UniqueEventIds => ~EventIdUsed(e)
    /\ ExpectedHolds(workflows[e.workflow_id], e.expected_version)
    /\ CanApply(e, workflows[e.workflow_id])
    /\ workflows[e.workflow_id].version < MaxVersion
    /\ LET stored == ApplyTo(e, workflows[e.workflow_id])
       IN  /\ workflows' = [workflows EXCEPT ![e.workflow_id] = stored]
           /\ receipts' = receipts \union {[event |-> e, record |-> stored]}
           /\ Deliver(e, stored, FALSE)

\* Mutant of ReplayedTransition: a replay answers with the current record.
ReplayedTransitionFromRecord(e) ==
    /\ Validate(e)
    /\ \E r \in ReceiptsFor(e) :
        r.event = e /\ Deliver(e, workflows[e.workflow_id], TRUE)
    /\ UNCHANGED <<workflows, receipts>>

\* A retry resolves its receipt before it looks at the workflow's version.
ReplayedTransition(e) ==
    /\ Validate(e)
    /\ \E r \in ReceiptsFor(e) :
        /\ r.event = e
        /\ Deliver(e, r.record, TRUE)
    /\ UNCHANGED <<workflows, receipts>>

\* Mutant of PutWorkflow: the caller's own version is stored.
PutWorkflowAsGiven(w, record, expected) ==
    /\ ExpectedHolds(workflows[w], expected)
    /\ workflows' = [workflows EXCEPT ![w] = record]
    /\ UNCHANGED <<receipts, answers>>

\* put_workflow (put_service has the same body over the services table).
PutWorkflow(w, record, expected) ==
    /\ ExpectedHolds(workflows[w], expected)
    /\ workflows[w].version < MaxVersion
    /\ workflows' = [workflows EXCEPT ![w] =
                        [record EXCEPT !.version = workflows[w].version + 1]]
    /\ UNCHANGED <<receipts, answers>>

Next ==
    \/ \E e \in Events : CommitTransition(e) \/ ReplayedTransition(e)
    \/ \E w \in WorkflowIds, record \in PutRecords, expected \in 0..MaxVersion :
           PutWorkflow(w, record, expected)

Spec == Init /\ [][Next]_vars

-----------------------------------------------------------------------------
(* Properties *)

\* However often an event is delivered, and whatever was written in between,
\* every answer apply_workflow_event gives for it names the record its one
\* committed transition produced, and at most one of them was not a replay.
AnswersAgree ==
    \A a \in answers :
        /\ [event |-> a.event, record |-> a.record] \in receipts
        /\ \A b \in answers : b.event = a.event => b.record = a.record

\* No lost update: two transitions of one workflow never produce the same
\* version, so two writers that read the same version cannot both commit.
OneReceiptPerVersion ==
    \A r, s \in receipts :
        /\ r.event.workflow_id = s.event.workflow_id
        /\ r.record.version = s.record.version
        => r = s

\* Two receipts with consecutive versions are consecutive steps of the
\* transition table: the later one started from the status, the scope and
\* the version that the earlier one left.
ReceiptsFormAHistory ==
    \A r, s \in receipts :
        /\ r.event.workflow_id = s.event.workflow_id
        /\ s.record.version = r.record.version + 1
        => /\ s.event.from_status = r.record.status
           /\ s.event.expected_version = r.record.version
           /\ s.record.scope = r.record.scope
           /\ r.record.status \notin Terminal

\* A step never lowers a version, never skips one, and never removes or
\* rewrites a receipt.
VersionsAdvance ==
    [][/\ \A w \in WorkflowIds :
            workflows'[w].version \in {workflows[w].version,
                                       workflows[w].version + 1}
       /\ receipts \subseteq receipts'
       /\ \A w \in WorkflowIds :
            workflows'[w].version = workflows[w].version
                => workflows'[w] = workflows[w]]_vars

=============================================================================
