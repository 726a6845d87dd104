-------------------------- MODULE CosmosStateStore --------------------------
(***************************************************************************)
(* The production state adapter of state/cosmos_store.py.  There is no     *)
(* transaction around a method here: each method is a sequence of Cosmos   *)
(* requests (read the receipt, read the workflow document, write a         *)
(* conditional batch, and after a conflict read the receipt again), each   *)
(* of them a step, and the steps of any number of callers interleave.      *)
(*                                                                         *)
(* The container (external) gives a document a fresh _etag on every write  *)
(* and accepts a transactional batch only as a whole.  The answer to a     *)
(* batch may be lost after the batch took effect: the caller then sees     *)
(* either a transport error, which the adapter does not catch, or, when    *)
(* the SDK sent the batch twice, the conflict with its own first attempt.  *)
(***************************************************************************)
EXTENDS Lifecycle, FiniteSets

CONSTANTS
    Callers,        \* activity attempts that use the store concurrently
    Events,         \* the lifecycle events callers may present
    PutRecords,     \* the records put_workflow may be called with
    MaxVersion      \* bound on the versions a workflow reaches

ASSUME CosmosConstants ==
    /\ Events \subseteq WorkflowLifecycleEvent
    /\ PutRecords \subseteq WorkflowRecord
    /\ \A r \in PutRecords : r.status # NoStatus /\ r.scope # NoScope
    /\ MaxVersion \in Nat

VARIABLES
    documents,      \* WorkflowIds -> the workflow document and its _etag
    receipts,       \* the workflow-transition-receipt documents
    calls,          \* Callers -> the request a caller has in progress
    answers         \* history: every answer apply_workflow_event has returned

vars == <<documents, receipts, calls, answers>>

Document == [record: WorkflowRecord, etag: Nat]

Absent == [record |-> NoRecord, etag |-> 0]

\* A call in progress: what it was asked, and the document it has read.
Idle == [op |-> "idle"]

ApplyCall ==
    [op: {"read_receipt", "read_current", "batch", "recover"},
     event: Events, current: Document]

PutCall ==
    [op: {"put_write"}, workflow_id: WorkflowIds, record: PutRecords,
     current: Document]

Receipt == [event: Events, record: WorkflowRecord]

Answer == [event: Events, record: WorkflowRecord, replayed: BOOLEAN]

TypeOK ==
    /\ documents \in [WorkflowIds -> Document]
    /\ receipts \subseteq Receipt
    /\ calls \in [Callers -> {Idle} \union ApplyCall \union PutCall]
    /\ answers \subseteq Answer

-----------------------------------------------------------------------------

Init ==
    /\ documents = [w \in WorkflowIds |-> Absent]
    /\ receipts = {}
    /\ calls = [c \in Callers |-> Idle]
    /\ answers = {}

Return(c) == calls' = [calls EXCEPT ![c] = Idle]

Continue(c, op) == calls' = [calls EXCEPT ![c].op = op]

\* The receipt document _receipt_id(idempotency_key) names in the partition of
\* the workflow: the event id is not part of its name.
ReceiptsFor(e) ==
    {r \in receipts : /\ r.event.workflow_id = e.workflow_id
                      /\ r.event.idempotency_key = e.idempotency_key}

\* _replayed_transition: the stored snapshot, or VersionConflict when the key
\* was used for another event.
AnswerFromReceipt(c, e, r) ==
    /\ answers' = IF r.event = e
                  THEN answers \union {[event |-> e, record |-> r.record,
                                        replayed |-> TRUE]}
                  ELSE answers
    /\ Return(c)
    /\ UNCHANGED <<documents, receipts>>

-----------------------------------------------------------------------------
(* apply_workflow_event *)

\* event.validate(): an invalid event raises before any request is sent.
BeginApply(c, e) ==
    /\ calls[c] = Idle
    /\ Validate(e)
    /\ calls' = [calls EXCEPT ![c] =
                    [op |-> "read_receipt", event |-> e, current |-> Absent]]
    /\ UNCHANGED <<documents, receipts, answers>>

ReadReceipt(c) ==
    /\ calls[c].op = "read_receipt"
    /\ LET e == calls[c].event
       IN  \/ \E r \in ReceiptsFor(e) : AnswerFromReceipt(c, e, r)
           \/ /\ ReceiptsFor(e) = {}
              /\ Continue(c, "read_current")
              /\ UNCHANGED <<documents, receipts, answers>>

\* The version, status and scope checks are made on the document just read.
ReadCurrent(c) ==
    /\ calls[c].op = "read_current"
    /\ LET e == calls[c].event
           current == documents[e.workflow_id]
       IN  IF /\ ExpectedHolds(current.record, e.expected_version)
              /\ CanApply(e, current.record)
           THEN calls' = [calls EXCEPT ![c].op = "batch", ![c].current = current]
           ELSE Return(c)      \* VersionConflict
    /\ UNCHANGED <<documents, receipts, answers>>

\* Mutant of BatchAccepted: the batch upserts, without the _etag.
BatchAcceptedWithoutEtag(e, current) == ReceiptsFor(e) = {}

\* The batch's preconditions: the workflow document still is the one read
\* (create when there was none), and no receipt has the key.
BatchAccepted(e, current) ==
    /\ documents[e.workflow_id].etag = current.etag
    /\ ReceiptsFor(e) = {}

WriteBatch(e, current) ==
    LET stored == ApplyTo(e, current.record)
    IN  /\ current.record.version < MaxVersion
        /\ documents' = [documents EXCEPT ![e.workflow_id] =
                            [record |-> stored, etag |-> @.etag + 1]]
        /\ receipts' = receipts \union {[event |-> e, record |-> stored]}

Batch(c) ==
    /\ calls[c].op = "batch"
    /\ LET e == calls[c].event
           current == calls[c].current
       IN  \/ \* accepted and answered
              /\ BatchAccepted(e, current)
              /\ WriteBatch(e, current)
              /\ answers' = answers \union
                    {[event |-> e, record |-> ApplyTo(e, current.record),
                      replayed |-> FALSE]}
              /\ Return(c)
           \/ \* accepted, and the answer is lost: the attempt dies with a
              \* transport error, or meets its own receipt in a conflict
              /\ BatchAccepted(e, current)
              /\ WriteBatch(e, current)
              /\ Return(c) \/ Continue(c, "recover")
              /\ UNCHANGED answers
           \/ \* refused as a whole
              /\ ~BatchAccepted(e, current)
              /\ Continue(c, "recover")
              /\ UNCHANGED <<documents, receipts, answers>>

\* After a conflict the receipt decides: another attempt of the same event
\* has committed, or the caller gets VersionConflict.
Recover(c) ==
    /\ calls[c].op = "recover"
    /\ LET e == calls[c].event
       IN  \/ \E r \in ReceiptsFor(e) : AnswerFromReceipt(c, e, r)
           \/ /\ ReceiptsFor(e) = {}
              /\ Return(c)
              /\ UNCHANGED <<documents, receipts, answers>>

-----------------------------------------------------------------------------
(* put_workflow; put_service has the same body for service documents. *)

PutRead(c, w, record, expected) ==
    /\ calls[c] = Idle
    /\ ExpectedHolds(documents[w].record, expected)
    /\ calls' = [calls EXCEPT ![c] =
                    [op |-> "put_write", workflow_id |-> w, record |-> record,
                     current |-> documents[w]]]
    /\ UNCHANGED <<documents, receipts, answers>>

\* Mutant of PutWrite: upsert_item, without the _etag.
PutWriteWithoutEtag(c) ==
    /\ calls[c].op = "put_write"
    /\ LET version == calls[c].current.record.version + 1
       IN  /\ version <= MaxVersion
           /\ documents' = [documents EXCEPT ![calls[c].workflow_id] =
                  [record |-> [calls[c].record EXCEPT !.version = version],
                   etag |-> @.etag + 1]]
    /\ Return(c)
    /\ UNCHANGED <<receipts, answers>>

\* _write: create_item, or replace_item on the _etag that was read.
PutWrite(c) ==
    /\ calls[c].op = "put_write"
    /\ LET w == calls[c].workflow_id
           current == calls[c].current
       IN  IF documents[w].etag = current.etag
           THEN /\ current.record.version < MaxVersion
                /\ documents' = [documents EXCEPT ![w] =
                       [record |-> [calls[c].record EXCEPT
                                       !.version = current.record.version + 1],
                        etag |-> @.etag + 1]]
           ELSE UNCHANGED documents     \* VersionConflict
    /\ Return(c)
    /\ UNCHANGED <<receipts, answers>>

\* A worker dies, or a request fails in a way the adapter does not catch.
Crash(c) ==
    /\ calls[c] # Idle
    /\ Return(c)
    /\ UNCHANGED <<documents, receipts, answers>>

Next ==
    \E c \in Callers :
        \/ \E e \in Events : BeginApply(c, e)
        \/ ReadReceipt(c) \/ ReadCurrent(c) \/ Batch(c) \/ Recover(c)
        \/ \E w \in WorkflowIds, record \in PutRecords, expected \in 0..MaxVersion :
               PutRead(c, w, record, expected)
        \/ PutWrite(c)
        \/ Crash(c)

Spec == Init /\ [][Next]_vars

-----------------------------------------------------------------------------
(* The adapter implements the atomic store: the records are the documents   *)
(* without their etags, and every request is a step of StateStore or none.  *)

Atomic == INSTANCE StateStore WITH
    workflows <- [w \in WorkflowIds |-> documents[w].record],
    UniqueEventIds <- FALSE

\* CosmosStateStore preserves the compare-and-swap and replay semantics of
\* SqliteStateStore, as the StateStore protocol's reference adapter asks of a
\* production adapter.
ImplementsStateStore == Atomic!Spec

\* The safety properties of StateStore, for the interleaved adapter.
AnswersAgree == Atomic!AnswersAgree
OneReceiptPerVersion == Atomic!OneReceiptPerVersion
ReceiptsFormAHistory == Atomic!ReceiptsFormAHistory

\* Every acknowledged transition survives: the workflow's current version is
\* at least the version of every receipt, and when no put_workflow came after
\* the last receipt the document is exactly that receipt's snapshot.
DocumentMatchesLastReceipt ==
    \A r \in receipts :
        LET d == documents[r.event.workflow_id]
        IN  /\ r.record.version <= d.record.version
            /\ r.record.version = d.record.version => r.record = d.record

=============================================================================
