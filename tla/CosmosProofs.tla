---------------------------- MODULE CosmosProofs ----------------------------
(***************************************************************************)
(* What the two Cosmos adapters promise.                                   *)
(*                                                                         *)
(* CosmosStateStore implements StateStore, for any number of interleaved   *)
(* callers, lost answers and crashes, and so inherits its properties. The  *)
(* adapter checks an event against the document it has read and writes     *)
(* later. The invariant that carries the proof is that an unchanged _etag  *)
(* means an unchanged document (ReadsAreCurrent), so that the checks still *)
(* hold when the batch is accepted (BatchIsChecked).                       *)
(*                                                                         *)
(* The Cosmos audit sink implements the locked log of AuditLog, for any    *)
(* number of exporters, lost answers and crashes, and its chain verifies.  *)
(* An exporter builds its entry on the tip it has read and writes later.   *)
(* What carries the proof is that a tip whose _etag is unchanged is the    *)
(* tip that was read (TipIsCurrent), and that the documents are numbered   *)
(* without gap or repetition up to the tip (Numbered), so that the batch   *)
(* is exactly one Append of the log.                                       *)
(***************************************************************************)
EXTENDS CosmosStateStore, CosmosAuditLog, SequenceTheorems, TLAPS

-----------------------------------------------------------------------------
(* The state store *)

StoreP == INSTANCE StateStoreProofs WITH
    workflows <- [w \in WorkflowIds |-> documents[w].record],
    UniqueEventIds <- FALSE

AnyCall == {Idle} \union ApplyCall \union PutCall

WorkflowOf(call) ==
    IF call.op = "put_write" THEN call.workflow_id ELSE call.event.workflow_id

\* A document that still has the _etag a caller has read is the one it read.
ReadIsCurrent(c) ==
    calls[c].op \in {"batch", "put_write"} =>
        LET d == documents[WorkflowOf(calls[c])]
        IN  /\ calls[c].current.etag <= d.etag
            /\ calls[c].current.etag = d.etag => calls[c].current = d

\* A caller has validated its event, and has checked it against the document
\* it read before it sends the batch.
CallIsChecked(c) ==
    /\ calls[c] \in ApplyCall => Validate(calls[c].event)
    /\ calls[c].op = "batch" =>
        /\ ExpectedHolds(calls[c].current.record, calls[c].event.expected_version)
        /\ CanApply(calls[c].event, calls[c].current.record)

Inv ==
    /\ TypeOK
    /\ \A c \in Callers : ReadIsCurrent(c)
    /\ \A c \in Callers : CallIsChecked(c)

-----------------------------------------------------------------------------
(* Calls *)

\* The operation of a call tells which kind of call it is.
LEMMA CallKinds ==
    ASSUME NEW call \in AnyCall
    PROVE  /\ call.op \in {"read_receipt", "read_current", "batch", "recover"}
                => call \in ApplyCall
           /\ call.op = "put_write" => call \in PutCall
           /\ call.op = "idle" => call = Idle
  BY DEF AnyCall, ApplyCall, PutCall, Idle

\* A call in progress names a workflow.
LEMMA WorkflowOfType ==
    ASSUME NEW call \in AnyCall, call.op \in {"batch", "put_write"}
    PROVE  /\ WorkflowOf(call) \in WorkflowIds
           /\ call.current \in Document
  BY CallKinds, CosmosConstants
     DEF WorkflowOf, ApplyCall, PutCall, WorkflowLifecycleEvent

\* The next request of the same apply_workflow_event.
LEMMA ContinuedCall ==
    ASSUME NEW call \in ApplyCall,
           NEW op \in {"read_receipt", "read_current", "batch", "recover"}
    PROVE  /\ [call EXCEPT !.op = op] \in ApplyCall
           /\ [call EXCEPT !.op = op].op = op
           /\ [call EXCEPT !.op = op].event = call.event
  BY DEF ApplyCall

\* Idle calls owe nothing.
LEMMA IdleIsNoApply == Idle \notin ApplyCall /\ Idle.op = "idle"
  BY DEF Idle, ApplyCall

\* A step of one caller preserves the invariant when its own call satisfies
\* it afterwards: every write raises the _etag that other callers hold.
LEMMA OneCallerSteps ==
    ASSUME Inv, TypeOK', NEW c \in Callers,
           \A b \in Callers \ {c} : calls'[b] = calls[b],
           \A w \in WorkflowIds : \/ documents'[w] = documents[w]
                                  \/ documents[w].etag < documents'[w].etag,
           ReadIsCurrent(c)', CallIsChecked(c)'
    PROVE  Inv'
<1>1. ASSUME NEW b \in Callers \ {c} PROVE ReadIsCurrent(b)'
  <2> SUFFICES ASSUME calls[b].op \in {"batch", "put_write"}
               PROVE  LET d == documents'[WorkflowOf(calls[b])]
                      IN  /\ calls[b].current.etag <= d.etag
                          /\ calls[b].current.etag = d.etag => calls[b].current = d
    BY <1>1 DEF ReadIsCurrent, WorkflowOf
  <2> DEFINE w == WorkflowOf(calls[b])
  <2>1. calls[b] \in AnyCall
    BY DEF Inv, TypeOK, AnyCall
  <2>2. w \in WorkflowIds /\ calls[b].current.etag \in Nat
    BY <2>1, WorkflowOfType DEF Document
  <2>3. documents[w].etag \in Nat /\ documents'[w].etag \in Nat
    BY <2>2 DEF Inv, TypeOK, Document
  <2>4. /\ calls[b].current.etag <= documents[w].etag
        /\ calls[b].current.etag = documents[w].etag => calls[b].current = documents[w]
    BY <1>1 DEF Inv, ReadIsCurrent
  <2>5. documents'[w] = documents[w] \/ documents[w].etag < documents'[w].etag
    BY <2>2
  <2> HIDE DEF w
  <2> QED  BY <2>2, <2>3, <2>4, <2>5 DEF w
<1>2. ASSUME NEW b \in Callers \ {c} PROVE CallIsChecked(b)'
  BY <1>2 DEF Inv, CallIsChecked
<1> QED  BY <1>1, <1>2 DEF Inv

\* A caller that is idle after its step owes nothing.
LEMMA ReturnedCaller ==
    ASSUME Inv, NEW c \in Callers, Return(c)
    PROVE  /\ \A b \in Callers \ {c} : calls'[b] = calls[b]
           /\ calls' \in [Callers -> AnyCall]
           /\ ReadIsCurrent(c)' /\ CallIsChecked(c)'
<1>1. calls \in [Callers -> AnyCall]
  BY DEF Inv, TypeOK, AnyCall
<1>2. Idle \in AnyCall
  BY DEF AnyCall
<1>3. /\ \A b \in Callers \ {c} : calls'[b] = calls[b]
      /\ calls' \in [Callers -> AnyCall]
      /\ calls'[c] = Idle
  BY <1>1, <1>2 DEF Return
<1> QED  BY <1>3, IdleIsNoApply DEF ReadIsCurrent, CallIsChecked

\* A caller that goes on to a request other than the batch keeps its event.
LEMMA ContinuedCaller ==
    ASSUME Inv, NEW c \in Callers, calls[c] \in ApplyCall,
           NEW op \in {"read_current", "recover"}, Continue(c, op)
    PROVE  /\ \A b \in Callers \ {c} : calls'[b] = calls[b]
           /\ calls' \in [Callers -> AnyCall]
           /\ ReadIsCurrent(c)' /\ CallIsChecked(c)'
<1>1. calls \in [Callers -> AnyCall]
  BY DEF Inv, TypeOK, AnyCall
<1> DEFINE next == [calls[c] EXCEPT !.op = op]
<1>2. calls' = [calls EXCEPT ![c] = next]
  BY DEF Continue
<1>3. next \in AnyCall /\ next.op = op /\ next.event = calls[c].event
  <2>1. op \in {"read_receipt", "read_current", "batch", "recover"}
    OBVIOUS
  <2> QED  BY <2>1, ContinuedCall DEF AnyCall
<1> HIDE DEF next
<1>4. /\ \A b \in Callers \ {c} : calls'[b] = calls[b]
      /\ calls' \in [Callers -> AnyCall]
      /\ calls'[c] = next
  BY <1>1, <1>2, <1>3
<1>5. Validate(next.event)
  BY <1>3 DEF Inv, CallIsChecked
<1> QED  BY <1>3, <1>4, <1>5 DEF ReadIsCurrent, CallIsChecked

-----------------------------------------------------------------------------
(* The requests, as steps of StateStore *)

\* Both specifications read the same lifecycle contract.
LEMMA SameContract ==
    ASSUME NEW e, NEW r, NEW n
    PROVE  /\ Atomic!Validate(e) <=> Validate(e)
           /\ Atomic!ExpectedHolds(r, n) <=> ExpectedHolds(r, n)
           /\ Atomic!CanApply(e, r) <=> CanApply(e, r)
           /\ Atomic!ApplyTo(e, r) = ApplyTo(e, r)
<1>1. Atomic!AllowedTransitions = AllowedTransitions
  BY DEF Atomic!AllowedTransitions, AllowedTransitions, Atomic!Statuses, Statuses,
         Atomic!WorkflowStatus, WorkflowStatus, Atomic!Terminal, Terminal,
         Atomic!NoStatus, NoStatus
<1>2. Atomic!NoStatus = NoStatus
  BY DEF Atomic!NoStatus, NoStatus
<1>3. Atomic!Validate(e) <=> Validate(e)
  BY <1>1, <1>2 DEF Atomic!Validate, Validate
<1>4. Atomic!CanApply(e, r) <=> CanApply(e, r)
  BY <1>2 DEF Atomic!CanApply, CanApply
<1> QED
  BY <1>3, <1>4 DEF Atomic!ExpectedHolds, ExpectedHolds, Atomic!ApplyTo, ApplyTo

\* A request that writes nothing and answers nothing is no step of StateStore.
LEMMA SilentStep ==
    ASSUME UNCHANGED <<documents, receipts, answers>>
    PROVE  UNCHANGED Atomic!vars
  BY DEF Atomic!vars

\* A type-correct step of one caller that leaves the documents alone.
LEMMA ReadingStep ==
    ASSUME Inv, NEW c \in Callers,
           UNCHANGED <<documents, receipts>>, answers' \subseteq Answer,
           \A b \in Callers \ {c} : calls'[b] = calls[b],
           calls' \in [Callers -> AnyCall],
           ReadIsCurrent(c)', CallIsChecked(c)'
    PROVE  Inv'
<1>1. TypeOK'
  BY DEF Inv, TypeOK, AnyCall
<1>2. \A w \in WorkflowIds : documents'[w] = documents[w]
  OBVIOUS
<1> QED  BY <1>1, <1>2, OneCallerSteps

\* apply_workflow_event validates its event before its first request.
LEMMA BeginApplyStep ==
    ASSUME Inv, NEW c \in Callers, NEW e \in Events, BeginApply(c, e)
    PROVE  Inv' /\ UNCHANGED Atomic!vars
<1> DEFINE new == [op |-> "read_receipt", event |-> e, current |-> Absent]
<1>1. /\ calls' = [calls EXCEPT ![c] = new]
      /\ UNCHANGED <<documents, receipts, answers>>
      /\ Validate(e)
  BY DEF BeginApply
<1>2. new \in AnyCall /\ new.op = "read_receipt" /\ new.event = e
  BY DEF AnyCall, ApplyCall, Absent, Document, NoRecord, WorkflowRecord, Statuses
<1>3. calls \in [Callers -> AnyCall] /\ answers \subseteq Answer
  BY DEF Inv, TypeOK, AnyCall
<1> HIDE DEF new
<1>4. /\ \A b \in Callers \ {c} : calls'[b] = calls[b]
      /\ calls' \in [Callers -> AnyCall]
      /\ calls'[c] = new
  BY <1>1, <1>2, <1>3
<1>5. ReadIsCurrent(c)' /\ CallIsChecked(c)'
  BY <1>1, <1>2, <1>4 DEF ReadIsCurrent, CallIsChecked
<1> QED  BY <1>1, <1>3, <1>4, <1>5, ReadingStep, SilentStep

\* _replayed_transition is StateStore's replay, or no step when it raises.
LEMMA AnswerStep ==
    ASSUME Inv, NEW c \in Callers, calls[c] \in ApplyCall,
           NEW r \in ReceiptsFor(calls[c].event),
           AnswerFromReceipt(c, calls[c].event, r)
    PROVE  /\ Inv'
           /\ \/ Atomic!ReplayedTransition(calls[c].event)
              \/ UNCHANGED Atomic!vars
<1> DEFINE e == calls[c].event
           answer == [event |-> e, record |-> r.record, replayed |-> TRUE]
<1>1. e \in Events /\ Validate(e)
  BY DEF ApplyCall, Inv, CallIsChecked
<1>2. r \in receipts /\ r.record \in WorkflowRecord
  BY DEF Inv, TypeOK, Receipt, ReceiptsFor
<1>3. answer \in Answer
  BY <1>1, <1>2 DEF Answer
<1>4. /\ Return(c)
      /\ UNCHANGED <<documents, receipts>>
      /\ \/ r.event = e /\ answers' = answers \union {answer}
         \/ answers' = answers
  BY DEF AnswerFromReceipt
<1>5. answers' \subseteq Answer
  <2> HIDE DEF answer
  <2> QED  BY <1>3, <1>4 DEF Inv, TypeOK
<1>6. Inv'
  BY <1>4, <1>5, ReturnedCaller, ReadingStep
<1>7. CASE r.event = e /\ answers' = answers \union {answer}
  <2>1. r \in Atomic!ReceiptsFor(e)
    BY DEF ReceiptsFor, Atomic!ReceiptsFor
  <2>2. Atomic!Deliver(e, r.record, TRUE)
    BY <1>7 DEF Atomic!Deliver
  <2>3. Atomic!ReplayedTransition(e)
    BY <1>1, <1>4, <1>7, <2>1, <2>2, SameContract DEF Atomic!ReplayedTransition
  <2> QED  BY <1>6, <2>3
<1>8. CASE answers' = answers
  BY <1>4, <1>6, <1>8, SilentStep
<1> QED  BY <1>4, <1>7, <1>8

\* The first read of the receipt: a replay, or the call goes on.
LEMMA ReadReceiptStep ==
    ASSUME Inv, NEW c \in Callers, ReadReceipt(c)
    PROVE  Inv' /\ [Atomic!Next]_(Atomic!vars)
<1>1. calls[c] \in ApplyCall
  BY CallKinds DEF Inv, TypeOK, AnyCall, ReadReceipt
<1>2. calls[c].event \in Events
  BY <1>1 DEF ApplyCall
<1>3. CASE \E r \in ReceiptsFor(calls[c].event) :
              AnswerFromReceipt(c, calls[c].event, r)
  BY <1>1, <1>2, <1>3, AnswerStep DEF Atomic!Next
<1>4. CASE /\ Continue(c, "read_current")
           /\ UNCHANGED <<documents, receipts, answers>>
  <2>1. answers' \subseteq Answer
    BY <1>4 DEF Inv, TypeOK
  <2> QED  BY <1>1, <1>4, <2>1, ContinuedCaller, ReadingStep, SilentStep
<1> QED  BY <1>3, <1>4 DEF ReadReceipt

\* The read after a refused batch: a replay, or VersionConflict.
LEMMA RecoverStep ==
    ASSUME Inv, NEW c \in Callers, Recover(c)
    PROVE  Inv' /\ [Atomic!Next]_(Atomic!vars)
<1>1. calls[c] \in ApplyCall
  BY CallKinds DEF Inv, TypeOK, AnyCall, Recover
<1>2. calls[c].event \in Events
  BY <1>1 DEF ApplyCall
<1>3. CASE \E r \in ReceiptsFor(calls[c].event) :
              AnswerFromReceipt(c, calls[c].event, r)
  BY <1>1, <1>2, <1>3, AnswerStep DEF Atomic!Next
<1>4. CASE Return(c) /\ UNCHANGED <<documents, receipts, answers>>
  <2>1. answers' \subseteq Answer
    BY <1>4 DEF Inv, TypeOK
  <2> QED  BY <1>4, <2>1, ReturnedCaller, ReadingStep, SilentStep
<1> QED  BY <1>3, <1>4 DEF Recover

\* A caller that has read the document and found its event applicable.
LEMMA ReadCurrentStep ==
    ASSUME Inv, NEW c \in Callers, ReadCurrent(c)
    PROVE  Inv' /\ UNCHANGED Atomic!vars
<1> DEFINE e == calls[c].event
           current == documents[e.workflow_id]
           next == [calls[c] EXCEPT !.op = "batch", !.current = current]
<1>1. calls[c] \in ApplyCall
  BY CallKinds DEF Inv, TypeOK, AnyCall, ReadCurrent
<1>2. /\ e \in Events /\ e.workflow_id \in WorkflowIds
      /\ current \in Document
  BY <1>1, CosmosConstants DEF ApplyCall, Inv, TypeOK, WorkflowLifecycleEvent
<1>3. UNCHANGED <<documents, receipts, answers>> /\ answers' \subseteq Answer
  BY DEF ReadCurrent, Inv, TypeOK
<1>4. CASE Return(c)
  BY <1>3, <1>4, ReturnedCaller, ReadingStep, SilentStep
<1>5. CASE /\ ExpectedHolds(current.record, e.expected_version)
           /\ CanApply(e, current.record)
           /\ calls' = [calls EXCEPT ![c] = next]
  <2>1. /\ next \in AnyCall /\ next.op = "batch"
        /\ next.event = e /\ next.current = current
    BY <1>1, <1>2 DEF AnyCall, ApplyCall
  <2>2. calls \in [Callers -> AnyCall] /\ Validate(e)
    BY <1>1 DEF Inv, TypeOK, AnyCall, CallIsChecked
  <2> HIDE DEF next
  <2>3. /\ \A b \in Callers \ {c} : calls'[b] = calls[b]
        /\ calls' \in [Callers -> AnyCall]
        /\ calls'[c] = next
    BY <1>5, <2>1, <2>2
  <2>4. current.etag \in Nat
    BY <1>2 DEF Document
  <2>5. ReadIsCurrent(c)'
    BY <1>3, <2>1, <2>3, <2>4 DEF ReadIsCurrent, WorkflowOf
  <2>6. CallIsChecked(c)'
    BY <1>5, <2>1, <2>2, <2>3 DEF CallIsChecked
  <2> QED  BY <1>3, <2>3, <2>5, <2>6, ReadingStep, SilentStep
<1> QED  BY <1>4, <1>5 DEF ReadCurrent

\* The records after one document is replaced.
LEMMA ReplacedDocument ==
    ASSUME Inv, NEW w \in WorkflowIds, NEW r \in WorkflowRecord,
           documents' = [documents EXCEPT ![w] = [record |-> r, etag |-> @.etag + 1]]
    PROVE  /\ documents' \in [WorkflowIds -> Document]
           /\ \A v \in WorkflowIds : \/ documents'[v] = documents[v]
                                     \/ documents[v].etag < documents'[v].etag
           /\ [v \in WorkflowIds |-> documents'[v].record] =
                [[v \in WorkflowIds |-> documents[v].record] EXCEPT ![w] = r]
<1> DEFINE new == [record |-> r, etag |-> documents[w].etag + 1]
<1>1. documents \in [WorkflowIds -> Document] /\ documents[w].etag \in Nat
  BY DEF Inv, TypeOK, Document
<1>2. new \in Document /\ new.record = r /\ documents[w].etag < new.etag
  BY <1>1 DEF Document
<1>3. documents' = [documents EXCEPT ![w] = new]
  BY <1>1
<1> HIDE DEF new
<1> QED  BY <1>1, <1>2, <1>3

\* An accepted batch commits the transition the caller has checked.
LEMMA BatchCommits ==
    ASSUME Inv, NEW c \in Callers, calls[c].op = "batch",
           NEW e \in Events, e = calls[c].event,
           BatchAccepted(e, calls[c].current), WriteBatch(e, calls[c].current),
           \/ answers' = answers \union
                {[event |-> e, record |-> ApplyTo(e, calls[c].current.record),
                  replayed |-> FALSE]}
           \/ answers' = answers
    PROVE  /\ Atomic!CommitTransition(e)
           /\ documents' \in [WorkflowIds -> Document]
           /\ \A w \in WorkflowIds : \/ documents'[w] = documents[w]
                                     \/ documents[w].etag < documents'[w].etag
           /\ receipts' \subseteq Receipt
           /\ answers' \subseteq Answer
<1> DEFINE current == calls[c].current
           stored == ApplyTo(e, current.record)
           w == e.workflow_id
           answer == [event |-> e, record |-> stored, replayed |-> FALSE]
<1>1. calls[c] \in ApplyCall
  BY CallKinds DEF Inv, TypeOK, AnyCall
<1>2. /\ e \in Events /\ e \in WorkflowLifecycleEvent /\ w \in WorkflowIds
      /\ current \in Document /\ current.record \in WorkflowRecord
  BY <1>1, CosmosConstants DEF ApplyCall, WorkflowLifecycleEvent, Document
<1>3. current = documents[w]
  BY DEF Inv, ReadIsCurrent, WorkflowOf, BatchAccepted
<1>4. /\ Validate(e)
      /\ ExpectedHolds(current.record, e.expected_version)
      /\ CanApply(e, current.record)
  BY <1>1 DEF Inv, CallIsChecked
<1>5. stored \in WorkflowRecord
  BY <1>2 DEF ApplyTo, WorkflowRecord, WorkflowLifecycleEvent, Statuses
<1>6. /\ current.record.version < MaxVersion
      /\ documents' = [documents EXCEPT ![w] = [record |-> stored, etag |-> @.etag + 1]]
      /\ receipts' = receipts \union {[event |-> e, record |-> stored]}
  BY DEF WriteBatch
<1>7. answers' = answers \union {answer} \/ answers' = answers
  OBVIOUS
<1>8. /\ [event |-> e, record |-> stored] \in Receipt
      /\ answer \in Answer
  BY <1>2, <1>5 DEF Receipt, Answer
<1> HIDE DEF stored
<1>9. receipts' \subseteq Receipt
  BY <1>6, <1>8 DEF Inv, TypeOK
<1>10. answers' \subseteq Answer
  <2> HIDE DEF answer
  <2> QED  BY <1>7, <1>8 DEF Inv, TypeOK
<1>11. /\ documents' \in [WorkflowIds -> Document]
       /\ \A v \in WorkflowIds : \/ documents'[v] = documents[v]
                                 \/ documents[v].etag < documents'[v].etag
       /\ [v \in WorkflowIds |-> documents'[v].record] =
            [[v \in WorkflowIds |-> documents[v].record] EXCEPT ![w] = stored]
  BY <1>2, <1>5, <1>6, ReplacedDocument
<1>12. Atomic!CommitTransition(e)
  <2>1. [v \in WorkflowIds |-> documents[v].record][w] = current.record
    BY <1>2, <1>3
  <2>2. Atomic!ReceiptsFor(e) = {}
    BY DEF BatchAccepted, ReceiptsFor, Atomic!ReceiptsFor
  <2>3. Atomic!ApplyTo(e, current.record) = stored
    BY SameContract DEF stored
  <2>4. Atomic!Deliver(e, stored, FALSE)
    BY <1>7 DEF Atomic!Deliver
  <2>5. /\ Atomic!Validate(e)
        /\ Atomic!ExpectedHolds(current.record, e.expected_version)
        /\ Atomic!CanApply(e, current.record)
    BY <1>4, SameContract
  <2> HIDE DEF current, w
  <2>6. [v \in WorkflowIds |-> documents[v].record][e.workflow_id] = current.record
    BY <2>1 DEF w
  <2>7. [v \in WorkflowIds |-> documents[v].record]' =
          [[v \in WorkflowIds |-> documents[v].record] EXCEPT ![e.workflow_id] = stored]
    BY <1>11 DEF w
  <2> QED
    BY <1>6, <2>2, <2>3, <2>4, <2>5, <2>6, <2>7 DEF Atomic!CommitTransition
<1> QED  BY <1>9, <1>10, <1>11, <1>12

\* A batch is a commit of the atomic store when it is accepted, and nothing
\* otherwise, whether or not its answer arrives.
LEMMA BatchStep ==
    ASSUME Inv, NEW c \in Callers, Batch(c)
    PROVE  Inv' /\ [Atomic!Next]_(Atomic!vars)
<1>1. calls[c] \in ApplyCall /\ calls[c].op = "batch"
  BY CallKinds DEF Inv, TypeOK, AnyCall, Batch
<1>2. PICK e \in Events : e = calls[c].event
  BY <1>1 DEF ApplyCall
<1> DEFINE current == calls[c].current
           answer == [event |-> e, record |-> ApplyTo(e, current.record),
                      replayed |-> FALSE]
<1>3. CASE /\ BatchAccepted(e, current)
           /\ WriteBatch(e, current)
           /\ answers' = answers \union {answer} \/ answers' = answers
           /\ Return(c) \/ Continue(c, "recover")
  <2>1. /\ Atomic!CommitTransition(e)
        /\ documents' \in [WorkflowIds -> Document]
        /\ \A w \in WorkflowIds : \/ documents'[w] = documents[w]
                                  \/ documents[w].etag < documents'[w].etag
        /\ receipts' \subseteq Receipt
        /\ answers' \subseteq Answer
    BY <1>1, <1>2, <1>3, BatchCommits
  <2>2. /\ \A b \in Callers \ {c} : calls'[b] = calls[b]
        /\ calls' \in [Callers -> AnyCall]
        /\ ReadIsCurrent(c)' /\ CallIsChecked(c)'
    BY <1>1, <1>3, ReturnedCaller, ContinuedCaller
  <2>3. TypeOK'
    BY <2>1, <2>2 DEF TypeOK, AnyCall
  <2>4. Inv'
    BY <2>1, <2>2, <2>3, OneCallerSteps
  <2> QED  BY <2>1, <2>4 DEF Atomic!Next
<1>4. CASE /\ Continue(c, "recover")
           /\ UNCHANGED <<documents, receipts, answers>>
  <2>1. answers' \subseteq Answer
    BY <1>4 DEF Inv, TypeOK
  <2> QED  BY <1>1, <1>4, <2>1, ContinuedCaller, ReadingStep, SilentStep
<1> QED  BY <1>2, <1>3, <1>4 DEF Batch

\* The read of put_workflow changes nothing the atomic store knows of.
LEMMA PutReadStep ==
    ASSUME Inv, NEW c \in Callers, NEW w \in WorkflowIds,
           NEW record \in PutRecords, NEW expected \in 0..MaxVersion,
           PutRead(c, w, record, expected)
    PROVE  Inv' /\ UNCHANGED Atomic!vars
<1> DEFINE new == [op |-> "put_write", workflow_id |-> w, record |-> record,
                   current |-> documents[w]]
<1>1. /\ calls' = [calls EXCEPT ![c] = new]
      /\ UNCHANGED <<documents, receipts, answers>>
      /\ answers' \subseteq Answer
  BY DEF PutRead, Inv, TypeOK
<1>2. /\ new \in PutCall /\ new \notin ApplyCall /\ new.op = "put_write"
      /\ new.workflow_id = w /\ new.current = documents[w]
      /\ documents[w].etag \in Nat
  BY DEF PutCall, ApplyCall, Inv, TypeOK, Document
<1>3. calls \in [Callers -> AnyCall] /\ new \in AnyCall
  BY <1>2 DEF Inv, TypeOK, AnyCall
<1> HIDE DEF new
<1>4. /\ \A b \in Callers \ {c} : calls'[b] = calls[b]
      /\ calls' \in [Callers -> AnyCall]
      /\ calls'[c] = new
  BY <1>1, <1>3
<1>5. ReadIsCurrent(c)' /\ CallIsChecked(c)'
  BY <1>1, <1>2, <1>4 DEF ReadIsCurrent, CallIsChecked, WorkflowOf
<1> QED  BY <1>1, <1>4, <1>5, ReadingStep, SilentStep

\* An accepted conditional write is put_workflow; a refused one is no step.
LEMMA PutWriteStep ==
    ASSUME Inv, NEW c \in Callers, PutWrite(c)
    PROVE  Inv' /\ [Atomic!Next]_(Atomic!vars)
<1> DEFINE w == calls[c].workflow_id
           current == calls[c].current
           record == calls[c].record
           stored == [record EXCEPT !.version = current.record.version + 1]
<1>1. calls[c] \in PutCall /\ calls[c].op = "put_write"
  BY CallKinds DEF Inv, TypeOK, AnyCall, PutWrite
<1>2. /\ w \in WorkflowIds /\ record \in PutRecords /\ record \in WorkflowRecord
      /\ current \in Document
  BY <1>1, CosmosConstants DEF PutCall
<1>3. current.record.version \in Nat /\ stored \in WorkflowRecord
  BY <1>2 DEF Document, WorkflowRecord
<1>4. Return(c) /\ UNCHANGED <<receipts, answers>> /\ answers' \subseteq Answer
  BY DEF PutWrite, Inv, TypeOK
<1>5. CASE UNCHANGED documents
  BY <1>4, <1>5, ReturnedCaller, ReadingStep, SilentStep
<1>6. CASE /\ documents[w].etag = current.etag
           /\ current.record.version < MaxVersion
           /\ documents' = [documents EXCEPT ![w] =
                               [record |-> stored, etag |-> @.etag + 1]]
  <2>1. current = documents[w]
    BY <1>1, <1>6 DEF Inv, ReadIsCurrent, WorkflowOf
  <2>2. [v \in WorkflowIds |-> documents[v].record][w] = current.record
    BY <1>2, <2>1
  <2> HIDE DEF stored
  <2>3. /\ documents' \in [WorkflowIds -> Document]
        /\ \A v \in WorkflowIds : \/ documents'[v] = documents[v]
                                  \/ documents[v].etag < documents'[v].etag
        /\ [v \in WorkflowIds |-> documents'[v].record] =
             [[v \in WorkflowIds |-> documents[v].record] EXCEPT ![w] = stored]
    BY <1>2, <1>3, <1>6, ReplacedDocument
  <2>4. /\ \A b \in Callers \ {c} : calls'[b] = calls[b]
        /\ calls' \in [Callers -> AnyCall]
        /\ ReadIsCurrent(c)' /\ CallIsChecked(c)'
    BY <1>4, ReturnedCaller
  <2>5. TypeOK'
    BY <1>4, <2>3, <2>4 DEF Inv, TypeOK, AnyCall
  <2>6. Inv'
    BY <2>3, <2>4, <2>5, OneCallerSteps
  <2>7. Atomic!ExpectedHolds(current.record, 0)
    BY DEF Atomic!ExpectedHolds
  <2>8. Atomic!PutWorkflow(w, record, 0)
    BY <1>4, <1>6, <2>2, <2>3, <2>7 DEF Atomic!PutWorkflow, stored
  <2>9. 0 \in 0..MaxVersion
    BY CosmosConstants
  <2> QED  BY <1>2, <2>6, <2>8, <2>9 DEF Atomic!Next
<1> QED  BY <1>5, <1>6 DEF PutWrite

\* Nor does the death of a caller.
LEMMA CrashStep ==
    ASSUME Inv, NEW c \in Callers, Crash(c)
    PROVE  Inv' /\ UNCHANGED Atomic!vars
<1>1. /\ Return(c) /\ UNCHANGED <<documents, receipts, answers>>
      /\ answers' \subseteq Answer
  BY DEF Crash, Inv, TypeOK
<1> QED  BY <1>1, ReturnedCaller, ReadingStep, SilentStep

\* The empty container is the empty store.
LEMMA InitStep == Init => Inv /\ Atomic!Init
<1> SUFFICES ASSUME Init PROVE Inv /\ Atomic!Init
  OBVIOUS
<1>1. TypeOK
  BY DEF Init, TypeOK, Absent, Document, NoRecord, WorkflowRecord, Statuses
<1>2. \A c \in Callers : ReadIsCurrent(c) /\ CallIsChecked(c)
  BY IdleIsNoApply DEF Init, ReadIsCurrent, CallIsChecked
<1>3. Atomic!Init
  BY DEF Init, Atomic!Init, Absent, Atomic!NoRecord, NoRecord, Atomic!NoStatus,
         NoStatus
<1> QED  BY <1>1, <1>2, <1>3 DEF Inv

\* Every request preserves the invariant and is a step of the atomic store or
\* none.
LEMMA NextStep == Inv /\ [Next]_vars => Inv' /\ [Atomic!Next]_(Atomic!vars)
<1> SUFFICES ASSUME Inv, [Next]_vars PROVE Inv' /\ [Atomic!Next]_(Atomic!vars)
  OBVIOUS
<1>1. CASE UNCHANGED vars
  BY <1>1, SilentStep
     DEF vars, Inv, TypeOK, ReadIsCurrent, CallIsChecked
<1>2. CASE Next
  <2>1. PICK c \in Callers :
            \/ \E e \in Events : BeginApply(c, e)
            \/ ReadReceipt(c) \/ ReadCurrent(c) \/ Batch(c) \/ Recover(c)
            \/ \E w \in WorkflowIds, record \in PutRecords, expected \in 0..MaxVersion :
                   PutRead(c, w, record, expected)
            \/ PutWrite(c)
            \/ Crash(c)
    BY <1>2 DEF Next
  <2> QED
    BY <2>1, BeginApplyStep, ReadReceiptStep, ReadCurrentStep, BatchStep,
       RecoverStep, PutReadStep, PutWriteStep, CrashStep
<1> QED  BY <1>1, <1>2

-----------------------------------------------------------------------------

\* Every reachable state of the adapter satisfies its invariant.
THEOREM AdapterInvariant == Spec => []Inv
<1>1. Init => Inv
  BY InitStep
<1>2. Inv /\ [Next]_vars => Inv'
  BY NextStep
<1> QED  BY <1>1, <1>2, PTL DEF Spec

\* The documents, receipts, calls and answers always have their types.
THEOREM TypeCorrect == Spec => []TypeOK
  BY AdapterInvariant, PTL DEF Inv

\* The adapter implements the atomic store, without its UNIQUE event ids.
THEOREM Implementation == Spec => ImplementsStateStore
<1>1. Init => Atomic!Init
  BY InitStep
<1>2. Inv /\ [Next]_vars => [Atomic!Next]_(Atomic!vars)
  BY NextStep
<1> QED
  BY <1>1, <1>2, AdapterInvariant, PTL DEF Spec, ImplementsStateStore, Atomic!Spec

-----------------------------------------------------------------------------
(* What the adapter inherits.  StoreP is StateStore with its theorems, under *)
(* the substitution of Atomic.                                               *)

\* The adapter's constants satisfy the assumptions of StateStore.
LEMMA StoreConstants == StoreP!LifecycleConstants /\ StoreP!StateStoreConstants
  BY LifecycleConstants, CosmosConstants
     DEF StoreP!LifecycleConstants, StoreP!StateStoreConstants,
         StoreP!WorkflowLifecycleEvent, WorkflowLifecycleEvent,
         StoreP!WorkflowRecord, WorkflowRecord, StoreP!Statuses, Statuses,
         StoreP!WorkflowStatus, WorkflowStatus, StoreP!Terminal, Terminal,
         StoreP!NoStatus, NoStatus

\* Atomic and StoreP are two names of one specification: their initial states
\* are the same.
LEMMA SameInit == Atomic!Init => StoreP!Init
  BY DEF Atomic!Init, StoreP!Init, Atomic!NoRecord, StoreP!NoRecord,
         Atomic!NoStatus, StoreP!NoStatus

\* And so are their steps.
LEMMA SameNext == [Atomic!Next]_(Atomic!vars) => [StoreP!Next]_(StoreP!vars)
  BY DEF Atomic!Next, StoreP!Next, Atomic!vars, StoreP!vars,
         Atomic!CommitTransition, StoreP!CommitTransition,
         Atomic!ReplayedTransition, StoreP!ReplayedTransition,
         Atomic!PutWorkflow, StoreP!PutWorkflow, Atomic!Deliver, StoreP!Deliver,
         Atomic!ReceiptsFor, StoreP!ReceiptsFor,
         Atomic!EventIdUsed, StoreP!EventIdUsed, Atomic!Validate, StoreP!Validate,
         Atomic!ExpectedHolds, StoreP!ExpectedHolds,
         Atomic!CanApply, StoreP!CanApply, Atomic!ApplyTo, StoreP!ApplyTo,
         Atomic!AllowedTransitions, StoreP!AllowedTransitions,
         Atomic!Statuses, StoreP!Statuses,
         Atomic!WorkflowStatus, StoreP!WorkflowStatus,
         Atomic!Terminal, StoreP!Terminal, Atomic!NoStatus, StoreP!NoStatus

\* The invariant of StateStore holds of the documents and receipts.
THEOREM StoreInvariant == Spec => []StoreP!Inv
<1>1. StoreP!Init => StoreP!Inv
  BY StoreConstants, StoreP!InitInv
<1>2. StoreP!Inv /\ [StoreP!Next]_(StoreP!vars) => StoreP!Inv'
  BY StoreConstants, StoreP!NextInv
<1> QED
  BY <1>1, <1>2, SameInit, SameNext, Implementation, PTL
     DEF ImplementsStateStore, Atomic!Spec

\* No lost update, however the requests of concurrent callers interleave and
\* whichever answers are lost.
THEOREM NoLostUpdate == Spec => []OneReceiptPerVersion
<1>1. StoreP!Inv => OneReceiptPerVersion
  BY DEF StoreP!Inv, StoreP!OneReceiptPerVersion, OneReceiptPerVersion,
         Atomic!OneReceiptPerVersion
<1> QED  BY <1>1, StoreInvariant, PTL

\* The receipts of a workflow are consecutive steps of the transition table,
\* although each was checked against a document read before it was written.
THEOREM History == Spec => []ReceiptsFormAHistory
<1>1. StoreP!Inv => ReceiptsFormAHistory
  BY DEF StoreP!Inv, StoreP!ReceiptsFormAHistory, ReceiptsFormAHistory,
         Atomic!ReceiptsFormAHistory, StoreP!Terminal, Atomic!Terminal
<1> QED  BY <1>1, StoreInvariant, PTL

\* Every answer for an event, to whichever attempt, is the one snapshot its
\* commit produced.
THEOREM ReplaysAgree == Spec => []AnswersAgree
<1>1. StoreP!Inv => StoreP!AnswersAgree
  BY StoreConstants, StoreP!InvAnswersAgree
<1>2. StoreP!AnswersAgree => AnswersAgree
  BY DEF StoreP!AnswersAgree, AnswersAgree, Atomic!AnswersAgree
<1> QED  BY <1>1, <1>2, StoreInvariant, PTL

\* No acknowledged transition is lost: the document is at or ahead of every
\* receipt, and is the receipt's snapshot when it is at its version.
THEOREM ReceiptsSurvive == Spec => []DocumentMatchesLastReceipt
<1>1. TypeOK /\ StoreP!Inv => DocumentMatchesLastReceipt
  <2> SUFFICES ASSUME TypeOK, StoreP!Inv, NEW r \in receipts
               PROVE  LET d == documents[r.event.workflow_id]
                      IN  /\ r.record.version <= d.record.version
                          /\ r.record.version = d.record.version
                                => r.record = d.record
    BY DEF DocumentMatchesLastReceipt
  <2>1. r.event.workflow_id \in WorkflowIds
    BY CosmosConstants DEF TypeOK, Receipt, WorkflowLifecycleEvent
  <2> QED  BY <2>1 DEF StoreP!Inv, StoreP!ReceiptsBehindRecord
<1> QED  BY <1>1, TypeCorrect, StoreInvariant, PTL

-----------------------------------------------------------------------------
(* The audit sink *)

AnyAppend == {NoAppend} \union Call

\* A tip that still has the _etag an exporter has read is the one it read.
TipIsCurrent(c) ==
    appends[c].op = "batch" =>
        /\ appends[c].tip.etag <= tip.etag
        /\ appends[c].tip.etag = tip.etag => appends[c].tip = tip

\* The documents carry the numbers 1..tip.sequence, each of them once.
Numbered ==
    /\ \A it \in items : it.sequence \in 1..tip.sequence
    /\ \A n \in 1..tip.sequence : \E it \in items : it.sequence = n
    /\ \A a, b \in items : a.sequence = b.sequence => a = b

\* The first entry follows none, the tip has the hash of the newest entry, and
\* the hash of an entry covers as many events as its number says.
Linked ==
    /\ tip.sequence = 0 => tip.event_hash = NoPrevious
    /\ Len(tip.event_hash) = tip.sequence
    /\ \A it \in items :
        /\ it.entry.event_hash =
               ComputeEventHash(it.entry.event, it.entry.previous_hash)
        /\ Len(it.entry.event_hash) = it.sequence
        /\ it.sequence = 1 => it.entry.previous_hash = NoPrevious
        /\ it.sequence = tip.sequence => tip.event_hash = it.entry.event_hash
    /\ \A a, b \in items :
        b.sequence = a.sequence + 1 => b.entry.previous_hash = a.entry.event_hash

\* An event is stored once.
OneEach ==
    \A a, b \in items :
        a.entry.event.event_id = b.entry.event.event_id => a = b

\* Every entry that was returned is the entry of a document.
AnsweredFromStore == \A x \in exported : \E it \in items : it.entry = x

SinkInv ==
    /\ SinkTypeOK
    /\ \A c \in Exporters : TipIsCurrent(c)
    /\ Numbered
    /\ Linked
    /\ OneEach
    /\ AnsweredFromStore

-----------------------------------------------------------------------------
(* The chain *)

\* The document with a number is the one ItemAt finds.
LEMMA ItemAtNumber ==
    ASSUME Numbered
    PROVE  /\ \A it \in items : ItemAt(it.sequence) = it
           /\ \A n \in 1..tip.sequence : ItemAt(n) \in items /\ ItemAt(n).sequence = n
  BY DEF Numbered, ItemAt

\* The chain is a sequence of entries, as long as the tip says.
LEMMA ChainIsASequence ==
    ASSUME SinkTypeOK, Numbered
    PROVE  /\ Chain \in Seq(Entry)
           /\ Len(Chain) = tip.sequence
           /\ DOMAIN Chain = 1..tip.sequence
           /\ \A n \in 1..tip.sequence : Chain[n] = ItemAt(n).entry
<1>1. tip.sequence \in Nat
  BY DEF SinkTypeOK, Tip
<1>2. \A n \in 1..tip.sequence : ItemAt(n).entry \in Entry
  BY ItemAtNumber DEF SinkTypeOK, Item
<1>3. Chain \in [1..tip.sequence -> Entry]
  BY <1>2 DEF Chain
<1>4. Chain \in Seq(Entry)
  BY <1>1, <1>3, SeqDef
<1>5. \A n \in 1..tip.sequence : Chain[n] = ItemAt(n).entry
  BY DEF Chain
<1> QED  BY <1>1, <1>3, <1>4, <1>5, LenProperties

\* The last hash of the chain is the hash of the tip.
LEMMA ChainEndsAtTip ==
    ASSUME SinkInv
    PROVE  Reference!LastHash = tip.event_hash
<1>1. tip.sequence \in Nat
  BY DEF SinkInv, SinkTypeOK, Tip
<1>2. CASE tip.sequence = 0
  <2>1. Chain = <<>>
    BY <1>2, ChainIsASequence, EmptySeq DEF SinkInv
  <2> QED  BY <1>2, <2>1 DEF Reference!LastHash, SinkInv, Linked, NoPrevious,
                             Reference!NoPrevious
<1>3. CASE tip.sequence > 0
  <2>1. Len(Chain) = tip.sequence /\ Chain # <<>>
    BY <1>3, ChainIsASequence, EmptySeq DEF SinkInv
  <2>2. tip.sequence \in 1..tip.sequence
    BY <1>1, <1>3
  <2>3. Chain[tip.sequence] = ItemAt(tip.sequence).entry
    BY <2>2, ChainIsASequence DEF SinkInv
  <2>4. ItemAt(tip.sequence) \in items /\ ItemAt(tip.sequence).sequence = tip.sequence
    BY <2>2, ItemAtNumber DEF SinkInv
  <2>5. tip.event_hash = ItemAt(tip.sequence).entry.event_hash
    BY <2>4 DEF SinkInv, Linked
  <2> QED  BY <2>1, <2>3, <2>5 DEF Reference!LastHash
<1> QED  BY <1>1, <1>2, <1>3

\* What the document of an event is to the sink, its position is to the log.
LEMMA StoredInChain ==
    ASSUME SinkInv, NEW event \in AuditEvents
    PROVE  /\ \A it \in Stored(event) :
                /\ it.sequence \in Reference!Stored(event)
                /\ Chain[it.sequence] = it.entry
           /\ Stored(event) = {} => Reference!Stored(event) = {}
<1>1. /\ \A it \in items : ItemAt(it.sequence) = it /\ it.sequence \in 1..tip.sequence
      /\ \A n \in 1..tip.sequence : ItemAt(n) \in items
  BY ItemAtNumber DEF SinkInv, Numbered
<1>2. /\ DOMAIN Chain = 1..tip.sequence
      /\ \A n \in 1..tip.sequence : Chain[n] = ItemAt(n).entry
  BY ChainIsASequence DEF SinkInv
<1> QED  BY <1>1, <1>2 DEF Stored, Reference!Stored

-----------------------------------------------------------------------------
(* Steps *)

\* The operation of a call tells which kind of call it is.
LEMMA AppendKinds ==
    ASSUME NEW call \in AnyAppend
    PROVE  /\ call.op \in {"read_tip", "batch", "read_stored"} => call \in Call
           /\ call.op = "batch" => call # NoAppend
           /\ NoAppend.op = "idle"
  BY DEF AnyAppend, Call, NoAppend

\* A caller's next call is a call of its type, and no other call changes.
LEMMA NewCall ==
    ASSUME SinkTypeOK, NEW c \in Exporters, NEW call \in AnyAppend,
           appends' = [appends EXCEPT ![c] = call]
    PROVE  /\ appends' \in [Exporters -> {NoAppend} \union Call]
           /\ appends'[c] = call
           /\ \A b \in Exporters \ {c} : appends'[b] = appends[b]
  BY DEF SinkTypeOK, AnyAppend

\* A step that reads, or that changes a call only, is no step of the log.
LEMMA SilentAppend ==
    ASSUME UNCHANGED <<tip, items, exported>>
    PROVE  UNCHANGED Reference!vars
  BY DEF Reference!vars, Chain, ItemAt

\* It preserves the invariant if the new call knows a current tip.
LEMMA TipReadingStep ==
    ASSUME SinkInv, NEW c \in Exporters, NEW call \in AnyAppend,
           appends' = [appends EXCEPT ![c] = call],
           call.op = "batch" => call.tip = tip,
           UNCHANGED <<tip, items, exported>>
    PROVE  SinkInv' /\ UNCHANGED Reference!vars
<1>1. /\ appends' \in [Exporters -> {NoAppend} \union Call]
      /\ appends'[c] = call
      /\ \A b \in Exporters \ {c} : appends'[b] = appends[b]
  BY NewCall DEF SinkInv
<1>2. SinkTypeOK'
  BY <1>1 DEF SinkInv, SinkTypeOK
<1>3. \A b \in Exporters : TipIsCurrent(b)'
  <2>1. tip.etag \in Nat
    BY DEF SinkInv, SinkTypeOK, Tip
  <2>2. TipIsCurrent(c)'
    BY <1>1, <2>1 DEF TipIsCurrent
  <2>3. ASSUME NEW b \in Exporters \ {c} PROVE TipIsCurrent(b)'
    BY <1>1, <2>3 DEF SinkInv, TipIsCurrent
  <2> QED  BY <2>2, <2>3
<1>4. (Numbered /\ Linked /\ OneEach /\ AnsweredFromStore)'
  BY DEF SinkInv, Numbered, Linked, OneEach, AnsweredFromStore
<1> QED  BY <1>2, <1>3, <1>4, SilentAppend DEF SinkInv

\* Beginning to append.
LEMMA BeginAppendStep ==
    ASSUME SinkInv, NEW c \in Exporters, NEW event \in AuditEvents, BeginAppend(c, event)
    PROVE  SinkInv' /\ UNCHANGED Reference!vars
<1> DEFINE call == [op |-> "read_tip", event |-> event, tip |-> NoTip, attempt |-> 1]
<1>1. NoTip \in Tip
  BY EmptySeq DEF NoTip, Tip, NoPrevious
<1>2. call \in AnyAppend /\ call.op # "batch"
  BY <1>1, CosmosAuditConstants DEF AnyAppend, Call
<1>3. appends' = [appends EXCEPT ![c] = call] /\ UNCHANGED <<tip, items, exported>>
  BY DEF BeginAppend
<1> HIDE DEF call
<1> QED  BY <1>2, <1>3, TipReadingStep

\* Reading the tip.
LEMMA ReadTipStep ==
    ASSUME SinkInv, NEW c \in Exporters, ReadTip(c)
    PROVE  SinkInv' /\ UNCHANGED Reference!vars
<1> DEFINE call == [appends[c] EXCEPT !.op = "batch", !.tip = tip]
<1>1. appends[c] \in Call /\ tip \in Tip
  BY AppendKinds DEF SinkInv, SinkTypeOK, AnyAppend, ReadTip
<1>2. call \in AnyAppend /\ call.tip = tip
  BY <1>1 DEF AnyAppend, Call
<1>3. appends' = [appends EXCEPT ![c] = call] /\ UNCHANGED <<tip, items, exported>>
  BY <1>1 DEF ReadTip, Call
<1> HIDE DEF call
<1> QED  BY <1>2, <1>3, TipReadingStep

\* Returning to the caller without an entry, or dying.
LEMMA ReturnStep ==
    ASSUME SinkInv, NEW c \in Exporters, EndAppend(c), UNCHANGED <<tip, items, exported>>
    PROVE  SinkInv' /\ UNCHANGED Reference!vars
<1>1. NoAppend \in AnyAppend /\ NoAppend.op # "batch"
  BY DEF AnyAppend, NoAppend
<1>2. appends' = [appends EXCEPT ![c] = NoAppend]
  BY DEF EndAppend
<1> QED  BY <1>1, <1>2, TipReadingStep

\* A refused batch goes on to look for the event.
LEMMA RefusedStep ==
    ASSUME SinkInv, NEW c \in Exporters, appends[c].op = "batch",
           appends' = [appends EXCEPT ![c].op = "read_stored"],
           UNCHANGED <<tip, items, exported>>
    PROVE  SinkInv' /\ UNCHANGED Reference!vars
<1> DEFINE call == [appends[c] EXCEPT !.op = "read_stored"]
<1>1. appends[c] \in Call
  BY AppendKinds DEF SinkInv, SinkTypeOK, AnyAppend
<1>2. call \in AnyAppend /\ call.op # "batch"
  BY <1>1 DEF AnyAppend, Call
<1>3. appends' = [appends EXCEPT ![c] = call]
  OBVIOUS
<1> HIDE DEF call
<1> QED  BY <1>2, <1>3, TipReadingStep

\* An accepted batch is written on the tip that was read, which is the tip.
LEMMA AcceptedOnTip ==
    ASSUME SinkInv, NEW c \in Exporters, appends[c].op = "batch", AppendAccepted(appends[c])
    PROVE  /\ appends[c] \in Call /\ appends[c].event \in AuditEvents
           /\ appends[c].tip = tip
           /\ tip.sequence \in Nat /\ tip.etag \in Nat
           /\ tip.event_hash \in Seq(AuditEvents)
           /\ Candidate(appends[c]) \in Entry
           /\ Candidate(appends[c]).event = appends[c].event
           /\ Candidate(appends[c]).previous_hash = tip.event_hash
           /\ Candidate(appends[c]).event_hash =
                  ComputeEventHash(appends[c].event, tip.event_hash)
           /\ Candidate(appends[c]).event_hash \in Seq(AuditEvents)
           /\ Len(Candidate(appends[c]).event_hash) = tip.sequence + 1
<1>1. appends[c] \in Call
  BY AppendKinds DEF SinkInv, SinkTypeOK, AnyAppend
<1>2. appends[c].event \in AuditEvents
  BY <1>1 DEF Call
<1>3. appends[c].tip = tip
  BY DEF SinkInv, TipIsCurrent, AppendAccepted
<1>4. /\ tip.sequence \in Nat /\ tip.etag \in Nat
      /\ tip.event_hash \in Seq(AuditEvents)
      /\ Len(tip.event_hash) = tip.sequence
  BY DEF SinkInv, SinkTypeOK, Tip, Linked
<1>5. /\ Append(tip.event_hash, appends[c].event) \in Seq(AuditEvents)
      /\ Len(Append(tip.event_hash, appends[c].event)) = tip.sequence + 1
  BY <1>2, <1>4, AppendProperties
<1> QED  BY <1>1, <1>2, <1>3, <1>4, <1>5 DEF Candidate, Entry, ComputeEventHash

\* The batch adds the document after the last and moves the tip to it.
LEMMA WrittenBatch ==
    ASSUME SinkInv, NEW c \in Exporters, appends[c].op = "batch", AppendAccepted(appends[c]),
           WriteEntry(appends[c])
    PROVE  LET new == [entry |-> Candidate(appends[c]), sequence |-> tip.sequence + 1]
           IN  /\ new \in Item
               /\ items' = items \union {new}
               /\ tip' = [sequence |-> tip.sequence + 1,
                          event_hash |-> new.entry.event_hash,
                          etag |-> tip.etag + 1]
               /\ tip' \in Tip
               /\ \A it \in items :
                    it.entry.event.event_id # new.entry.event.event_id
<1> DEFINE new == [entry |-> Candidate(appends[c]), sequence |-> tip.sequence + 1]
<1>1. new \in Item /\ new.entry.event = appends[c].event
  BY AcceptedOnTip DEF Item
<1>2. items' = items \union {new}
  BY AcceptedOnTip DEF WriteEntry
<1>3. tip' = [sequence |-> tip.sequence + 1, event_hash |-> new.entry.event_hash,
              etag |-> tip.etag + 1]
  BY AcceptedOnTip DEF WriteEntry
<1>4. tip' \in Tip
  BY <1>3, AcceptedOnTip DEF Tip
<1>5. \A it \in items : it.entry.event.event_id # new.entry.event.event_id
  BY <1>1 DEF AppendAccepted, Stored
<1> QED  BY <1>1, <1>2, <1>3, <1>4, <1>5

\* The documents stay numbered, linked and unique.
LEMMA WrittenBatchKeepsChain ==
    ASSUME SinkInv, NEW c \in Exporters, appends[c].op = "batch", AppendAccepted(appends[c]),
           WriteEntry(appends[c])
    PROVE  Numbered' /\ Linked' /\ OneEach'
<1> DEFINE new == [entry |-> Candidate(appends[c]), sequence |-> tip.sequence + 1]
<1>1. /\ new \in Item /\ items' = items \union {new}
      /\ tip'.sequence = tip.sequence + 1
      /\ tip'.event_hash = new.entry.event_hash
      /\ \A it \in items : it.entry.event.event_id # new.entry.event.event_id
  BY WrittenBatch
<1>2. /\ tip.sequence \in Nat
      /\ new.sequence = tip.sequence + 1
      /\ new.entry.previous_hash = tip.event_hash
      /\ new.entry.event_hash =
             ComputeEventHash(new.entry.event, new.entry.previous_hash)
      /\ Len(new.entry.event_hash) = new.sequence
  BY AcceptedOnTip
<1>3. \A it \in items : it.sequence \in 1..tip.sequence
  BY DEF SinkInv, Numbered
<1> HIDE DEF new
<1>4. Numbered'
  <2>1. \A it \in items' : it.sequence \in 1..tip'.sequence
    BY <1>1, <1>2, <1>3
  <2>2. \A n \in 1..tip'.sequence : \E it \in items' : it.sequence = n
    <3> SUFFICES ASSUME NEW n \in 1..tip'.sequence
                 PROVE  \E it \in items' : it.sequence = n
      OBVIOUS
    <3>1. n \in 1..tip.sequence \/ n = new.sequence
      BY <1>1, <1>2
    <3> QED  BY <1>1, <3>1 DEF SinkInv, Numbered
  <2>3. \A a, b \in items' : a.sequence = b.sequence => a = b
    BY <1>1, <1>2, <1>3 DEF SinkInv, Numbered
  <2> QED  BY <2>1, <2>2, <2>3 DEF Numbered
<1>5. Linked'
  <2>1. /\ tip'.sequence # 0
        /\ Len(tip'.event_hash) = tip'.sequence
    BY <1>1, <1>2
  <2>2. ASSUME NEW it \in items
        PROVE  /\ it.entry.event_hash =
                      ComputeEventHash(it.entry.event, it.entry.previous_hash)
               /\ Len(it.entry.event_hash) = it.sequence
               /\ it.sequence = 1 => it.entry.previous_hash = NoPrevious
               /\ it.sequence # tip'.sequence
    BY <1>1, <1>2, <1>3 DEF SinkInv, Linked
  <2>3. new.sequence = 1 => new.entry.previous_hash = NoPrevious
    BY <1>2 DEF SinkInv, Linked
  <2>4. ASSUME NEW a \in items', NEW b \in items', b.sequence = a.sequence + 1
        PROVE  b.entry.previous_hash = a.entry.event_hash
    <3>1. CASE a \in items /\ b \in items
      BY <2>4, <3>1 DEF SinkInv, Linked
    <3>2. CASE a \in items /\ b = new
      <4>1. a.sequence = tip.sequence
        BY <1>2, <1>3, <2>4, <3>2
      <4> QED  BY <1>2, <3>2, <4>1 DEF SinkInv, Linked
    <3>3. CASE a = new
      <4>1. b.sequence = tip.sequence + 2
        BY <1>2, <2>4, <3>3
      <4> QED  BY <1>1, <1>2, <1>3, <4>1
    <3> QED  BY <1>1, <3>1, <3>2, <3>3
  <2> QED  BY <1>1, <1>2, <2>1, <2>2, <2>3, <2>4 DEF Linked
<1>6. OneEach'
  BY <1>1 DEF SinkInv, OneEach
<1> QED  BY <1>4, <1>5, <1>6

\* The chain grows by the entry that was written.
LEMMA ChainGrows ==
    ASSUME SinkInv, NEW c \in Exporters, appends[c].op = "batch", AppendAccepted(appends[c]),
           WriteEntry(appends[c]), SinkTypeOK', Numbered'
    PROVE  Chain' = Append(Chain, Candidate(appends[c]))
<1> DEFINE new == [entry |-> Candidate(appends[c]), sequence |-> tip.sequence + 1]
           longer == Append(Chain, Candidate(appends[c]))
<1>1. /\ new \in Item /\ items' = items \union {new}
      /\ tip'.sequence = tip.sequence + 1
  BY WrittenBatch
<1>2. tip.sequence \in Nat /\ Candidate(appends[c]) \in Entry
  BY AcceptedOnTip
<1>3. /\ Chain \in Seq(Entry) /\ Len(Chain) = tip.sequence
      /\ \A n \in 1..tip.sequence : Chain[n] = ItemAt(n).entry
  BY ChainIsASequence DEF SinkInv
<1>4. /\ longer \in Seq(Entry) /\ Len(longer) = tip.sequence + 1
      /\ \A n \in 1..tip.sequence : longer[n] = Chain[n]
      /\ longer[tip.sequence + 1] = Candidate(appends[c])
  BY <1>2, <1>3, AppendProperties
<1>5. /\ \A it \in items : ItemAt(it.sequence) = it
      /\ \A n \in 1..tip.sequence : ItemAt(n) \in items /\ ItemAt(n).sequence = n
  BY ItemAtNumber DEF SinkInv
<1>6. \A it \in items' : ItemAt(it.sequence)' = it
  BY DEF Numbered, ItemAt
<1>7. \A n \in 1..tip.sequence : ItemAt(n)' = ItemAt(n)
  BY <1>1, <1>5, <1>6
<1>8. \A n : n = tip.sequence + 1 => ItemAt(n)' = new
  <2>1. new \in items' /\ new.sequence = tip.sequence + 1
    BY <1>1
  <2> HIDE DEF new
  <2> QED  BY <1>6, <2>1
<1>9. Chain' = [n \in 1..(tip.sequence + 1) |-> ItemAt(n)'.entry]
  BY <1>1 DEF Chain
<1>10. longer = [n \in 1..(tip.sequence + 1) |-> longer[n]]
  BY <1>4, LenProperties
<1>11. ASSUME NEW n \in 1..(tip.sequence + 1)
       PROVE  ItemAt(n)'.entry = longer[n]
  <2>1. CASE n \in 1..tip.sequence
    BY <1>3, <1>4, <1>7, <2>1
  <2>2. CASE n = tip.sequence + 1
    BY <1>4, <1>8, <2>2
  <2>3. n \in 1..tip.sequence \/ n = tip.sequence + 1
    BY <1>2
  <2> QED  BY <2>1, <2>2, <2>3
<1> HIDE DEF longer
<1>12. Chain' = longer
  BY <1>9, <1>10, <1>11
<1> QED  BY <1>12 DEF longer

\* An accepted batch is an append of the log, answered or not.
LEMMA AcceptedStep ==
    ASSUME SinkInv, NEW c \in Exporters, appends[c].op = "batch", AppendAccepted(appends[c]),
           WriteEntry(appends[c]),
           \/ exported' = exported \union {Candidate(appends[c])}
           \/ UNCHANGED exported,
           EndAppend(c) \/ appends' = [appends EXCEPT ![c].op = "read_stored"]
    PROVE  SinkInv' /\ Reference!AppendEvent(appends[c].event)
<1> DEFINE event == appends[c].event
           entry == Candidate(appends[c])
           new == [entry |-> entry, sequence |-> tip.sequence + 1]
<1>1. /\ appends[c] \in Call /\ event \in AuditEvents /\ entry \in Entry
      /\ entry = [event |-> event, previous_hash |-> tip.event_hash,
                  event_hash |-> ComputeEventHash(event, tip.event_hash)]
      /\ tip.etag \in Nat
  BY AcceptedOnTip DEF Candidate
<1>2. /\ new \in Item /\ items' = items \union {new}
      /\ tip' \in Tip /\ tip'.etag = tip.etag + 1
  BY WrittenBatch
<1>3. PICK call \in AnyAppend :
          appends' = [appends EXCEPT ![c] = call] /\ call.op # "batch"
  <2>1. CASE EndAppend(c)
    <3>1. NoAppend \in AnyAppend /\ NoAppend.op # "batch"
      BY DEF AnyAppend, NoAppend
    <3> QED  BY <2>1, <3>1 DEF EndAppend
  <2>2. CASE appends' = [appends EXCEPT ![c].op = "read_stored"]
    <3> DEFINE call == [appends[c] EXCEPT !.op = "read_stored"]
    <3>1. call \in AnyAppend /\ call.op # "batch"
      BY <1>1 DEF AnyAppend, Call
    <3>2. appends' = [appends EXCEPT ![c] = call]
      BY <2>2
    <3> QED  BY <3>1, <3>2
  <2> QED  BY <2>1, <2>2
<1>4. /\ appends' \in [Exporters -> {NoAppend} \union Call]
      /\ appends'[c] = call
      /\ \A b \in Exporters \ {c} : appends'[b] = appends[b]
  BY <1>3, NewCall DEF SinkInv
<1>5. SinkTypeOK'
  BY <1>1, <1>2, <1>4 DEF SinkInv, SinkTypeOK
<1>6. ASSUME NEW b \in Exporters PROVE TipIsCurrent(b)'
  <2>1. CASE b = c
    BY <1>3, <1>4, <2>1 DEF TipIsCurrent
  <2>2. CASE b # c
    <3> SUFFICES ASSUME appends[b].op = "batch"
                 PROVE  /\ appends[b].tip.etag <= tip'.etag
                        /\ appends[b].tip.etag # tip'.etag
      BY <1>4, <2>2 DEF TipIsCurrent
    <3>1. appends[b] \in Call
      BY AppendKinds DEF SinkInv, SinkTypeOK, AnyAppend
    <3>2. appends[b].tip.etag \in Nat
      BY <3>1 DEF Call, Tip
    <3>3. appends[b].tip.etag <= tip.etag
      BY DEF SinkInv, TipIsCurrent
    <3> QED  BY <1>1, <1>2, <3>2, <3>3
  <2> QED  BY <2>1, <2>2
<1>7. Numbered' /\ Linked' /\ OneEach'
  BY WrittenBatchKeepsChain
<1>8. AnsweredFromStore'
  BY <1>2 DEF SinkInv, AnsweredFromStore
<1>9. SinkInv'
  BY <1>5, <1>6, <1>7, <1>8 DEF SinkInv
<1>10. Chain' = Append(Chain, entry)
  BY <1>5, <1>7, ChainGrows
<1>11. Reference!Stored(event) = {}
  BY <1>1, StoredInChain DEF AppendAccepted
<1>12. entry = [event |-> event, previous_hash |-> Reference!LastHash,
                event_hash |-> Reference!ComputeEventHash(event, Reference!LastHash)]
  BY <1>1, ChainEndsAtTip DEF ComputeEventHash, Reference!ComputeEventHash
<1>13. Reference!Deliver(entry)
  BY DEF Reference!Deliver
<1> HIDE DEF entry, event
<1>14. Reference!AppendEvent(event)
  BY <1>10, <1>11, <1>12, <1>13 DEF Reference!AppendEvent
<1> QED  BY <1>9, <1>14 DEF event

\* Finding the event stored is a replay of the log, or no step when the stored
\* content is another.
LEMMA FoundStep ==
    ASSUME SinkInv, NEW c \in Exporters, appends[c].op = "read_stored",
           NEW it \in Stored(appends[c].event),
           exported' = IF it.entry.event = appends[c].event
                       THEN exported \union {it.entry} ELSE exported,
           EndAppend(c), UNCHANGED <<tip, items>>
    PROVE  SinkInv' /\ [Reference!Next]_(Reference!vars)
<1>1. appends[c] \in Call /\ appends[c].event \in AuditEvents
  BY AppendKinds DEF SinkInv, SinkTypeOK, AnyAppend, Call
<1>2. it \in items
  BY DEF Stored
<1>3. CASE it.entry.event # appends[c].event
  BY <1>3, ReturnStep
<1>4. CASE it.entry.event = appends[c].event
  <2>1. exported' = exported \union {it.entry}
    BY <1>4
  <2>2. /\ appends' \in [Exporters -> {NoAppend} \union Call]
        /\ appends'[c] = NoAppend
        /\ \A b \in Exporters \ {c} : appends'[b] = appends[b]
    <3>1. NoAppend \in AnyAppend
      BY DEF AnyAppend
    <3> QED  BY <3>1, NewCall DEF SinkInv, EndAppend
  <2>3. SinkTypeOK'
    BY <1>2, <2>1, <2>2 DEF SinkInv, SinkTypeOK, Item
  <2>4. \A b \in Exporters : TipIsCurrent(b)'
    BY <2>2 DEF SinkInv, TipIsCurrent, NoAppend
  <2>5. (Numbered /\ Linked /\ OneEach)'
    BY DEF SinkInv, Numbered, Linked, OneEach
  <2>6. AnsweredFromStore'
    BY <1>2, <2>1 DEF SinkInv, AnsweredFromStore
  <2>7. SinkInv'
    BY <2>3, <2>4, <2>5, <2>6 DEF SinkInv
  <2>8. /\ it.sequence \in Reference!Stored(appends[c].event)
        /\ Chain[it.sequence] = it.entry
    BY <1>1, StoredInChain
  <2>9. Chain' = Chain
    BY DEF Chain, ItemAt
  <2>10. Reference!Replayed(appends[c].event)
    BY <1>4, <2>1, <2>8, <2>9 DEF Reference!Replayed, Reference!Deliver
  <2> QED  BY <1>1, <2>7, <2>10 DEF Reference!Next
<1> QED  BY <1>3, <1>4

\* Looking for the event after a refused batch.
LEMMA ReadStoredStep ==
    ASSUME SinkInv, NEW c \in Exporters, ReadStored(c)
    PROVE  SinkInv' /\ [Reference!Next]_(Reference!vars)
<1>1. appends[c].op = "read_stored" /\ UNCHANGED <<tip, items>>
  BY DEF ReadStored
<1>2. CASE /\ \E it \in Stored(appends[c].event) :
                 exported' = IF it.entry.event = appends[c].event
                             THEN exported \union {it.entry} ELSE exported
           /\ EndAppend(c)
  BY <1>1, <1>2, FoundStep
<1>3. CASE /\ appends[c].attempt < MaxTipAttempts
           /\ appends' = [appends EXCEPT ![c].op = "read_tip", ![c].attempt = @ + 1]
           /\ UNCHANGED exported
  <2> DEFINE call == [appends[c] EXCEPT !.op = "read_tip", !.attempt = @ + 1]
  <2>1. appends[c] \in Call
    BY <1>1, AppendKinds DEF SinkInv, SinkTypeOK, AnyAppend
  <2>2. appends[c].attempt + 1 \in 1..MaxTipAttempts
    BY <1>3, <2>1, CosmosAuditConstants DEF Call
  <2>3. call \in AnyAppend /\ call.op # "batch"
    BY <2>1, <2>2 DEF AnyAppend, Call
  <2>4. appends' = [appends EXCEPT ![c] = call]
    BY <1>3, <2>1 DEF Call
  <2> HIDE DEF call
  <2> QED  BY <1>1, <1>3, <2>3, <2>4, TipReadingStep
<1>4. CASE EndAppend(c) /\ UNCHANGED exported
  BY <1>1, <1>4, ReturnStep
<1> QED  BY <1>2, <1>3, <1>4 DEF ReadStored

\* A batch, accepted or refused.
LEMMA AppendBatchStep ==
    ASSUME SinkInv, NEW c \in Exporters, AppendBatch(c)
    PROVE  SinkInv' /\ [Reference!Next]_(Reference!vars)
<1>1. appends[c].op = "batch"
  BY DEF AppendBatch
<1>2. CASE AppendAccepted(appends[c]) /\ WriteEntry(appends[c])
  <2>1. /\ \/ exported' = exported \union {Candidate(appends[c])}
           \/ UNCHANGED exported
        /\ EndAppend(c) \/ appends' = [appends EXCEPT ![c].op = "read_stored"]
    <3>1. items' # items
      <4> DEFINE new == [entry |-> Candidate(appends[c]), sequence |-> tip.sequence + 1]
      <4>1. /\ new \in items'
            /\ \A it \in items : it.entry.event.event_id # new.entry.event.event_id
        BY <1>1, <1>2, WrittenBatch
      <4> HIDE DEF new
      <4> QED  BY <4>1
    <3> QED  BY <3>1 DEF AppendBatch
  <2>2. SinkInv' /\ Reference!AppendEvent(appends[c].event)
    BY <1>1, <1>2, <2>1, AcceptedStep
  <2>3. appends[c].event \in AuditEvents
    BY <1>1, <1>2, AcceptedOnTip
  <2> QED  BY <2>2, <2>3 DEF Reference!Next
<1>3. CASE /\ appends' = [appends EXCEPT ![c].op = "read_stored"]
           /\ UNCHANGED <<tip, items, exported>>
  BY <1>1, <1>3, RefusedStep
<1> QED  BY <1>2, <1>3 DEF AppendBatch

\* The empty container is the empty log.
LEMMA InitSinkStep == InitSink => SinkInv /\ Reference!Init
<1> SUFFICES ASSUME InitSink PROVE SinkInv /\ Reference!Init
  OBVIOUS
<1>1. SinkTypeOK
  BY EmptySeq DEF InitSink, SinkTypeOK, NoTip, Tip, NoPrevious
<1>2. \A c \in Exporters : TipIsCurrent(c)
  BY DEF InitSink, TipIsCurrent, NoAppend
<1>3. Numbered /\ OneEach /\ AnsweredFromStore
  BY DEF InitSink, Numbered, OneEach, AnsweredFromStore, NoTip
<1>4. Linked
  BY EmptySeq DEF InitSink, Linked, NoTip, NoPrevious
<1>5. Chain = <<>>
  <2>1. Chain \in Seq(Entry) /\ Len(Chain) = 0
    BY <1>1, <1>3, ChainIsASequence DEF InitSink, NoTip
  <2> QED  BY <2>1, EmptySeq
<1> QED  BY <1>1, <1>2, <1>3, <1>4, <1>5 DEF InitSink, SinkInv, Reference!Init

\* Every request preserves the invariant and is a step of the log or none.
LEMMA NextSinkStep ==
    SinkInv /\ [NextSink]_sinkVars => SinkInv' /\ [Reference!Next]_(Reference!vars)
<1> SUFFICES ASSUME SinkInv, [NextSink]_sinkVars
             PROVE  SinkInv' /\ [Reference!Next]_(Reference!vars)
  OBVIOUS
<1>1. CASE UNCHANGED sinkVars
  BY <1>1, SilentAppend
     DEF sinkVars, SinkInv, SinkTypeOK, TipIsCurrent, Numbered, Linked, OneEach, AnsweredFromStore
<1>2. CASE NextSink
  <2>1. PICK c \in Exporters :
            \/ \E event \in AuditEvents : BeginAppend(c, event)
            \/ ReadTip(c) \/ AppendBatch(c) \/ ReadStored(c) \/ ExporterDies(c)
    BY <1>2 DEF NextSink
  <2>2. CASE ExporterDies(c)
    BY <2>2, ReturnStep DEF ExporterDies
  <2> QED
    BY <2>1, <2>2, BeginAppendStep, ReadTipStep, AppendBatchStep, ReadStoredStep
<1> QED  BY <1>1, <1>2

-----------------------------------------------------------------------------

\* Every reachable state of the sink satisfies its invariant.
THEOREM SinkInvariant == SinkSpec => []SinkInv
<1>1. InitSink => SinkInv
  BY InitSinkStep
<1>2. SinkInv /\ [NextSink]_sinkVars => SinkInv'
  BY NextSinkStep
<1> QED  BY <1>1, <1>2, PTL DEF SinkSpec

\* The tip, documents, calls and answers always have their types.
THEOREM SinkTypeCorrect == SinkSpec => []SinkTypeOK
  BY SinkInvariant, PTL DEF SinkInv

\* The sink implements the log whose append holds a write lock: whatever
\* exporters race, die or lose their answers, every accepted batch is one
\* append at the end of the one chain.
THEOREM SinkImplementation == SinkSpec => ImplementsAuditLog
<1>1. InitSink => Reference!Init
  BY InitSinkStep
<1>2. SinkInv /\ [NextSink]_sinkVars => [Reference!Next]_(Reference!vars)
  BY NextSinkStep
<1> QED
  BY <1>1, <1>2, SinkInvariant, PTL DEF SinkSpec, ImplementsAuditLog, Reference!Spec

\* verify_chain succeeds in every reachable state, no event is in the chain
\* twice, and every entry an exporter was given is where its hash says.
THEOREM ChainAlwaysVerifies == SinkSpec => []ChainVerifies
<1>1. SinkInv => ChainVerifies
  <2> SUFFICES ASSUME SinkInv PROVE Reference!ExportedAreChained
    BY DEF ChainVerifies
  <2>1. /\ DOMAIN Chain = 1..tip.sequence /\ tip.sequence \in Nat
        /\ \A n \in 1..tip.sequence : Chain[n] = ItemAt(n).entry
    BY ChainIsASequence DEF SinkInv, SinkTypeOK, Tip
  <2>2. /\ \A it \in items : ItemAt(it.sequence) = it
        /\ \A n \in 1..tip.sequence : ItemAt(n) \in items /\ ItemAt(n).sequence = n
    BY ItemAtNumber DEF SinkInv
  <2>3. Reference!VerifyChain
    <3> SUFFICES ASSUME NEW i \in 1..tip.sequence
                 PROVE  /\ Chain[i].previous_hash = IF i = 1 THEN NoPrevious
                                                    ELSE Chain[i - 1].event_hash
                        /\ Chain[i].event_hash = ComputeEventHash(Chain[i].event,
                                                     Chain[i].previous_hash)
      BY <2>1 DEF Reference!VerifyChain, NoPrevious, Reference!NoPrevious,
                  ComputeEventHash, Reference!ComputeEventHash
    <3>1. ItemAt(i) \in items /\ ItemAt(i).sequence = i /\ Chain[i] = ItemAt(i).entry
      BY <2>1, <2>2
    <3>2. CASE i = 1
      BY <3>1, <3>2 DEF SinkInv, Linked
    <3>3. CASE i # 1
      <4>1. i - 1 \in 1..tip.sequence /\ i = (i - 1) + 1
        BY <2>1, <3>3
      <4>2. /\ ItemAt(i - 1) \in items /\ ItemAt(i - 1).sequence = i - 1
            /\ Chain[i - 1] = ItemAt(i - 1).entry
        BY <2>1, <2>2, <4>1
      <4> QED  BY <3>1, <3>3, <4>1, <4>2 DEF SinkInv, Linked
    <3> QED  BY <3>2, <3>3
  <2>4. ASSUME NEW x \in exported
        PROVE  Len(x.event_hash) \in DOMAIN Chain /\ Chain[Len(x.event_hash)] = x
    <3>1. PICK it \in items : it.entry = x
      BY DEF SinkInv, AnsweredFromStore
    <3>2. Len(x.event_hash) = it.sequence /\ it.sequence \in 1..tip.sequence
      BY <3>1 DEF SinkInv, Linked, Numbered
    <3> QED  BY <2>1, <2>2, <3>1, <3>2
  <2>5. ASSUME NEW i \in DOMAIN Chain, NEW j \in DOMAIN Chain,
               Chain[i].event.event_id = Chain[j].event.event_id
        PROVE  i = j
    BY <2>1, <2>2, <2>5 DEF SinkInv, OneEach
  <2> QED  BY <2>3, <2>4, <2>5 DEF Reference!ExportedAreChained
<1> QED  BY <1>1, SinkInvariant, PTL

=============================================================================
