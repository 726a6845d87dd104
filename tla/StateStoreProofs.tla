-------------------------- MODULE StateStoreProofs --------------------------
(***************************************************************************)
(* What StateStore promises, for every set of workflows, events and        *)
(* records and every bound on the versions.                                *)
(*                                                                         *)
(* None of the safety properties is inductive on its own: that a commit    *)
(* never reuses a version, and that it continues the history, rests on     *)
(* every receipt lying at or behind the version of the record, and on the  *)
(* record being the receipt's snapshot when it lies at that version.       *)
(***************************************************************************)
EXTENDS StateStore, TLAPS

\* Every receipt lies at or behind its workflow's version, and a receipt at
\* that version is the record.
ReceiptsBehindRecord ==
    \A r \in receipts :
        LET current == workflows[r.event.workflow_id]
        IN  /\ 0 < r.record.version
            /\ r.record.version <= current.version
            /\ r.record.version = current.version => r.record = current

\* The (workflow_id, idempotency_key) primary key of the receipts.
KeysUnique ==
    \A r, s \in receipts :
        /\ r.event.workflow_id = s.event.workflow_id
        /\ r.event.idempotency_key = s.event.idempotency_key
        => r = s

\* An answer is the snapshot of a receipt.
AnswersReceipted ==
    \A a \in answers : [event |-> a.event, record |-> a.record] \in receipts

Inv ==
    /\ TypeOK
    /\ ReceiptsBehindRecord
    /\ KeysUnique
    /\ AnswersReceipted
    /\ OneReceiptPerVersion
    /\ ReceiptsFormAHistory

-----------------------------------------------------------------------------
(* The contract *)

\* A terminal status has no successor in the transition table.
LEMMA TerminalHasNoSuccessor == \A s \in Terminal : AllowedTransitions[s] = {}
  BY DEF Terminal, AllowedTransitions, Statuses, WorkflowStatus, NoStatus

\* apply_to maps a record to a record.
LEMMA ApplyToType ==
    ASSUME NEW e \in WorkflowLifecycleEvent, NEW r \in WorkflowRecord
    PROVE  ApplyTo(e, r) \in WorkflowRecord
  BY DEF ApplyTo, WorkflowRecord, WorkflowLifecycleEvent, Statuses

\* An event that applies to an existing record starts from its status, names
\* its version, and is not the step of a finished workflow.
LEMMA AppliesToExisting ==
    ASSUME NEW e \in WorkflowLifecycleEvent, NEW r \in WorkflowRecord,
           Validate(e), ExpectedHolds(r, e.expected_version), CanApply(e, r),
           r.version # 0
    PROVE  /\ e.from_status = r.status
           /\ e.expected_version = r.version
           /\ e.scope = r.scope
           /\ r.status \notin Terminal
  BY TerminalHasNoSuccessor
     DEF Validate, ExpectedHolds, CanApply, WorkflowLifecycleEvent

-----------------------------------------------------------------------------
(* The invariant *)

\* The empty store satisfies the invariant.
LEMMA InitInv == Init => Inv
  BY DEF Init, Inv, TypeOK, ReceiptsBehindRecord, KeysUnique, AnswersReceipted,
         OneReceiptPerVersion, ReceiptsFormAHistory, NoRecord, WorkflowRecord,
         Statuses

\* A commit: the new receipt is alone at its version and continues the
\* history.
LEMMA CommitInv ==
    ASSUME Inv, NEW e \in Events, CommitTransition(e)
    PROVE  Inv'
<1> DEFINE w == e.workflow_id
           current == workflows[w]
           stored == ApplyTo(e, current)
           new == [event |-> e, record |-> stored]
<1>1. /\ e \in WorkflowLifecycleEvent /\ w \in WorkflowIds
      /\ current \in WorkflowRecord /\ current.version \in Nat
  BY StateStoreConstants DEF Inv, TypeOK, WorkflowLifecycleEvent, WorkflowRecord
<1>2. /\ stored \in WorkflowRecord
      /\ stored.version = current.version + 1
      /\ stored.scope = e.scope
  BY <1>1, ApplyToType DEF ApplyTo
<1>3. /\ workflows' = [workflows EXCEPT ![w] = stored]
      /\ receipts' = receipts \union {new}
      /\ \/ answers' = answers \union {[event |-> e, record |-> stored,
                                        replayed |-> FALSE]}
         \/ answers' = answers
  BY DEF CommitTransition, Deliver
<1>4. TypeOK'
  <2>1. new \in Receipt
    BY <1>2 DEF Receipt
  <2>2. [event |-> e, record |-> stored, replayed |-> FALSE] \in Answer
    BY <1>2 DEF Answer
  <2>3. workflows' \in [WorkflowIds -> WorkflowRecord]
    BY <1>1, <1>2, <1>3 DEF Inv, TypeOK
  <2> HIDE DEF new, stored
  <2> QED  BY <1>3, <2>1, <2>2, <2>3 DEF Inv, TypeOK
<1>5. \A r \in receipts : r.event.workflow_id = w => r.record.version <= current.version
  BY DEF Inv, ReceiptsBehindRecord
<1>6. \A r \in receipts : r.record.version \in Nat
  BY DEF Inv, TypeOK, Receipt, WorkflowRecord
<1>7. ReceiptsBehindRecord'
  <2> SUFFICES ASSUME NEW r \in receipts'
               PROVE  LET c == workflows'[r.event.workflow_id]
                      IN  /\ 0 < r.record.version
                          /\ r.record.version <= c.version
                          /\ r.record.version = c.version => r.record = c
    BY DEF ReceiptsBehindRecord
  <2>1. CASE r = new
    BY <1>1, <1>2, <1>3, <2>1 DEF Inv, TypeOK
  <2>2. CASE r \in receipts /\ r.event.workflow_id = w
    BY <1>1, <1>2, <1>3, <1>5, <1>6, <2>2 DEF Inv, TypeOK, ReceiptsBehindRecord
  <2>3. CASE r \in receipts /\ r.event.workflow_id # w
    <3>1. workflows'[r.event.workflow_id] = workflows[r.event.workflow_id]
      BY <1>3, <2>3 DEF Inv, TypeOK
    <3> QED  BY <2>3, <3>1 DEF Inv, ReceiptsBehindRecord
  <2> QED  BY <1>3, <2>1, <2>2, <2>3
<1>8. KeysUnique'
  <2>1. \A r \in receipts : ~ /\ r.event.workflow_id = new.event.workflow_id
                              /\ r.event.idempotency_key = new.event.idempotency_key
    BY DEF CommitTransition, ReceiptsFor
  <2> HIDE DEF new
  <2> QED  BY <1>3, <2>1 DEF Inv, KeysUnique
<1>9. AnswersReceipted'
  <2> DEFINE answer == [event |-> e, record |-> stored, replayed |-> FALSE]
  <2>1. [event |-> answer.event, record |-> answer.record] = new
    OBVIOUS
  <2>2. answers' = answers \union {answer} \/ answers' = answers
    BY <1>3
  <2> HIDE DEF answer, new
  <2> QED  BY <1>3, <2>1, <2>2 DEF Inv, AnswersReceipted
<1>10. OneReceiptPerVersion'
  BY <1>1, <1>2, <1>3, <1>5, <1>6 DEF Inv, OneReceiptPerVersion
<1>11. ReceiptsFormAHistory'
  <2> SUFFICES ASSUME NEW r \in receipts', NEW s \in receipts',
                      r.event.workflow_id = s.event.workflow_id,
                      s.record.version = r.record.version + 1
               PROVE  /\ s.event.from_status = r.record.status
                      /\ s.event.expected_version = r.record.version
                      /\ s.record.scope = r.record.scope
                      /\ r.record.status \notin Terminal
    BY DEF ReceiptsFormAHistory
  <2>1. CASE r \in receipts /\ s \in receipts
    BY <2>1 DEF Inv, ReceiptsFormAHistory
  <2>2. CASE r \in receipts /\ s = new
    <3>1. r.record.version = current.version
      BY <1>1, <1>2, <1>6, <2>2
    <3>2. r.record = current /\ current.version # 0
      BY <1>1, <1>6, <2>2, <3>1 DEF Inv, ReceiptsBehindRecord
    <3> QED
      BY <1>1, <1>2, <2>2, <3>2, AppliesToExisting DEF CommitTransition
  <2>3. CASE r = new
    BY <1>1, <1>2, <1>3, <1>5, <1>6, <2>3
  <2> QED  BY <1>3, <2>1, <2>2, <2>3
<1> QED  BY <1>4, <1>7, <1>8, <1>9, <1>10, <1>11 DEF Inv

\* A replay answers from the one receipt of its key.
LEMMA ReplayInv ==
    ASSUME Inv, NEW e \in Events, ReplayedTransition(e)
    PROVE  Inv'
<1>1. PICK r \in receipts : /\ r.event = e
                            /\ \/ answers' = answers \union
                                    {[event |-> e, record |-> r.record,
                                      replayed |-> TRUE]}
                               \/ answers' = answers
  BY DEF ReplayedTransition, ReceiptsFor, Deliver
<1>2. UNCHANGED <<workflows, receipts>>
  BY DEF ReplayedTransition
<1>3. r = [event |-> e, record |-> r.record] /\ r.record \in WorkflowRecord
  BY <1>1 DEF Inv, TypeOK, Receipt
<1> DEFINE answer == [event |-> e, record |-> r.record, replayed |-> TRUE]
<1>4. answer \in Answer /\ [event |-> answer.event, record |-> answer.record] = r
  BY <1>3 DEF Answer
<1>5. answers' = answers \union {answer} \/ answers' = answers
  BY <1>1
<1> HIDE DEF answer
<1>6. TypeOK'
  BY <1>2, <1>4, <1>5 DEF Inv, TypeOK
<1>7. AnswersReceipted'
  BY <1>1, <1>2, <1>4, <1>5 DEF Inv, AnswersReceipted
<1> QED
  BY <1>2, <1>6, <1>7 DEF Inv, ReceiptsBehindRecord, KeysUnique,
     OneReceiptPerVersion, ReceiptsFormAHistory

\* put_workflow moves the record ahead of every receipt.
LEMMA PutInv ==
    ASSUME Inv, NEW w \in WorkflowIds, NEW record \in PutRecords,
           NEW expected \in 0..MaxVersion, PutWorkflow(w, record, expected)
    PROVE  Inv'
<1> DEFINE stored == [record EXCEPT !.version = workflows[w].version + 1]
<1>1. /\ workflows' = [workflows EXCEPT ![w] = stored]
      /\ UNCHANGED <<receipts, answers>>
  BY DEF PutWorkflow
<1>2. /\ workflows[w].version \in Nat
      /\ stored \in WorkflowRecord
      /\ stored.version = workflows[w].version + 1
  BY StateStoreConstants DEF Inv, TypeOK, WorkflowRecord
<1>3. TypeOK'
  BY <1>1, <1>2 DEF Inv, TypeOK
<1>4. ReceiptsBehindRecord'
  <2> SUFFICES ASSUME NEW r \in receipts
               PROVE  LET c == workflows'[r.event.workflow_id]
                      IN  /\ 0 < r.record.version
                          /\ r.record.version <= c.version
                          /\ r.record.version = c.version => r.record = c
    BY <1>1 DEF ReceiptsBehindRecord
  <2>1. r.record.version \in Nat
    BY DEF Inv, TypeOK, Receipt, WorkflowRecord
  <2>2. CASE r.event.workflow_id = w
    BY <1>1, <1>2, <2>1, <2>2 DEF Inv, TypeOK, ReceiptsBehindRecord
  <2>3. CASE r.event.workflow_id # w
    <3>1. workflows'[r.event.workflow_id] = workflows[r.event.workflow_id]
      BY <1>1, <2>3 DEF Inv, TypeOK
    <3> QED  BY <3>1 DEF Inv, ReceiptsBehindRecord
  <2> QED  BY <2>2, <2>3
<1> QED
  BY <1>1, <1>3, <1>4 DEF Inv, KeysUnique, AnswersReceipted,
     OneReceiptPerVersion, ReceiptsFormAHistory

\* Every outcome of apply_workflow_event and put_workflow preserves it.
LEMMA NextInv == Inv /\ [Next]_vars => Inv'
<1> SUFFICES ASSUME Inv, [Next]_vars PROVE Inv'
  OBVIOUS
<1>1. CASE \E e \in Events : CommitTransition(e)
  BY <1>1, CommitInv
<1>2. CASE \E e \in Events : ReplayedTransition(e)
  BY <1>2, ReplayInv
<1>3. CASE \E w \in WorkflowIds, record \in PutRecords, expected \in 0..MaxVersion :
               PutWorkflow(w, record, expected)
  BY <1>3, PutInv
<1>4. CASE UNCHANGED vars
  BY <1>4 DEF vars, Inv, TypeOK, ReceiptsBehindRecord, KeysUnique,
     AnswersReceipted, OneReceiptPerVersion, ReceiptsFormAHistory
<1> QED  BY <1>1, <1>2, <1>3, <1>4 DEF Next

\* Every reachable state of the store satisfies the invariant.
THEOREM StoreInvariant == Spec => []Inv
<1>1. Init => Inv
  BY InitInv
<1>2. Inv /\ [Next]_vars => Inv'
  BY NextInv
<1> QED  BY <1>1, <1>2, PTL DEF Spec

\* The records, receipts and answers always have their types.
THEOREM TypeCorrect == Spec => []TypeOK
  BY StoreInvariant, PTL DEF Inv

\* No lost update: two transitions of a workflow never share a version,
\* however many writers apply_workflow_event and put_workflow serve.
THEOREM NoLostUpdate == Spec => []OneReceiptPerVersion
  BY StoreInvariant, PTL DEF Inv

\* The receipts of a workflow are steps of the transition table that follow
\* one another, also when put_workflow has written between them.
THEOREM History == Spec => []ReceiptsFormAHistory
  BY StoreInvariant, PTL DEF Inv

\* The key of an event has one receipt, so its answers are that receipt's.
LEMMA InvAnswersAgree == Inv => AnswersAgree
<1> SUFFICES ASSUME Inv, NEW a \in answers, NEW b \in answers, b.event = a.event
             PROVE  b.record = a.record
  BY DEF Inv, AnswersAgree, AnswersReceipted
<1> DEFINE r == [event |-> a.event, record |-> a.record]
           s == [event |-> b.event, record |-> b.record]
<1>1. r \in receipts /\ s \in receipts
  BY DEF Inv, AnswersReceipted
<1>2. r = s
  BY <1>1 DEF Inv, KeysUnique
<1>3. r.record = s.record
  BY <1>2
<1> QED  BY <1>3

\* Every answer for an event, first or replayed, is the one snapshot its
\* commit produced.
THEOREM ReplaysAgree == Spec => []AnswersAgree
  BY InvAnswersAgree, StoreInvariant, PTL

\* A version never falls, never jumps and never changes its content, and a
\* receipt is never lost.
THEOREM VersionsOnlyAdvance == Spec => VersionsAdvance
<1>1. TypeOK /\ [Next]_vars =>
        [/\ \A w \in WorkflowIds :
              workflows'[w].version \in {workflows[w].version,
                                         workflows[w].version + 1}
         /\ receipts \subseteq receipts'
         /\ \A w \in WorkflowIds :
              workflows'[w].version = workflows[w].version
                  => workflows'[w] = workflows[w]]_vars
  <2> SUFFICES ASSUME TypeOK, [Next]_vars
               PROVE  /\ receipts \subseteq receipts'
                      /\ \A w \in WorkflowIds :
                          \/ workflows'[w] = workflows[w]
                          \/ workflows'[w].version = workflows[w].version + 1
    BY DEF TypeOK, WorkflowRecord
  <2>1. ASSUME NEW e \in Events, CommitTransition(e)
        PROVE  /\ receipts \subseteq receipts'
               /\ \A w \in WorkflowIds :
                   \/ workflows'[w] = workflows[w]
                   \/ workflows'[w].version = workflows[w].version + 1
    BY <2>1 DEF CommitTransition, ApplyTo, TypeOK
  <2>2. ASSUME NEW v \in WorkflowIds, NEW record \in PutRecords,
               NEW expected \in 0..MaxVersion, PutWorkflow(v, record, expected)
        PROVE  \A w \in WorkflowIds :
                   \/ workflows'[w] = workflows[w]
                   \/ workflows'[w].version = workflows[w].version + 1
    BY <2>2, StateStoreConstants DEF PutWorkflow, TypeOK, WorkflowRecord
  <2> QED
    BY <2>1, <2>2 DEF Next, ReplayedTransition, PutWorkflow, vars
<1> QED  BY <1>1, TypeCorrect, PTL DEF Spec, VersionsAdvance

=============================================================================
