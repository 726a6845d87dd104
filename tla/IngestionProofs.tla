--------------------------- MODULE IngestionProofs ---------------------------
(***************************************************************************)
(* What ingestion promises, for every set of documents, revisions,         *)
(* contents and access lists, every wiring and every bound: the catalog,   *)
(* the evidence, the edges and the ledger tell the truth about whatever is *)
(* not under way, though a job may stop after any of its calls and a later *)
(* one takes up the document again.                                        *)
(*                                                                         *)
(* None of the four is inductive: each is about documents no change of     *)
(* which is unfinished, and a step in the middle of a job breaks and mends *)
(* what they say. IngestionInv adds, in five parts:                        *)
(*   StoresInv  what evidence, edges, journal, index and catalog say of    *)
(*              each other, the marks of unfinished changes allowed for    *)
(*              (the journal is written last, so a projection that was     *)
(*              interrupted leaves evidence only under its mark);          *)
(*   JobInv     the calls still to be made are in order, each fits the     *)
(*              change it is made for, and what the calls before it did is *)
(*              there (BeforeJournal, AfterJournal);                       *)
(*   WorldInv   the source, its head and the worker's checkout;            *)
(*   EventsInv  every change, mark and dead letter comes from an event that *)
(*              was sent, and an id stands for one event;                  *)
(*   LedgerInv  a completed event has no unfinished change and no dead     *)
(*              letter; the marks of the event at work are those of the    *)
(*              changes it still has to make.                              *)
(* The changes of an event that were never begun leave no mark in the      *)
(* stores: OwedInv says of them what LedgerInv says of the unfinished      *)
(* ones, and is preserved wherever IngestionInv holds.                     *)
(***************************************************************************)
EXTENDS Ingestion, SequenceTheorems, FiniteSetTheorems, TLAPS

-----------------------------------------------------------------------------
(* The records *)

Life == {"active", "deleted"}
EvidenceRecord == [state : Life, held : BOOLEAN, acl : Acls]
EdgeRecord == [state : Life, held : BOOLEAN, support : SUBSET EvidenceId]
Projection ==
    [state : Life, doc : Documents, revision : Revisions, acl : Acls,
     event : EventId \union {Nothing}, entity : EntityKey, evidence : EvidenceId,
     edges : SUBSET EdgeKey]
EmptyProjection ==
    [state : {"deleted"}, doc : Documents, revision : Nat, acl : {Nothing},
     event : EventId \union {Nothing}, entity : {Nothing}, evidence : {Nothing}, edges : {{}}]

ChangeRecord ==
    [type : {"upsert", "delete"}, doc : Documents, content : Contents \union {Nothing},
     revision : Nat, acl : Acls \union {Nothing}, event : EventId \union {Nothing}]
EventRecord == [id : EventId, changes : Seq(ChangeRecord)]

CallRecord ==
    [op : {"put-entity", "retire-entity"}, key : EntityKey]
        \union [op : {"put-evidence"}, key : EvidenceId, acl : Acls]
        \union [op : {"edge"}, key : EdgeKey, support : SUBSET EvidenceId]
        \union [op : {"retire-evidence"}, key : EvidenceId]
        \union [op : {"journal"}, key : Documents, projection : Projection \union EmptyProjection]
        \union [op : {"catalog"}, key : Documents, change : ChangeRecord]
        \union [op : {"next"}, change : ChangeRecord]

JobRecord ==
    [kind : {"event"}, event : EventRecord, changes : Seq(ChangeRecord), calls : Seq(CallRecord)]
        \union [kind : {"reconcile", "knowledge"}, changes : Seq(ChangeRecord),
                calls : Seq(CallRecord)]

\* The edges that evidence e supports.
EdgesFor(e) == {OwnEdge(e[1], e[2]), SharedEdge(Kind, e[1])}

\* A journal entry of document d: a projection, or the tombstone of a source
\* that was never projected.
JournalEntry(d, p) ==
    \/ /\ p \in Projection /\ p.doc = d
       /\ p.evidence = <<d, p.revision>> /\ p.edges = EdgesFor(<<d, p.revision>>)
    \/ p \in EmptyProjection /\ p.doc = d

-----------------------------------------------------------------------------
(* The job *)

Calls == IF job = Idle THEN <<>> ELSE job.calls
Queue == IF job = Idle THEN <<>> ELSE job.changes
Pending == {Calls[i] : i \in 1..Len(Calls)}

JournalPending == \E c \in Pending : c.op = "journal"

\* The order of the calls of a change.
Rank(op) ==
    CASE op = "put-entity" -> 1 [] op = "put-evidence" -> 2 [] op = "edge" -> 3
      [] op = "retire-evidence" -> 4 [] op = "retire-entity" -> 5 [] op = "journal" -> 6
      [] op = "catalog" -> 7 [] OTHER -> 8
Follows(op, later) == Rank(op) < Rank(later) \/ (op = "edge" /\ later = "edge")
InSequence(calls) ==
    \A i, j \in 1..Len(calls) : i < j => Follows(calls[i].op, calls[j].op)

\* A change that is projected comes from the manifest or from a push, whose
\* access list is the repository's.
Projectable(change) ==
    wiring # "checkout" =>
        /\ change.type = "upsert" => change.revision \in Revisions /\ change.acl \in Acls
        /\ change.event # Nothing => change.event = <<change.revision>>
                                     /\ change.acl = RepositoryAcl

\* The revision and the access list a mark stands for.
RevisionOf(u) == IF u.event = Nothing THEN u.revision ELSE u.event[1]
AclOf(u) == IF u.event = Nothing THEN u.acl ELSE RepositoryAcl

\* The journal says what the change behind the mark would make it say.
Matches(u, p) == u.type = "upsert" /\ RevisionOf(u) = p.revision /\ AclOf(u) = p.acl

EvidenceOf(change) == <<change.doc, change.revision>>

\* What a pending call c of the change will do.
PutFits(c, change) ==
    c.op = "put-evidence" =>
        change.type = "upsert" /\ c.key = EvidenceOf(change) /\ c.acl = change.acl
EdgeFits(c, change) ==
    c.op = "edge" =>
        /\ \A e \in c.support : c.key \in EdgesFor(e)
        /\ \A o \in Documents \ {change.doc} :
              Active(journal[o]) /\ c.key \in journal[o].edges => journal[o].evidence \in c.support
        /\ change.type = "upsert" /\ c.key \in EdgesFor(EvidenceOf(change)) =>
              EvidenceOf(change) \in c.support
RetireFits(c, change) ==
    c.op = "retire-evidence" =>
        /\ c.key[1] = change.doc
        /\ change.type = "upsert" => c.key # EvidenceOf(change)
        /\ \A x \in Pending : x.op = "edge" => c.key \notin x.support
        /\ \A k \in EdgeKey : Active(edges[k]) /\ c.key \in edges[k].support =>
              \E x \in Pending : x.op = "edge" /\ x.key = k
JournalFits(c, change) ==
    c.op = "journal" =>
        /\ c.key = change.doc
        /\ JournalEntry(change.doc, c.projection)
        /\ IF change.type = "upsert" THEN c.projection = ActiveProjection(Kind, change)
                                     ELSE c.projection.state = "deleted"
PlaceFits(c, change) ==
    /\ c.op = "next" => c.change = change
    /\ c.op = "catalog" => c.key = change.doc /\ c.change = change /\ wiring # "knowledge"
    /\ c.op \notin {"catalog", "next"} => wiring # "checkout" /\ JournalPending

CallFits(c, change) ==
    PutFits(c, change) /\ EdgeFits(c, change) /\ RetireFits(c, change)
        /\ JournalFits(c, change) /\ PlaceFits(c, change)

\* While the journal is to be written: what the calls so far have done.
BeforeJournal(change) ==
    LET d == change.doc
    IN /\ Active(journal[d]) =>
             \/ \E c \in Pending : c.op = "retire-evidence" /\ c.key = journal[d].evidence
             \/ ~Active(evidence[journal[d].evidence])
             \/ change.type = "upsert" /\ journal[d].evidence = EvidenceOf(change)
       /\ change.type = "upsert" =>
             /\ ~(/\ Active(journal[d]) /\ journal[d].revision = change.revision
                  /\ journal[d].acl = change.acl)
             /\ \/ \E c \in Pending : c.op = "put-evidence"
                \/ Active(evidence[EvidenceOf(change)]) /\ evidence[EvidenceOf(change)].acl = change.acl
             /\ \A k \in EdgesFor(EvidenceOf(change)) :
                   \/ \E c \in Pending : c.op = "edge" /\ c.key = k
                   \/ Active(edges[k]) /\ EvidenceOf(change) \in edges[k].support

\* The journal is written, or says it already.
AfterJournal(change) ==
    LET p == journal[change.doc]
    IN IF change.type = "upsert"
       THEN Active(p) /\ p.revision = change.revision /\ p.acl = change.acl
       ELSE p.state = "deleted"

Progress(change) ==
    /\ change \in ChangeRecord /\ Projectable(change)
    /\ Mark(change) \in unfinished
    /\ \A c \in Pending : CallFits(c, change)
    /\ JournalPending => BeforeJournal(change)
    /\ ~JournalPending /\ wiring # "checkout" => AfterJournal(change)
    /\ wiring # "knowledge" =>
          /\ index[change.doc] = Indexed(change)
          /\ (\E c \in Pending : c.op = "catalog") \/ catalog[change.doc] = Stored(change)

JobInv ==
    /\ job = Idle \/ job \in JobRecord
    /\ InSequence(Calls)
    /\ Calls # <<>> => \E c \in Pending : c.op = "next"
    /\ \A c \in Pending : c.op = "next" => Progress(c.change)
    /\ \A i \in 1..Len(Queue) : Projectable(Queue[i])

-----------------------------------------------------------------------------
(* The stores *)

TypesInv ==
    /\ evidence \in [EvidenceId -> EvidenceRecord \union {Nothing}]
    /\ edges \in [EdgeKey -> EdgeRecord \union {Nothing}]
    /\ DOMAIN journal = Documents
    /\ \A d \in Documents : journal[d] = Nothing \/ JournalEntry(d, journal[d])
    /\ DOMAIN index = Documents /\ DOMAIN catalog = Documents

BackedInv ==
    \A k \in EdgeKey : Active(edges[k]) =>
        /\ edges[k].support # {}
        /\ \A e \in edges[k].support : Active(evidence[e]) /\ k \in EdgesFor(e)

\* Active evidence is the journal's, or a projection of its revision was begun.
StaleInv ==
    \A k \in EvidenceId : Active(evidence[k]) =>
        /\ wiring # "checkout"
        /\ \/ Active(journal[k[1]]) /\ journal[k[1]].evidence = k
           \/ \E u \in unfinished : u.type = "upsert" /\ u.doc = k[1] /\ RevisionOf(u) = k[2]

\* The evidence and the edges of a projection are there.
Materialized(p) ==
    /\ Active(evidence[p.evidence]) /\ evidence[p.evidence].acl = p.acl
    /\ \A k \in p.edges : Active(edges[k]) /\ p.evidence \in edges[k].support

\* What an active journal entry says is there, unless another change of the
\* document was begun.
JournalInv ==
    wiring = "repository" =>
        \A d \in Documents :
            Active(journal[d]) /\ (\A u \in unfinished : u.doc = d => Matches(u, journal[d]))
                => Materialized(journal[d])

CatalogInv ==
    \A d \in Documents : catalog[d] # Nothing =>
        /\ wiring # "knowledge"
        /\ Settled(d) =>
              IF catalog[d].state = "active"
              THEN /\ index[d] = catalog[d]
                   /\ wiring = "repository" =>
                         /\ Active(journal[d]) /\ journal[d].revision = catalog[d].revision
                         /\ journal[d].acl = catalog[d].acl
              ELSE /\ index[d] = Nothing
                   /\ wiring = "repository" => journal[d].state = "deleted"

-----------------------------------------------------------------------------
(* The events *)

PushedEvent(x) ==
    /\ x \in EventRecord
    /\ \E r \in Revisions : r <= head /\ x.id = <<r>>
    /\ x.changes # <<>>
    /\ \A i \in 1..Len(x.changes) : /\ x.changes[i].event = x.id
                                    /\ x.changes[i].revision = x.id[1]
                                    /\ x.changes[i].acl = RepositoryAcl

FileId == Documents \X Contents \X Acls
FileEvent(x) ==
    /\ x \in EventRecord /\ x.id \in FileId
    /\ Len(x.changes) = 1
    /\ x.changes[1].type = "upsert" /\ x.changes[1].doc = x.id[1] /\ x.changes[1].event = x.id

\* An event the worker may be given again.
KnownEvent(x) ==
    \/ wiring = "repository" /\ x \in sent
    \/ wiring = "checkout" /\ FileEvent(x)

\* Where a change, or its mark, comes from.
SourcedChange(c) ==
    \/ c.event = Nothing
    \/ wiring # "checkout" /\ \E x \in sent : x.id = c.event
                                  /\ \E i \in 1..Len(x.changes) : c = x.changes[i]
    \/ wiring = "checkout" /\ c.event \in FileId /\ c.type = "upsert" /\ c.doc = c.event[1]
SourcedMark(u) ==
    \/ u.event = Nothing
    \/ wiring # "checkout" /\ \E x \in sent : x.id = u.event
                                  /\ \E i \in 1..Len(x.changes) : u = Mark(x.changes[i])
    \/ wiring = "checkout" /\ \E id \in FileId :
          u = [type |-> "upsert", doc |-> id[1], event |-> id, revision |-> 0, acl |-> Nothing]

\* A mark the job may make.
OwnMark(u) ==
    u.event = Nothing \/ job.kind = "knowledge" \/ (job.kind = "event" /\ u.event = job.event.id)

WorldInv ==
    /\ wiring \in {"repository", "checkout", "knowledge"}
    /\ head \in Nat /\ (head > 0 => head \in Revisions) /\ acl \in Acls
    /\ source \in [Documents -> Contents \union {Nothing}]
    /\ \A d \in Documents : source[d] # Nothing => head > 0
    /\ tree = Nothing \/ (/\ wiring = "checkout"
                          /\ tree \in [files : [Documents -> Contents \union {Nothing}],
                                       commit : Nat, acl : Acls, left : SUBSET Documents]
                          /\ \A d \in tree.left : tree.files[d] # Nothing)
    /\ \A d \in Documents : catalog[d] # Nothing => catalog[d].revision \in Nat

EventsInv ==
    /\ \A x \in sent : PushedEvent(x)
    /\ \A x, y \in sent : x.id = y.id => x = y
    /\ \A x \in dlq : KnownEvent(x)
    /\ \A u \in unfinished : SourcedMark(u)
    /\ \A i \in 1..Len(Queue) : SourcedChange(Queue[i])

LedgerInv ==
    /\ DOMAIN ledger = EventId
    /\ wiring = "knowledge" => dlq = {} /\ \A id \in EventId : ledger[id] = "absent"
    /\ \A id \in EventId : ledger[id] = "completed" =>
          /\ ~\E u \in unfinished : u.event = id
          /\ ~\E x \in dlq : x.id = id
    /\ job.kind = "event" =>
          /\ KnownEvent(job.event)
          /\ ledger[job.event.id] = "processing"
          /\ \A i \in 1..Len(Queue) : Queue[i].event = job.event.id
          /\ \A c \in Pending : c.op = "next" => c.change.event = job.event.id
          /\ \A u \in unfinished : u.event = job.event.id =>
                \/ \E i \in 1..Len(Queue) : u = Mark(Queue[i])
                \/ \E c \in Pending : c.op = "next" /\ u = Mark(c.change)
    /\ job.kind = "knowledge" => wiring = "knowledge"
    /\ job.kind = "reconcile" => /\ wiring = "repository"
                                 /\ \A i \in 1..Len(Queue) : Queue[i].event = Nothing
                                 /\ \A c \in Pending : c.op = "next" => c.change.event = Nothing

\* What the events that were started still owe: nothing once they are completed,
\* and no more than the changes ahead of it for the one at work.
OwedInv ==
    /\ \A u \in owed : SourcedMark(u)
    /\ \A id \in EventId : ledger[id] = "completed" => ~\E u \in owed : u.event = id
    /\ job.kind = "event" =>
          \A u \in owed : u.event = job.event.id =>
              \/ \E i \in 1..Len(Queue) : u = Mark(Queue[i])
              \/ \E c \in Pending : c.op = "next" /\ u = Mark(c.change)

\* The part of the invariant that is about the stores.
StoresInv == TypesInv /\ BackedInv /\ StaleInv /\ JournalInv /\ CatalogInv

IngestionInv == StoresInv /\ JobInv /\ WorldInv /\ EventsInv /\ LedgerInv

-----------------------------------------------------------------------------
(* Facts about the records and the calls *)

\* Evidence is known by its document and its revision.
LEMMA EvidenceIdForm ==
    ASSUME NEW e \in EvidenceId
    PROVE  e = <<e[1], e[2]>> /\ e[1] \in Documents /\ e[2] \in Revisions
BY DEF EvidenceId

\* Nothing is not one of the stored records.
LEMMA RecordsAreSomething ==
    Nothing \notin EvidenceRecord /\ Nothing \notin EdgeRecord /\ Nothing \notin Projection
BY NothingIsNoRecord DEF EvidenceRecord, EdgeRecord, Projection, Life

\* The fields of a call.
LEMMA CallForms ==
    ASSUME NEW c \in CallRecord
    PROVE  /\ c.op = "put-evidence" => c.key \in EvidenceId /\ c.acl \in Acls
           /\ c.op = "edge" => c.key \in EdgeKey /\ c.support \in SUBSET EvidenceId
           /\ c.op = "retire-evidence" => c.key \in EvidenceId
           /\ c.op = "journal" =>
                 c.key \in Documents /\ c.projection \in Projection \union EmptyProjection
           /\ c.op = "catalog" => c.key \in Documents /\ c.change \in ChangeRecord
           /\ c.op = "next" => c.change \in ChangeRecord
           /\ c.op \in {"put-entity", "retire-entity", "put-evidence", "edge",
                        "retire-evidence", "journal", "catalog", "next"}
<1>1. CASE c \in [op : {"put-entity", "retire-entity"}, key : EntityKey]
  BY <1>1
<1>2. CASE c \in [op : {"put-evidence"}, key : EvidenceId, acl : Acls]
  BY <1>2
<1>3. CASE c \in [op : {"edge"}, key : EdgeKey, support : SUBSET EvidenceId]
  BY <1>3
<1>4. CASE c \in [op : {"retire-evidence"}, key : EvidenceId]
  BY <1>4
<1>5. CASE c \in [op : {"journal"}, key : Documents,
                  projection : Projection \union EmptyProjection]
  BY <1>5
<1>6. CASE c \in [op : {"catalog"}, key : Documents, change : ChangeRecord]
  BY <1>6
<1>7. CASE c \in [op : {"next"}, change : ChangeRecord]
  BY <1>7
<1> QED BY <1>1, <1>2, <1>3, <1>4, <1>5, <1>6, <1>7 DEF CallRecord

\* SetToSeq lists a finite set, each element once.
LEMMA ListOfSet ==
    ASSUME NEW S, IsFiniteSet(S)
    PROVE  /\ SetToSeq(S) \in Seq(S)
           /\ {SetToSeq(S)[i] : i \in 1..Len(SetToSeq(S))} = S
           /\ \A i, j \in 1..Len(SetToSeq(S)) : SetToSeq(S)[i] = SetToSeq(S)[j] => i = j
<1> PICK n \in Nat : n = Cardinality(S)
  BY FS_CardinalityType
<1>1. PICK f \in Bijection(1..n, S) : TRUE
  BY FS_CardinalityType, Zenon DEF ExistsBijection
<1>2. f \in [1..n -> S] /\ IsInjective(f)
  BY <1>1 DEF Bijection, Injection, IsInjective
<1> PICK g : g = SetToSeq(S)
  OBVIOUS
<1>3. g \in [1..n -> S] /\ IsInjective(g)
  BY <1>2 DEF SetToSeq
<1>4. g \in Injection(1..n, S)
  BY <1>3 DEF Injection
<1>5. Cardinality(1..n) = n
  BY FS_Interval
<1>6. g \in Surjection(1..n, S)
  BY <1>4, <1>5, FS_Injection
<1>7. g \in Seq(S) /\ Len(g) = n
  BY <1>3
<1>8. {g[i] : i \in 1..Len(g)} = S
  BY <1>3, <1>6, <1>7 DEF Surjection
<1>9. \A i, j \in 1..Len(g) : g[i] = g[j] => i = j
  BY <1>3, <1>7 DEF IsInjective
<1> QED BY <1>7, <1>8, <1>9

\* What remains when the first call is made.
LEMMA RestOfCalls ==
    ASSUME NEW s \in Seq(CallRecord), s # <<>>, InSequence(s)
    PROVE  /\ Tail(s) \in Seq(CallRecord) /\ Head(s) \in CallRecord
           /\ InSequence(Tail(s))
           /\ {Tail(s)[i] : i \in 1..Len(Tail(s))} \subseteq {s[i] : i \in 1..Len(s)}
           /\ Head(s) \in {s[i] : i \in 1..Len(s)}
           /\ {s[i] : i \in 1..Len(s)}
                 = {Head(s)} \union {Tail(s)[i] : i \in 1..Len(Tail(s))}
           /\ \A c \in {Tail(s)[i] : i \in 1..Len(Tail(s))} : Follows(Head(s).op, c.op)
<1> PICK t : t = Tail(s)
  OBVIOUS
<1>1. /\ t \in Seq(CallRecord) /\ Len(t) = Len(s) - 1 /\ Len(s) \in Nat \ {0}
      /\ \A i \in 1..Len(t) : t[i] = s[i + 1]
      /\ Head(s) = s[1] /\ Head(s) \in CallRecord
  BY HeadTailProperties
<1>2. \A i \in 1..Len(t) : i + 1 \in 1..Len(s)
  BY <1>1
<1>3. InSequence(t)
  BY <1>1, <1>2 DEF InSequence
<1>4. \A c \in {t[i] : i \in 1..Len(t)} : Follows(s[1].op, c.op)
  <2> SUFFICES ASSUME NEW i \in 1..Len(t) PROVE Follows(s[1].op, t[i].op)
    OBVIOUS
  <2>1. i + 1 \in 1..Len(s) /\ 1 \in 1..Len(s) /\ 1 < i + 1
    BY <1>1
  <2> QED BY <1>1, <2>1 DEF InSequence
<1>5. {s[i] : i \in 1..Len(s)} = {s[1]} \union {t[i] : i \in 1..Len(t)}
  <2>1. ASSUME NEW i \in 1..Len(s) PROVE s[i] \in {s[1]} \union {t[j] : j \in 1..Len(t)}
    <3>1. CASE i = 1
      BY <3>1
    <3>2. CASE i # 1
      <4>1. i - 1 \in 1..Len(t) /\ i = (i - 1) + 1
        BY <1>1, <3>2
      <4> QED BY <1>1, <4>1
    <3> QED BY <3>1, <3>2
  <2>2. ASSUME NEW i \in 1..Len(t) PROVE t[i] \in {s[j] : j \in 1..Len(s)}
    BY <1>1, <1>2
  <2>3. 1 \in 1..Len(s)
    BY <1>1
  <2> QED BY <2>1, <2>2, <2>3
<1> QED BY <1>1, <1>3, <1>4, <1>5

\* A step that leaves the stores alone.
LEMMA StoresKept ==
    ASSUME StoresInv, UNCHANGED <<wiring, evidence, edges, journal, index, catalog, unfinished>>
    PROVE  StoresInv'
<1>1. /\ TypesInv' /\ BackedInv'
  BY DEF StoresInv, TypesInv, BackedInv, JournalEntry, EdgesFor, Kind, Active
<1>2. StaleInv' /\ JournalInv' /\ CatalogInv'
  BY DEF StoresInv, StaleInv, JournalInv, CatalogInv, Active, Settled, Materialized
<1> QED BY <1>1, <1>2 DEF StoresInv

\* A job with no call under way.
LEMMA NoCalls ==
    ASSUME (job = Idle \/ job \in JobRecord)', (Calls = <<>>)',
           (\A i \in 1..Len(Queue) : Projectable(Queue[i]))'
    PROVE  JobInv' /\ (Pending = {})'
<1>1. (Len(Calls) = 0)'
  OBVIOUS
<1>2. (Pending = {})'
  BY <1>1 DEF Pending
<1>3. InSequence(Calls)'
  BY <1>1 DEF InSequence
<1> QED BY <1>2, <1>3 DEF JobInv

\* The idle worker and the working one.
LEMMA JobForms ==
    ASSUME job = Idle \/ job \in JobRecord
    PROVE  /\ job = Idle => job.kind = "idle" /\ Calls = <<>> /\ Queue = <<>> /\ Pending = {}
           /\ job # Idle => /\ job.kind \in {"event", "reconcile", "knowledge"}
                            /\ Calls = job.calls /\ Queue = job.changes
           /\ Calls \in Seq(CallRecord) /\ Queue \in Seq(ChangeRecord)
           /\ job.kind = "event" => job.event \in EventRecord
           /\ job.kind # "idle" => job # Idle
<1>1. CASE job = Idle
  <2>1. Calls = <<>> /\ Queue = <<>>
    BY <1>1 DEF Calls, Queue
  <2>2. Len(Calls) = 0
    BY <2>1
  <2>3. Pending = {}
    BY <2>2 DEF Pending
  <2> QED BY <1>1, <2>1, <2>3 DEF Idle
<1>2. CASE job # Idle
  <2>1. job \in JobRecord
    BY <1>2
  <2>2. /\ job.kind \in {"event", "reconcile", "knowledge"}
        /\ job.changes \in Seq(ChangeRecord) /\ job.calls \in Seq(CallRecord)
        /\ job.kind = "event" => job.event \in EventRecord
    BY <2>1 DEF JobRecord
  <2> QED BY <1>2, <2>2 DEF Calls, Queue
<1> QED BY <1>1, <1>2

-----------------------------------------------------------------------------
(* What a call writes *)

\* Calls that do not concern the evidence, the edges or the journal.
LEMMA WriteElsewhere ==
    ASSUME NEW h \in CallRecord, Write(h)
    PROVE  /\ h.op \notin {"put-evidence", "retire-evidence"} => evidence' = evidence
           /\ h.op # "edge" => edges' = edges
           /\ h.op # "journal" => journal' = journal
<1>1. h.op \notin {"put-evidence", "retire-evidence"} => evidence' = evidence
  BY DEF Write, WriteEvidence
<1>2. h.op # "edge" => edges' = edges
  BY DEF Write, WriteRelationship
<1>3. h.op # "journal" => journal' = journal
  BY DEF Write, WriteJournal
<1> QED BY <1>1, <1>2, <1>3

\* put_evidence
LEMMA WritePut ==
    ASSUME TypesInv, NEW h \in CallRecord, Write(h), h.op = "put-evidence"
    PROVE  /\ evidence' \in [EvidenceId -> EvidenceRecord \union {Nothing}]
           /\ Active(evidence'[h.key]) /\ evidence'[h.key].acl = h.acl
           /\ \A e \in EvidenceId \ {h.key} : evidence'[e] = evidence[e]
<1>1. h.key \in EvidenceId /\ h.acl \in Acls
  BY CallForms
<1>2. evidence \in [EvidenceId -> EvidenceRecord \union {Nothing}]
  BY DEF TypesInv
<1>3. CASE ~Active(evidence[h.key])
  <2>1. evidence' = [evidence EXCEPT ![h.key] =
                       [state |-> "active", held |-> FALSE, acl |-> h.acl]]
    BY <1>3 DEF Write, WriteEvidence
  <2> PICK r : r = [state |-> "active", held |-> FALSE, acl |-> h.acl]
    OBVIOUS
  <2>2. r \in EvidenceRecord /\ r.state = "active" /\ r.acl = h.acl
    BY <1>1 DEF EvidenceRecord, Life
  <2>3. evidence' = [evidence EXCEPT ![h.key] = r]
    BY <2>1
  <2> QED BY <1>1, <1>2, <2>2, <2>3, RecordsAreSomething DEF Active
<1>4. CASE Active(evidence[h.key])
  <2>1. evidence' = [evidence EXCEPT ![h.key].acl = h.acl]
    BY <1>4 DEF Write, WriteEvidence
  <2>2. evidence[h.key] \in EvidenceRecord
    BY <1>1, <1>2, <1>4 DEF Active
  <2> PICK r : r = [evidence[h.key] EXCEPT !.acl = h.acl]
    OBVIOUS
  <2>3. r \in EvidenceRecord /\ r.state = "active" /\ r.acl = h.acl
    BY <1>1, <2>2, <1>4 DEF EvidenceRecord, Life, Active
  <2>4. evidence' = [evidence EXCEPT ![h.key] = r]
    BY <2>1
  <2> QED BY <1>1, <1>2, <2>3, <2>4, RecordsAreSomething DEF Active
<1> QED BY <1>3, <1>4

\* delete_evidence
LEMMA WriteRetire ==
    ASSUME TypesInv, NEW h \in CallRecord, Write(h), h.op = "retire-evidence"
    PROVE  /\ evidence' \in [EvidenceId -> EvidenceRecord \union {Nothing}]
           /\ ~Active(evidence'[h.key])
           /\ \A e \in EvidenceId \ {h.key} : evidence'[e] = evidence[e]
<1>1. h.key \in EvidenceId
  BY CallForms
<1>2. evidence \in [EvidenceId -> EvidenceRecord \union {Nothing}]
  BY DEF TypesInv
<1>3. CASE ~Active(evidence[h.key])
  <2>1. evidence' = evidence
    BY <1>3 DEF Write, WriteEvidence
  <2> QED BY <1>1, <1>2, <1>3, <2>1
<1>4. CASE Active(evidence[h.key])
  <2> PICK r : r = [evidence[h.key] EXCEPT !.state = "deleted"]
    OBVIOUS
  <2>1. evidence' = [evidence EXCEPT ![h.key] = r]
    BY <1>4 DEF Write, WriteEvidence, Tombstone
  <2>2. evidence[h.key] \in EvidenceRecord
    BY <1>1, <1>2, <1>4 DEF Active
  <2>3. r \in EvidenceRecord /\ r.state = "deleted"
    BY <2>2 DEF EvidenceRecord, Life
  <2> QED BY <1>1, <1>2, <2>1, <2>3 DEF Active
<1> QED BY <1>3, <1>4

\* put_relationship and delete_relationship
LEMMA WriteEdge ==
    ASSUME TypesInv, NEW h \in CallRecord, Write(h), h.op = "edge"
    PROVE  /\ edges' \in [EdgeKey -> EdgeRecord \union {Nothing}]
           /\ h.support # {} => Active(edges'[h.key]) /\ edges'[h.key].support = h.support
           /\ h.support = {} => ~Active(edges'[h.key])
           /\ \A k \in EdgeKey \ {h.key} : edges'[k] = edges[k]
<1>1. h.key \in EdgeKey /\ h.support \in SUBSET EvidenceId
  BY CallForms
<1>2. edges \in [EdgeKey -> EdgeRecord \union {Nothing}]
  BY DEF TypesInv
<1>3. CASE h.support # {}
  <2> PICK r : r = [state |-> "active", held |-> FALSE, support |-> h.support]
    OBVIOUS
  <2>1. edges' = [edges EXCEPT ![h.key] = r]
    BY <1>3 DEF Write, WriteRelationship
  <2>2. r \in EdgeRecord /\ r.state = "active" /\ r.support = h.support
    BY <1>1 DEF EdgeRecord, Life
  <2> QED BY <1>1, <1>2, <1>3, <2>1, <2>2, RecordsAreSomething DEF Active
<1>4. CASE h.support = {} /\ Active(edges[h.key])
  <2> PICK r : r = [edges[h.key] EXCEPT !.state = "deleted"]
    OBVIOUS
  <2>1. edges' = [edges EXCEPT ![h.key] = r]
    BY <1>4 DEF Write, WriteRelationship, Tombstone
  <2>2. edges[h.key] \in EdgeRecord
    BY <1>1, <1>2, <1>4 DEF Active
  <2>3. r \in EdgeRecord /\ r.state = "deleted"
    BY <2>2 DEF EdgeRecord, Life
  <2> QED BY <1>1, <1>2, <1>4, <2>1, <2>3 DEF Active
<1>5. CASE h.support = {} /\ ~Active(edges[h.key])
  <2>1. edges' = edges
    BY <1>5 DEF Write, WriteRelationship
  <2> QED BY <1>1, <1>2, <1>5, <2>1
<1> QED BY <1>3, <1>4, <1>5

\* SqliteBrainProjectionJournal.put
LEMMA WriteProjection ==
    ASSUME TypesInv, NEW h \in CallRecord, Write(h), h.op = "journal"
    PROVE  /\ DOMAIN journal' = Documents
           /\ journal'[h.key] = h.projection
           /\ \A d \in Documents \ {h.key} : journal'[d] = journal[d]
<1>1. h.key \in Documents
  BY CallForms
<1>2. journal' = [journal EXCEPT ![h.key] = h.projection]
  BY DEF Write, WriteJournal
<1> QED BY <1>1, <1>2 DEF TypesInv

-----------------------------------------------------------------------------
(* A call that returns *)

\* Call h of the change is made.
CallMade(h, change) ==
    /\ h \in CallRecord /\ h.op # "next" /\ Pending \subseteq CallRecord
    /\ Pending = {h} \union Pending'
    /\ \A c \in Pending' : Follows(h.op, c.op)
    /\ Returns(h) /\ Write(h)
    /\ catalog' = IF h.op = "catalog" THEN [catalog EXCEPT ![h.key] = Stored(h.change)] ELSE catalog
    /\ UNCHANGED <<wiring, index, unfinished>>
    /\ Progress(change)

\* The first call leaves the queue and the others stay, in their order.
LEMMA CallTaken ==
    ASSUME JobInv, Call
    PROVE  /\ job' \in JobRecord /\ job' # Idle /\ Queue' = Queue
           /\ InSequence(Calls)'
           /\ \E c \in Pending' : c.op = "next"
           /\ \A c \in Pending' : c.op = "next" => CallMade(Head(job.calls), c.change)
           /\ job'.kind = job.kind
           /\ job.kind = "event" => job'.event = job.event
           /\ Pending' \subseteq Pending
<1>1. /\ job # Idle /\ job \in JobRecord /\ Calls = job.calls /\ Queue = job.changes
      /\ Calls \in Seq(CallRecord) /\ job.calls # <<>>
      /\ Head(job.calls).op # "next"
      /\ job' = [job EXCEPT !.calls = Tail(job.calls)]
  BY JobForms DEF JobInv, Call
<1> PICK t : t = Tail(job.calls)
  OBVIOUS
<1>2. t \in Seq(CallRecord)
  BY <1>1
<1>3. /\ job' \in JobRecord /\ job'.kind = job.kind /\ job'.calls = t /\ job'.changes = job.changes
      /\ job.kind = "event" => job'.event = job.event
  <2>1. job' = [job EXCEPT !.calls = t]
    BY <1>1
  <2>2. CASE job \in [kind : {"event"}, event : EventRecord, changes : Seq(ChangeRecord),
                      calls : Seq(CallRecord)]
    BY <1>2, <2>1, <2>2 DEF JobRecord
  <2>3. CASE job \in [kind : {"reconcile", "knowledge"}, changes : Seq(ChangeRecord),
                      calls : Seq(CallRecord)]
    BY <1>2, <2>1, <2>3 DEF JobRecord
  <2> QED BY <1>1, <2>2, <2>3 DEF JobRecord
<1>4. job' # Idle
  <2>1. job'.kind # "idle"
    BY <1>3 DEF JobRecord
  <2> QED BY <2>1 DEF Idle
<1>5. Calls' = Tail(Calls) /\ Queue' = Queue
  BY <1>1, <1>3, <1>4 DEF Calls, Queue
<1>6. InSequence(Calls) /\ Calls # <<>>
  BY <1>1 DEF JobInv
<1> PICK h : h = Head(job.calls)
  OBVIOUS
<1>7. Pending' = {t[i] : i \in 1..Len(t)}
  BY <1>1, <1>5 DEF Pending
<1>8. /\ InSequence(t) /\ h \in CallRecord
      /\ Pending = {h} \union Pending'
      /\ \A c \in Pending' : Follows(h.op, c.op)
  <2>1. /\ InSequence(Tail(Calls)) /\ Head(Calls) \in CallRecord
        /\ {Calls[i] : i \in 1..Len(Calls)}
              = {Head(Calls)} \union {Tail(Calls)[i] : i \in 1..Len(Tail(Calls))}
        /\ \A c \in {Tail(Calls)[i] : i \in 1..Len(Tail(Calls))} : Follows(Head(Calls).op, c.op)
    BY <1>1, <1>6, RestOfCalls
  <2>2. Head(Calls) = h /\ Tail(Calls) = t
    BY <1>1
  <2> QED BY <1>7, <2>1, <2>2 DEF Pending
<1>9. InSequence(Calls)'
  BY <1>8, <1>5, <1>1 DEF InSequence
<1>10. \E c \in Pending' : c.op = "next"
  BY <1>6, <1>8, <1>1 DEF JobInv
<1>11. Pending \subseteq CallRecord
  BY <1>1 DEF Pending
<1>12. ASSUME NEW c \in Pending', c.op = "next" PROVE CallMade(h, c.change)
  <2>1. Progress(c.change)
    BY <1>8, <1>12 DEF JobInv
  <2>2. /\ Returns(h) /\ Write(h) /\ UNCHANGED <<wiring, index, unfinished>>
        /\ catalog' = IF h.op = "catalog" THEN [catalog EXCEPT ![h.key] = Stored(h.change)]
                      ELSE catalog
    BY DEF Call, world, history
  <2> QED BY <2>1, <2>2, <1>1, <1>8, <1>11 DEF CallMade
<1> QED BY <1>3, <1>4, <1>5, <1>8, <1>9, <1>10, <1>12

\* Which calls may follow which.
LEMMA Afterwards ==
    ASSUME NEW h, NEW c, Follows(h.op, c.op)
    PROVE  /\ h.op = "journal" => c.op # "journal" /\ c.op # "put-evidence" /\ c.op # "edge"
                 /\ c.op # "retire-evidence" /\ c.op # "put-entity" /\ c.op # "retire-entity"
           /\ h.op \in {"catalog", "next"} => c.op \notin {"journal", "catalog"}
           /\ h.op = "retire-evidence" => c.op # "edge" /\ c.op # "put-evidence"
           /\ h.op = "edge" => c.op # "put-evidence"
BY DEF Follows, Rank

\* The journal's call is pending until it is made.
LEMMA JournalStaysPending ==
    ASSUME NEW h, NEW change, CallMade(h, change)
    PROVE  /\ JournalPending' => JournalPending /\ h.op \notin {"journal", "catalog"}
           /\ JournalPending /\ ~JournalPending' => h.op = "journal"
           /\ h.op = "journal" => JournalPending
           /\ \A c \in Pending' : c.op \notin {"catalog", "next"} => JournalPending'
<1>1. JournalPending' => JournalPending /\ h.op \notin {"journal", "catalog"}
  BY Afterwards DEF CallMade, JournalPending
<1>2. JournalPending /\ ~JournalPending' => h.op = "journal"
  BY DEF CallMade, JournalPending
<1>3. h.op = "journal" => JournalPending
  BY DEF CallMade, JournalPending
<1>4. ASSUME NEW c \in Pending', c.op \notin {"catalog", "next"} PROVE JournalPending'
  <2>1. c \in Pending /\ c \in CallRecord
    BY DEF CallMade
  <2>2. JournalPending
    BY <2>1, <1>4 DEF CallMade, Progress, CallFits, PlaceFits
  <2>3. h.op # "journal"
    <3> SUFFICES ASSUME h.op = "journal" PROVE FALSE
      OBVIOUS
    <3>1. Follows(h.op, c.op)
      BY DEF CallMade
    <3> QED BY <3>1, <2>1, <1>4, CallForms, Afterwards
  <2> QED BY <2>2, <2>3, <1>2
<1> QED BY <1>1, <1>2, <1>3, <1>4

\* What a pending call will do is not changed by an earlier one.
LEMMA FitsKept ==
    ASSUME StoresInv, NEW h, NEW change, CallMade(h, change), NEW c \in Pending'
    PROVE  CallFits(c, change)'
<1>1. /\ c \in Pending /\ CallFits(c, change) /\ CallFits(h, change) /\ Kind' = Kind
      /\ change \in ChangeRecord /\ h \in CallRecord /\ c \in CallRecord
      /\ wiring' = wiring
  BY DEF CallMade, Progress, Kind
<1>2. PutFits(c, change)'
  BY <1>1 DEF CallFits, PutFits, EvidenceOf
<1>3. JournalFits(c, change)'
  BY <1>1 DEF CallFits, JournalFits, JournalEntry, EdgesFor
<1>4. PlaceFits(c, change)'
  BY <1>1, JournalStaysPending DEF CallFits, PlaceFits
<1>5. EdgeFits(c, change)'
  <2> SUFFICES ASSUME c.op = "edge" PROVE EdgeFits(c, change)'
    BY DEF EdgeFits
  <2>1. h.op # "journal"
    BY Afterwards DEF CallMade
  <2>2. journal' = journal
    BY <2>1, <1>1, WriteElsewhere DEF CallMade
  <2> QED BY <1>1, <2>2 DEF CallFits, EdgeFits, EdgesFor, EvidenceOf, Active
<1>6. RetireFits(c, change)'
  <2> SUFFICES ASSUME c.op = "retire-evidence" PROVE RetireFits(c, change)'
    BY DEF RetireFits
  <2>1. RetireFits(c, change)
    BY <1>1 DEF CallFits
  <2>2. Pending = {h} \union Pending' /\ Write(h) /\ TypesInv
    BY DEF CallMade, StoresInv
  <2>3. \A x \in Pending' : x.op = "edge" => c.key \notin x.support
    BY <2>1, <2>2 DEF RetireFits
  <2>4. ASSUME NEW k \in EdgeKey, Active(edges'[k]), c.key \in edges'[k].support
        PROVE  \E x \in Pending' : x.op = "edge" /\ x.key = k
    <3>1. CASE h.op = "edge" /\ h.key = k
      <4>1. c.key \notin h.support
        BY <3>1, <2>1, <2>2 DEF RetireFits
      <4> QED BY <3>1, <4>1, <2>4, <2>2, <1>1, WriteEdge
    <3>2. CASE ~(h.op = "edge" /\ h.key = k)
      <4>1. edges'[k] = edges[k]
        BY <3>2, <2>2, <1>1, WriteEdge, WriteElsewhere
      <4>2. PICK x \in Pending : x.op = "edge" /\ x.key = k
        BY <4>1, <2>1, <2>4 DEF RetireFits
      <4> QED BY <4>2, <3>2, <2>2
    <3> QED BY <3>1, <3>2
  <2> QED BY <2>1, <2>3, <2>4 DEF RetireFits, EvidenceOf, Active
<1> QED BY <1>2, <1>3, <1>4, <1>5, <1>6 DEF CallFits

\* The evidence of an upsert is a key of the store, and its edges are.
LEMMA OwnKeys ==
    ASSUME NEW change \in ChangeRecord, Projectable(change), wiring # "checkout",
           change.type = "upsert"
    PROVE  /\ EvidenceOf(change) \in EvidenceId
           /\ EdgesFor(EvidenceOf(change)) \subseteq EdgeKey
<1>1. change.doc \in Documents /\ change.revision \in Revisions
  BY DEF ChangeRecord, Projectable
<1>2. EvidenceOf(change) \in EvidenceId
  BY <1>1 DEF EvidenceOf, EvidenceId
<1>3. EvidenceOf(change)[1] = change.doc /\ EvidenceOf(change)[2] = change.revision
  BY DEF EvidenceOf
<1>4. Kind \in {"file", "knowledge"}
  BY DEF Kind
<1>5. OwnEdge(change.doc, change.revision) \in EdgeKey /\ SharedEdge(Kind, change.doc) \in EdgeKey
  BY <1>1, <1>4 DEF EdgeKey
<1> QED BY <1>2, <1>3, <1>5 DEF EdgesFor

\* Before the journal: the effects of the calls made so far stay.
LEMMA BeforeKept ==
    ASSUME StoresInv, NEW h, NEW change, CallMade(h, change), JournalPending'
    PROVE  BeforeJournal(change)'
<1>1. /\ JournalPending /\ h.op \notin {"journal", "catalog"} /\ BeforeJournal(change)
      /\ CallFits(h, change) /\ h \in CallRecord /\ TypesInv /\ Write(h)
      /\ change \in ChangeRecord /\ Projectable(change)
      /\ Pending = {h} \union Pending' /\ Kind' = Kind /\ change.doc \in Documents
  BY JournalStaysPending DEF CallMade, Progress, StoresInv, ChangeRecord, Kind
<1>2. journal' = journal /\ wiring # "checkout"
  <2>1. PlaceFits(h, change) /\ h.op # "next"
    BY <1>1 DEF CallFits, CallMade
  <2> QED BY <1>1, <2>1, WriteElsewhere DEF PlaceFits
<1> DEFINE d == change.doc
           new == EvidenceOf(change)
<1>3. ASSUME Active(journal[d])
      PROVE  \/ \E c \in Pending' : c.op = "retire-evidence" /\ c.key = journal[d].evidence
             \/ ~Active(evidence'[journal[d].evidence])
             \/ change.type = "upsert" /\ journal[d].evidence = new
  <2>1. JournalEntry(d, journal[d])
    BY <1>1, <1>3 DEF TypesInv, Active
  <2>2. journal[d].evidence \in EvidenceId
    BY <2>1, <1>3 DEF JournalEntry, EmptyProjection, Projection, Active
  <2>3. CASE h.op = "retire-evidence" /\ h.key = journal[d].evidence
    BY <2>3, <1>1, WriteRetire
  <2>4. CASE h.op = "put-evidence" /\ h.key = journal[d].evidence
    BY <2>4, <1>1 DEF CallFits, PutFits
  <2>5. CASE ~(h.op \in {"retire-evidence", "put-evidence"} /\ h.key = journal[d].evidence)
    <3>1. evidence'[journal[d].evidence] = evidence[journal[d].evidence]
      BY <2>5, <2>2, <1>1, WriteRetire, WritePut, WriteElsewhere
    <3>2. \A c \in Pending : c.op = "retire-evidence" /\ c.key = journal[d].evidence
             => c \in Pending'
      BY <2>5, <1>1
    <3> QED BY <3>1, <3>2, <1>1, <1>3 DEF BeforeJournal
  <2> QED BY <2>3, <2>4, <2>5
<1>4. ASSUME change.type = "upsert"
      PROVE  \/ \E c \in Pending' : c.op = "put-evidence"
             \/ Active(evidence'[new]) /\ evidence'[new].acl = change.acl
  <2>1. new \in EvidenceId
    BY <1>1, <1>2, <1>4, OwnKeys
  <2>2. CASE h.op = "put-evidence"
    <3>1. h.key = new /\ h.acl = change.acl
      BY <2>2, <1>1 DEF CallFits, PutFits
    <3> QED BY <3>1, <2>2, <1>1, WritePut
  <2>3. CASE h.op = "retire-evidence"
    <3>1. h.key # new
      BY <2>3, <1>1, <1>4 DEF CallFits, RetireFits
    <3>2. evidence'[new] = evidence[new]
      BY <3>1, <2>1, <2>3, <1>1, WriteRetire
    <3> QED BY <3>2, <2>3, <1>1, <1>4 DEF BeforeJournal
  <2>4. CASE h.op \notin {"put-evidence", "retire-evidence"}
    <3>1. evidence' = evidence
      BY <2>4, <1>1, WriteElsewhere
    <3> QED BY <3>1, <2>4, <1>1, <1>4 DEF BeforeJournal
  <2> QED BY <2>2, <2>3, <2>4
<1>5. ASSUME change.type = "upsert", NEW k \in EdgesFor(new)
      PROVE  \/ \E c \in Pending' : c.op = "edge" /\ c.key = k
             \/ Active(edges'[k]) /\ new \in edges'[k].support
  <2>1. k \in EdgeKey
    BY <1>1, <1>2, <1>5, OwnKeys
  <2>2. CASE h.op = "edge" /\ h.key = k
    <3>1. new \in h.support
      BY <2>2, <1>1, <1>5 DEF CallFits, EdgeFits
    <3> QED BY <3>1, <2>2, <1>1, WriteEdge
  <2>3. CASE ~(h.op = "edge" /\ h.key = k)
    <3>1. edges'[k] = edges[k]
      BY <2>1, <2>3, <1>1, WriteEdge, WriteElsewhere
    <3>2. \A c \in Pending : c.op = "edge" /\ c.key = k => c \in Pending'
      BY <2>3, <1>1
    <3> QED BY <3>1, <3>2, <1>1, <1>5 DEF BeforeJournal
  <2> QED BY <2>2, <2>3
<1>6. \A e : EdgesFor(e)' = EdgesFor(e)
  BY <1>1 DEF EdgesFor
<1>7. change.type = "upsert" => ~(/\ Active(journal[d]) /\ journal[d].revision = change.revision
                                  /\ journal[d].acl = change.acl)
  BY <1>1 DEF BeforeJournal
<1> HIDE DEF d, new
<1>8. d = change.doc /\ new = EvidenceOf(change) /\ EvidenceOf(change)' = new
  BY DEF d, new, EvidenceOf
<1>9. EdgesFor(EvidenceOf(change))' = EdgesFor(new)
  BY <1>1, <1>8 DEF EdgesFor
<1> QED BY <1>2, <1>3, <1>4, <1>5, <1>7, <1>8, <1>9 DEF BeforeJournal, Active

\* After the journal: it says what the change makes it say.
LEMMA AfterKept ==
    ASSUME StoresInv, NEW h, NEW change, CallMade(h, change), ~JournalPending',
           wiring # "checkout"
    PROVE  AfterJournal(change)'
<1>1. /\ CallFits(h, change) /\ h \in CallRecord /\ TypesInv /\ Write(h)
      /\ change \in ChangeRecord /\ Kind' = Kind /\ change.doc \in Documents
      /\ Projectable(change)
  BY DEF CallMade, Progress, StoresInv, ChangeRecord, Kind
<1>2. CASE JournalPending
  <2>1. h.op = "journal"
    BY <1>2, JournalStaysPending
  <2>2. JournalFits(h, change)
    BY <1>1 DEF CallFits
  <2> PICK p : p = h.projection
    OBVIOUS
  <2>3. journal'[change.doc] = p
    BY <1>1, <2>1, <2>2, WriteProjection DEF JournalFits
  <2>4. CASE change.type = "upsert"
    <3>1. p = ActiveProjection(Kind, change)
      BY <2>1, <2>2, <2>4 DEF JournalFits
    <3>2. p.state = "active" /\ p.revision = change.revision /\ p.acl = change.acl
      BY <3>1 DEF ActiveProjection
    <3>3. p \in Projection
      BY <3>2, <2>1, <2>2 DEF JournalFits, JournalEntry, EmptyProjection
    <3> QED BY <2>3, <2>4, <3>2, <3>3, RecordsAreSomething DEF AfterJournal, Active
  <2>5. CASE change.type # "upsert"
    <3>1. p.state = "deleted"
      BY <2>1, <2>2, <2>5 DEF JournalFits
    <3> QED BY <2>3, <2>5, <3>1 DEF AfterJournal
  <2> QED BY <2>4, <2>5
<1>3. CASE ~JournalPending
  <2>1. journal' = journal
    BY <1>1, <1>3, JournalStaysPending, WriteElsewhere
  <2>2. AfterJournal(change)
    BY <1>3 DEF CallMade, Progress
  <2> QED BY <2>1, <2>2 DEF AfterJournal, Active
<1> QED BY <1>2, <1>3

\* A call keeps what is known of the change it belongs to.
LEMMA ProgressKept ==
    ASSUME StoresInv, NEW h, NEW change, CallMade(h, change)
    PROVE  Progress(change)'
<1>1. /\ change \in ChangeRecord /\ Projectable(change) /\ Mark(change) \in unfinished
      /\ CallFits(h, change) /\ h \in CallRecord /\ TypesInv
      /\ Pending = {h} \union Pending' /\ UNCHANGED <<wiring, index, unfinished>>
      /\ change.doc \in Documents
  BY DEF CallMade, Progress, StoresInv, ChangeRecord
<1>2. Projectable(change)' /\ Mark(change)' \in unfinished'
  BY <1>1 DEF Projectable, Mark
<1>3. \A c \in Pending' : CallFits(c, change)'
  BY FitsKept
<1>4. JournalPending' => BeforeJournal(change)'
  BY BeforeKept
<1>5. ~JournalPending' /\ wiring # "checkout" => AfterJournal(change)'
  BY AfterKept
<1>6. ASSUME wiring # "knowledge"
      PROVE  /\ index'[change.doc] = Indexed(change)
             /\ (\E c \in Pending' : c.op = "catalog") \/ catalog'[change.doc] = Stored(change)
  <2>1. /\ index[change.doc] = Indexed(change)
        /\ (\E c \in Pending : c.op = "catalog") \/ catalog[change.doc] = Stored(change)
    BY <1>6 DEF CallMade, Progress
  <2>2. CASE h.op = "catalog"
    <3>1. h.key = change.doc /\ h.change = change
      BY <2>2, <1>1 DEF CallFits, PlaceFits
    <3>2. catalog' = [catalog EXCEPT ![change.doc] = Stored(change)]
      BY <3>1, <2>2 DEF CallMade
    <3> QED BY <3>2, <2>1, <1>1 DEF TypesInv
  <2>3. CASE h.op # "catalog"
    <3>1. catalog' = catalog
      BY <2>3 DEF CallMade
    <3> QED BY <3>1, <2>1, <2>3, <1>1
  <2> QED BY <2>2, <2>3
<1>7. Indexed(change)' = Indexed(change) /\ Stored(change)' = Stored(change)
  BY DEF Indexed, Stored
<1> QED BY <1>1, <1>2, <1>3, <1>4, <1>5, <1>6, <1>7 DEF Progress

\* An active journal entry names evidence of its document and the edges of it.
LEMMA ActiveEntry ==
    ASSUME TypesInv, NEW d \in Documents, Active(journal[d])
    PROVE  /\ journal[d] \in Projection
           /\ journal[d].evidence = <<d, journal[d].revision>> /\ journal[d].evidence \in EvidenceId
           /\ journal[d].edges = EdgesFor(journal[d].evidence) /\ journal[d].edges \subseteq EdgeKey
           /\ journal[d].evidence[1] = d
           /\ journal[d].revision \in Revisions /\ journal[d].acl \in Acls
<1>1. JournalEntry(d, journal[d])
  BY DEF TypesInv, Active
<1>2. journal[d] \in Projection /\ journal[d].evidence = <<d, journal[d].revision>>
      /\ journal[d].edges = EdgesFor(<<d, journal[d].revision>>)
  BY <1>1 DEF JournalEntry, EmptyProjection, Active
<1>3. /\ journal[d].evidence \in EvidenceId /\ journal[d].edges \subseteq EdgeKey
      /\ journal[d].revision \in Revisions /\ journal[d].acl \in Acls
  BY <1>2 DEF Projection
<1> QED BY <1>2, <1>3

\* The mark of a change stands for its revision and its access list.
LEMMA MarkStands ==
    ASSUME NEW change \in ChangeRecord, Projectable(change), wiring # "checkout"
    PROVE  /\ Mark(change).type = change.type /\ Mark(change).doc = change.doc
           /\ RevisionOf(Mark(change)) = change.revision
           /\ AclOf(Mark(change)) = change.acl
BY DEF Mark, RevisionOf, AclOf, Projectable

\* While the journal is to be written the change does not match it.
LEMMA JournalBehind ==
    ASSUME NEW h, NEW change, CallMade(h, change), JournalPending, wiring # "checkout"
    PROVE  /\ Mark(change) \in unfinished /\ Mark(change).doc = change.doc
           /\ Active(journal[change.doc]) => ~Matches(Mark(change), journal[change.doc])
<1>1. /\ change \in ChangeRecord /\ Projectable(change) /\ Mark(change) \in unfinished
      /\ BeforeJournal(change)
  BY DEF CallMade, Progress
<1>2. /\ Mark(change).type = change.type /\ Mark(change).doc = change.doc
      /\ RevisionOf(Mark(change)) = change.revision /\ AclOf(Mark(change)) = change.acl
  BY <1>1, MarkStands
<1> QED BY <1>1, <1>2 DEF BeforeJournal, Matches

\* The stores keep their types.
LEMMA TypesKept ==
    ASSUME StoresInv, NEW h, NEW change, CallMade(h, change)
    PROVE  TypesInv'
<1>1. /\ CallFits(h, change) /\ h \in CallRecord /\ TypesInv /\ Write(h) /\ Kind' = Kind
      /\ index' = index /\ change.doc \in Documents
  BY DEF CallMade, Progress, StoresInv, ChangeRecord, Kind
<1>2. evidence' \in [EvidenceId -> EvidenceRecord \union {Nothing}]
  BY <1>1, WritePut, WriteRetire, WriteElsewhere DEF TypesInv
<1>3. edges' \in [EdgeKey -> EdgeRecord \union {Nothing}]
  BY <1>1, WriteEdge, WriteElsewhere DEF TypesInv
<1>4. DOMAIN index' = Documents
  BY <1>1 DEF TypesInv
<1>5. DOMAIN catalog' = Documents
  BY <1>1 DEF TypesInv, CallMade
<1>6. DOMAIN journal' = Documents
  BY <1>1, WriteElsewhere, WriteProjection DEF TypesInv
<1>7. ASSUME NEW d \in Documents
      PROVE  journal'[d] = Nothing \/ JournalEntry(d, journal'[d])
  <2>1. CASE h.op = "journal" /\ h.key = d
    <3>1. JournalFits(h, change)
      BY <1>1 DEF CallFits
    <3>2. JournalEntry(d, h.projection)
      BY <3>1, <2>1 DEF JournalFits
    <3>3. journal'[d] = h.projection
      BY <1>1, <2>1, WriteProjection
    <3> QED BY <3>2, <3>3
  <2>2. CASE ~(h.op = "journal" /\ h.key = d)
    <3>1. journal'[d] = journal[d]
      BY <1>1, <2>2, WriteElsewhere, WriteProjection
    <3> QED BY <3>1, <1>1 DEF TypesInv
  <2> QED BY <2>1, <2>2
<1>8. \A d \in Documents : journal'[d] = Nothing \/ JournalEntry(d, journal[d])'
  BY <1>7, <1>1 DEF JournalEntry, EdgesFor
<1> QED BY <1>2, <1>3, <1>4, <1>5, <1>6, <1>8 DEF TypesInv

\* The edges stay backed by active evidence.
LEMMA BackedKept ==
    ASSUME StoresInv, NEW h, NEW change, CallMade(h, change)
    PROVE  BackedInv'
<1>1. /\ CallFits(h, change) /\ h \in CallRecord /\ TypesInv /\ Write(h) /\ Returns(h)
      /\ Kind' = Kind /\ BackedInv /\ Pending = {h} \union Pending'
      /\ \A c \in Pending' : Follows(h.op, c.op)
  BY DEF CallMade, Progress, StoresInv, Kind
<1>2. \A e : EdgesFor(e)' = EdgesFor(e)
  BY <1>1 DEF EdgesFor
<1> SUFFICES ASSUME NEW k \in EdgeKey, Active(edges'[k])
             PROVE  /\ edges'[k].support # {}
                    /\ \A e \in edges'[k].support : Active(evidence'[e]) /\ k \in EdgesFor(e)
  BY <1>1 DEF BackedInv, Active, EdgesFor
<1>3. CASE h.op = "edge" /\ h.key = k
  <2>1. h.support # {} /\ edges'[k].support = h.support /\ evidence' = evidence
    BY <1>1, <1>3, WriteEdge, WriteElsewhere
  <2>2. \A e \in h.support : k \in EdgesFor(e)
    BY <1>1, <1>3 DEF CallFits, EdgeFits
  <2>3. \A e \in h.support : Active(evidence[e])
    <3>1. CASE Active(edges[k]) /\ edges[k].support = h.support
      BY <3>1, <1>1 DEF BackedInv
    <3>2. CASE Backed(k, h.support)
      BY <3>2 DEF Backed
    <3> QED BY <3>1, <3>2, <1>1, <1>3, <2>1 DEF Returns
  <2> QED BY <2>1, <2>2, <2>3 DEF Active
<1>4. CASE ~(h.op = "edge" /\ h.key = k)
  <2>1. edges'[k] = edges[k]
    BY <1>1, <1>4, WriteEdge, WriteElsewhere
  <2>2. /\ edges[k].support # {}
        /\ \A e \in edges[k].support : Active(evidence[e]) /\ k \in EdgesFor(e)
    BY <2>1, <1>1 DEF BackedInv
  <2>3. edges[k].support \subseteq EvidenceId
    BY <2>1, <1>1 DEF TypesInv, EdgeRecord, Active
  <2>4. ASSUME NEW e \in edges[k].support PROVE Active(evidence'[e])
    <3>1. CASE h.op = "retire-evidence" /\ h.key = e
      <4>1. \E x \in Pending : x.op = "edge" /\ x.key = k
        BY <3>1, <2>1, <1>1 DEF CallFits, RetireFits
      <4> QED BY <4>1, <3>1, <1>1, Afterwards
    <3>2. CASE h.op = "put-evidence" /\ h.key = e
      BY <3>2, <1>1, WritePut
    <3>3. CASE ~(h.op \in {"put-evidence", "retire-evidence"} /\ h.key = e)
      <4>1. evidence'[e] = evidence[e]
        BY <3>3, <2>3, <1>1, WritePut, WriteRetire, WriteElsewhere
      <4> QED BY <4>1, <2>2
    <3> QED BY <3>1, <3>2, <3>3
  <2> QED BY <2>1, <2>2, <2>4
<1> QED BY <1>3, <1>4

\* Evidence of an earlier revision is not left behind.
LEMMA StaleKept ==
    ASSUME StoresInv, NEW h, NEW change, CallMade(h, change)
    PROVE  StaleInv'
<1>1. /\ CallFits(h, change) /\ h \in CallRecord /\ TypesInv /\ Write(h)
      /\ StaleInv /\ Pending = {h} \union Pending'
      /\ \A c \in Pending' : Follows(h.op, c.op)
      /\ UNCHANGED <<wiring, unfinished>>
      /\ change \in ChangeRecord /\ Projectable(change) /\ Mark(change) \in unfinished
      /\ change.doc \in Documents
  BY DEF CallMade, Progress, StoresInv, ChangeRecord
<1> SUFFICES ASSUME NEW k \in EvidenceId, Active(evidence'[k])
             PROVE  /\ wiring # "checkout"
                    /\ \/ Active(journal'[k[1]]) /\ journal'[k[1]].evidence = k
                       \/ \E u \in unfinished : /\ u.type = "upsert" /\ u.doc = k[1]
                                                /\ RevisionOf(u) = k[2]
  BY <1>1 DEF StaleInv, Active, RevisionOf
<1>2. CASE h.op = "put-evidence" /\ h.key = k
  <2>1. wiring # "checkout" /\ change.type = "upsert" /\ k = EvidenceOf(change)
    BY <1>1, <1>2 DEF CallFits, PutFits, PlaceFits
  <2>2. k[1] = change.doc /\ k[2] = change.revision
    BY <2>1 DEF EvidenceOf
  <2> QED BY <1>1, <2>1, <2>2, MarkStands
<1>3. CASE ~(h.op = "put-evidence" /\ h.key = k)
  <2>1. Active(evidence[k])
    BY <1>1, <1>3, WritePut, WriteRetire, WriteElsewhere
  <2>2. /\ wiring # "checkout"
        /\ \/ Active(journal[k[1]]) /\ journal[k[1]].evidence = k
           \/ \E u \in unfinished : u.type = "upsert" /\ u.doc = k[1] /\ RevisionOf(u) = k[2]
    BY <2>1, <1>1 DEF StaleInv
  <2>3. CASE h.op = "journal" /\ h.key = k[1] /\ Active(journal[k[1]]) /\ journal[k[1]].evidence = k
    <3>1. JournalPending /\ change.doc = k[1] /\ evidence' = evidence
      BY <1>1, <2>3, WriteElsewhere DEF CallFits, JournalFits, JournalPending
    <3>2. BeforeJournal(change)
      BY <3>1 DEF CallMade, Progress
    <3>3. \A c \in Pending : c.op # "retire-evidence"
      BY <1>1, <2>3, Afterwards
    <3>4. change.type = "upsert" /\ k = EvidenceOf(change)
      BY <2>1, <2>3, <3>1, <3>2, <3>3 DEF BeforeJournal
    <3>5. k[2] = change.revision
      BY <3>4 DEF EvidenceOf
    <3> QED BY <1>1, <2>2, <3>1, <3>4, <3>5, MarkStands
  <2>4. CASE ~(h.op = "journal" /\ h.key = k[1])
    <3>1. journal'[k[1]] = journal[k[1]]
      BY <1>1, <2>4, EvidenceIdForm, WriteElsewhere, WriteProjection
    <3> QED BY <3>1, <2>2
  <2> QED BY <2>2, <2>3, <2>4
<1> QED BY <1>2, <1>3

\* What the journal says of a document stays there.
LEMMA JournalKept ==
    ASSUME StoresInv, NEW h, NEW change, CallMade(h, change)
    PROVE  JournalInv'
<1>1. /\ CallFits(h, change) /\ h \in CallRecord /\ TypesInv /\ Write(h)
      /\ JournalInv /\ Pending = {h} \union Pending'
      /\ \A c \in Pending' : Follows(h.op, c.op)
      /\ UNCHANGED <<wiring, unfinished>>
      /\ change \in ChangeRecord /\ Projectable(change) /\ Mark(change) \in unfinished
      /\ change.doc \in Documents
  BY DEF CallMade, Progress, StoresInv, ChangeRecord
<1> SUFFICES ASSUME wiring = "repository", NEW d \in Documents, Active(journal'[d]),
                    \A u \in unfinished : u.doc = d => Matches(u, journal'[d])
             PROVE  Materialized(journal[d])'
  BY <1>1 DEF JournalInv, Active, Matches
<1>2. CASE h.op = "journal" /\ d = change.doc
  <2> PICK p : p = h.projection
    OBVIOUS
  <2>1. /\ journal'[d] = p /\ evidence' = evidence /\ edges' = edges
    BY <1>1, <1>2, WriteElsewhere, WriteProjection DEF CallFits, JournalFits
  <2>2. change.type = "upsert" /\ p = ActiveProjection(Kind, change)
    BY <1>1, <1>2, <2>1 DEF CallFits, JournalFits, Active
  <2>3. /\ p.evidence = EvidenceOf(change) /\ p.acl = change.acl
    BY <2>2 DEF ActiveProjection, EvidenceOf
  <2>4. p.edges = EdgesFor(EvidenceOf(change))
    BY <2>2 DEF ActiveProjection, EvidenceOf, EdgesFor
  <2>5. JournalPending
    BY <1>1, <1>2 DEF JournalPending
  <2>6. BeforeJournal(change)
    BY <2>5 DEF CallMade, Progress
  <2>7. \A c \in Pending : c.op # "put-evidence" /\ c.op # "edge"
    BY <1>1, <1>2, Afterwards
  <2>8. /\ Active(evidence[p.evidence]) /\ evidence[p.evidence].acl = p.acl
        /\ \A k \in p.edges : Active(edges[k]) /\ p.evidence \in edges[k].support
    BY <2>2, <2>3, <2>4, <2>6, <2>7 DEF BeforeJournal
  <2> QED BY <2>1, <2>8 DEF Materialized, Active
<1>3. CASE h.op # "journal" /\ d = change.doc /\ JournalPending
  <2>1. journal' = journal
    BY <1>1, <1>3, WriteElsewhere
  <2> QED BY <2>1, <1>1, <1>3, JournalBehind
<1>4. CASE h.op # "journal" /\ ~JournalPending
  <2>1. h.op = "catalog"
    BY <1>1, <1>4, CallForms DEF CallFits, PlaceFits, CallMade
  <2>2. evidence' = evidence /\ edges' = edges /\ journal' = journal
    BY <1>1, <2>1, WriteElsewhere
  <2>3. Materialized(journal[d])
    BY <1>1, <2>2 DEF JournalInv
  <2> QED BY <2>2, <2>3 DEF Materialized, Active
<1>5. CASE d # change.doc
  <2>1. journal'[d] = journal[d]
    BY <1>1, <1>5, WriteElsewhere, WriteProjection DEF CallFits, JournalFits
  <2> PICK p : p = journal[d]
    OBVIOUS
  <2>2. /\ Materialized(p) /\ Active(p)
    BY <1>1, <2>1 DEF JournalInv
  <2>3. /\ p.evidence \in EvidenceId /\ p.evidence[1] = d /\ p.edges \subseteq EdgeKey
    BY <1>1, <2>2, ActiveEntry
  <2>4. evidence'[p.evidence] = evidence[p.evidence]
    <3>1. CASE h.op = "put-evidence"
      <4>1. h.key = EvidenceOf(change)
        BY <1>1, <3>1 DEF CallFits, PutFits
      <4>2. h.key[1] = change.doc
        BY <4>1 DEF EvidenceOf
      <4> QED BY <1>1, <1>5, <2>3, <3>1, <4>2, WritePut
    <3>2. CASE h.op = "retire-evidence"
      <4>1. h.key[1] = change.doc
        BY <1>1, <3>2 DEF CallFits, RetireFits
      <4> QED BY <1>1, <1>5, <2>3, <3>2, <4>1, WriteRetire
    <3>3. CASE h.op \notin {"put-evidence", "retire-evidence"}
      BY <1>1, <3>3, WriteElsewhere
    <3> QED BY <3>1, <3>2, <3>3
  <2>5. ASSUME NEW k \in p.edges PROVE Active(edges'[k]) /\ p.evidence \in edges'[k].support
    <3>1. CASE h.op = "edge" /\ h.key = k
      <4>1. p.evidence \in h.support
        BY <1>1, <1>5, <2>2, <3>1, <2>5 DEF CallFits, EdgeFits
      <4> QED BY <1>1, <3>1, <4>1, WriteEdge
    <3>2. CASE ~(h.op = "edge" /\ h.key = k)
      <4>1. edges'[k] = edges[k]
        BY <1>1, <2>3, <2>5, <3>2, WriteEdge, WriteElsewhere
      <4> QED BY <4>1, <2>2, <2>5 DEF Materialized
    <3> QED BY <3>1, <3>2
  <2> QED BY <2>1, <2>2, <2>4, <2>5 DEF Materialized, Active
<1> QED BY <1>2, <1>3, <1>4, <1>5

\* The catalog is written while the document's change is begun.
LEMMA CatalogKept ==
    ASSUME StoresInv, NEW h, NEW change, CallMade(h, change)
    PROVE  CatalogInv'
<1>1. /\ CallFits(h, change) /\ h \in CallRecord /\ TypesInv /\ Write(h)
      /\ CatalogInv /\ UNCHANGED <<wiring, unfinished, index>>
      /\ Mark(change) \in unfinished
      /\ change.doc \in Documents
  BY DEF CallMade, Progress, StoresInv, ChangeRecord
<1>2. ~Settled(change.doc) /\ ~Settled(change.doc)'
  BY <1>1 DEF Settled, Mark
<1>3. ASSUME NEW d \in Documents, d # change.doc
      PROVE  catalog'[d] = catalog[d] /\ journal'[d] = journal[d]
  <2>1. catalog'[d] = catalog[d]
    BY <1>1, <1>3 DEF CallMade, CallFits, PlaceFits, TypesInv
  <2>2. journal'[d] = journal[d]
    BY <1>1, <1>3, WriteElsewhere, WriteProjection DEF CallFits, JournalFits
  <2> QED BY <2>1, <2>2
<1>4. catalog'[change.doc] # catalog[change.doc] => wiring # "knowledge"
  BY <1>1 DEF CallMade, CallFits, PlaceFits
<1>5. \A d \in Documents : Settled(d)' <=> Settled(d)
  BY <1>1 DEF Settled
<1> QED BY <1>1, <1>2, <1>3, <1>4, <1>5 DEF CatalogInv, Active

\* A call keeps the stores and the job as they should be.
LEMMA CallStep ==
    ASSUME StoresInv, JobInv, Call
    PROVE  StoresInv' /\ JobInv'
<1>1. /\ job' \in JobRecord /\ Queue' = Queue /\ InSequence(Calls)'
      /\ \E c \in Pending' : c.op = "next"
      /\ \A c \in Pending' : c.op = "next" => CallMade(Head(job.calls), c.change)
  BY CallTaken
<1>2. PICK n \in Pending' : n.op = "next"
  BY <1>1
<1>3. CallMade(Head(job.calls), n.change)
  BY <1>1, <1>2
<1>4. StoresInv'
  BY <1>3, TypesKept, BackedKept, StaleKept, JournalKept, CatalogKept DEF StoresInv
<1>5. ASSUME NEW c \in Pending', c.op = "next" PROVE Progress(c.change)'
  BY <1>1, <1>5, ProgressKept
<1>6. (\A i \in 1..Len(Queue) : Projectable(Queue[i]))'
  <2>1. wiring' = wiring
    BY <1>3 DEF CallMade
  <2> QED BY <1>1, <2>1 DEF JobInv, Projectable
<1>7. \A c \in Pending' : c.op = "next" => Progress(c.change)'
  BY <1>5
<1> QED BY <1>1, <1>4, <1>6, <1>7 DEF JobInv

-----------------------------------------------------------------------------
(* The calls of a change *)

\* The sequence s lists the calls of S, in the order of a change.
Lists(s, S) ==
    /\ s \in Seq(CallRecord) /\ InSequence(s)
    /\ {s[i] : i \in 1..Len(s)} = S

\* Lists are put together.
LEMMA ListsConcat ==
    ASSUME NEW s, NEW S, NEW t, NEW T, Lists(s, S), Lists(t, T),
           \A x \in S, y \in T : Follows(x.op, y.op)
    PROVE  Lists(s \o t, S \union T)
<1>1. s \in Seq(CallRecord) /\ t \in Seq(CallRecord) /\ InSequence(s) /\ InSequence(t)
  BY DEF Lists
<1> PICK u : u = s \o t
  OBVIOUS
<1>2. /\ u \in Seq(CallRecord) /\ Len(u) = Len(s) + Len(t)
      /\ Len(s) \in Nat /\ Len(t) \in Nat
      /\ \A i \in 1..Len(s) : u[i] = s[i]
      /\ \A i \in 1..Len(t) : u[Len(s) + i] = t[i]
  <2>1. u \in Seq(CallRecord) /\ Len(u) = Len(s) + Len(t)
    BY <1>1, ConcatProperties
  <2>2. \A i \in 1..(Len(s) + Len(t)) : u[i] = IF i <= Len(s) THEN s[i] ELSE t[i - Len(s)]
    BY <1>1, ConcatProperties
  <2>3. Len(s) \in Nat /\ Len(t) \in Nat
    BY <1>1
  <2>4. \A i \in 1..Len(s) : u[i] = s[i]
    BY <2>2, <2>3
  <2>5. ASSUME NEW i \in 1..Len(t) PROVE u[Len(s) + i] = t[i]
    <3>1. Len(s) + i \in 1..(Len(s) + Len(t)) /\ ~(Len(s) + i <= Len(s))
          /\ (Len(s) + i) - Len(s) = i
      BY <2>3
    <3> QED BY <2>2, <3>1
  <2> QED BY <2>1, <2>3, <2>4, <2>5
<1>3. \A i \in 1..Len(u) : i \notin 1..Len(s) => i - Len(s) \in 1..Len(t) /\ u[i] = t[i - Len(s)]
  <2> SUFFICES ASSUME NEW i \in 1..Len(u), i \notin 1..Len(s)
               PROVE  i - Len(s) \in 1..Len(t) /\ u[i] = t[i - Len(s)]
    OBVIOUS
  <2>1. i - Len(s) \in 1..Len(t) /\ Len(s) + (i - Len(s)) = i
    BY <1>2
  <2> QED BY <1>2, <2>1
<1>4. /\ \A i \in 1..Len(s) : s[i] \in S
      /\ \A i \in 1..Len(t) : t[i] \in T
  BY DEF Lists
<1>5. InSequence(u)
  <2> SUFFICES ASSUME NEW i \in 1..Len(u), NEW j \in 1..Len(u), i < j
               PROVE  Follows(u[i].op, u[j].op)
    BY DEF InSequence
  <2>1. CASE j \in 1..Len(s)
    <3>1. i \in 1..Len(s)
      BY <2>1, <1>2
    <3> QED BY <2>1, <3>1, <1>1, <1>2 DEF InSequence
  <2>2. CASE j \notin 1..Len(s) /\ i \in 1..Len(s)
    BY <2>2, <1>2, <1>3, <1>4
  <2>3. CASE j \notin 1..Len(s) /\ i \notin 1..Len(s)
    <3>1. i - Len(s) < j - Len(s)
      BY <1>2
    <3> QED BY <2>3, <3>1, <1>3, <1>1 DEF InSequence
  <2> QED BY <2>1, <2>2, <2>3
<1>6. {u[i] : i \in 1..Len(u)} = S \union T
  <2>1. ASSUME NEW i \in 1..Len(u) PROVE u[i] \in S \union T
    BY <1>2, <1>3, <1>4
  <2>2. ASSUME NEW x \in S PROVE x \in {u[i] : i \in 1..Len(u)}
    <3>1. PICK i \in 1..Len(s) : x = s[i]
      BY DEF Lists
    <3>2. i \in 1..Len(u) /\ u[i] = x
      BY <3>1, <1>2
    <3> QED BY <3>2
  <2>3. ASSUME NEW x \in T PROVE x \in {u[i] : i \in 1..Len(u)}
    <3>1. PICK i \in 1..Len(t) : x = t[i]
      BY DEF Lists
    <3>2. Len(s) + i \in 1..Len(u) /\ u[Len(s) + i] = x
      BY <3>1, <1>2
    <3> QED BY <3>2
  <2> QED BY <2>1, <2>2, <2>3
<1> QED BY <1>2, <1>5, <1>6 DEF Lists

\* No call, one call and two.
LEMMA ListsFew ==
    /\ Lists(<<>>, {})
    /\ \A c \in CallRecord : Lists(<<c>>, {c})
    /\ \A c, e \in CallRecord : Follows(c.op, e.op) => Lists(<<c, e>>, {c, e})
<1>1. Lists(<<>>, {})
  BY DEF Lists, InSequence
<1>2. ASSUME NEW c \in CallRecord PROVE Lists(<<c>>, {c})
  <2>1. <<c>> \in Seq(CallRecord) /\ Len(<<c>>) = 1 /\ <<c>>[1] = c
    OBVIOUS
  <2> QED BY <2>1 DEF Lists, InSequence
<1>3. ASSUME NEW c \in CallRecord, NEW e \in CallRecord, Follows(c.op, e.op)
      PROVE  Lists(<<c, e>>, {c, e})
  <2>1. /\ <<c, e>> \in Seq(CallRecord) /\ Len(<<c, e>>) = 2
        /\ <<c, e>>[1] = c /\ <<c, e>>[2] = e
    OBVIOUS
  <2> QED BY <2>1, <1>3 DEF Lists, InSequence
<1> QED BY <1>1, <1>2, <1>3

\* A projection whose evidence supports its edges.
Candidate(p) == p.evidence \in EvidenceId /\ p.edges = EdgesFor(p.evidence)

\* The calls for a set of edges.
EdgeCall(k, candidates) == [op |-> "edge", key |-> k, support |-> Support(candidates, k)]

\* _reconcile_relationships makes one call for each affected edge.
LEMMA EdgeCallsListed ==
    ASSUME NEW affected \in SUBSET EdgeKey, IsFiniteSet(affected),
           NEW candidates, \A p \in candidates : Candidate(p)
    PROVE  /\ Lists(EdgeCalls(affected, candidates), {EdgeCall(k, candidates) : k \in affected})
           /\ \A k \in affected : /\ EdgeCall(k, candidates) \in CallRecord
                                  /\ EdgeCall(k, candidates).op = "edge"
                                  /\ EdgeCall(k, candidates).key = k
                                  /\ EdgeCall(k, candidates).support = Support(candidates, k)
<1>1. ASSUME NEW k \in affected
      PROVE  /\ EdgeCall(k, candidates) \in CallRecord
             /\ EdgeCall(k, candidates).op = "edge"
             /\ EdgeCall(k, candidates).key = k
             /\ EdgeCall(k, candidates).support = Support(candidates, k)
  <2>1. Support(candidates, k) \in SUBSET EvidenceId
    BY DEF Support, Candidate
  <2> PICK S : S = Support(candidates, k)
    OBVIOUS
  <2>2. EdgeCall(k, candidates) = [op |-> "edge", key |-> k, support |-> S]
    BY DEF EdgeCall
  <2>3. [op |-> "edge", key |-> k, support |-> S] \in
           [op : {"edge"}, key : EdgeKey, support : SUBSET EvidenceId]
    BY <2>1
  <2> QED BY <2>2, <2>3 DEF CallRecord
<1> PICK keys : keys = SetToSeq(affected)
  OBVIOUS
<1>2. /\ keys \in Seq(affected) /\ {keys[i] : i \in 1..Len(keys)} = affected
  BY ListOfSet
<1> PICK s : s = EdgeCalls(affected, candidates)
  OBVIOUS
<1>3. s = [i \in 1..Len(keys) |-> EdgeCall(keys[i], candidates)]
  BY DEF EdgeCalls, EdgeCall
<1>4. \A i \in 1..Len(keys) : keys[i] \in affected
  BY <1>2
<1>5. Len(keys) \in Nat
  BY <1>2
<1>6. s \in Seq(CallRecord) /\ Len(s) = Len(keys)
  BY <1>1, <1>3, <1>4, <1>5
<1>7. \A i \in 1..Len(s) : s[i] = EdgeCall(keys[i], candidates) /\ s[i].op = "edge"
  BY <1>1, <1>3, <1>4, <1>6
<1>8. InSequence(s)
  BY <1>7 DEF InSequence, Follows
<1>9. {s[i] : i \in 1..Len(s)} = {EdgeCall(k, candidates) : k \in affected}
  BY <1>2, <1>6, <1>7
<1> QED BY <1>1, <1>6, <1>8, <1>9 DEF Lists

\* The calls R of _retire_unreferenced.
Retired(R, d, previous, candidates) ==
    /\ Lists(RetireCalls(previous, candidates), R)
    /\ \A c \in R : c \in CallRecord /\ c.op \in {"retire-evidence", "retire-entity"}
    /\ \A c \in R : c.op = "retire-evidence" =>
          /\ previous # Nothing /\ JournalEntry(d, previous) /\ previous \in Projection
          /\ c.key = previous.evidence
          /\ \A p \in candidates : p.evidence # previous.evidence
    /\ previous # Nothing /\ previous \in Projection
          /\ (\A p \in candidates : p.evidence # previous.evidence)
          => \E c \in R : c.op = "retire-evidence" /\ c.key = previous.evidence

\* _retire_unreferenced retires what the previous projection alone refers to.
LEMMA RetireCallsListed ==
    ASSUME NEW d \in Documents, NEW previous, previous = Nothing \/ JournalEntry(d, previous),
           NEW candidates
    PROVE  \E R : Retired(R, d, previous, candidates)
<1>1. CASE previous = Nothing \/ previous.evidence = Nothing
  <2>1. RetireCalls(previous, candidates) = <<>>
    BY <1>1 DEF RetireCalls
  <2>2. previous # Nothing => previous \notin Projection
    BY <1>1, NothingIsNoId DEF Projection
  <2>3. Lists(RetireCalls(previous, candidates), {})
    BY <2>1, ListsFew
  <2> QED BY <2>2, <2>3 DEF Retired
<1>2. CASE previous # Nothing /\ previous.evidence # Nothing
  <2>1. previous \in Projection /\ JournalEntry(d, previous)
    BY <1>2 DEF JournalEntry, EmptyProjection
  <2>2. previous.evidence \in EvidenceId /\ previous.entity \in EntityKey
    BY <2>1 DEF Projection
  <2> PICK a : a = [op |-> "retire-evidence", key |-> previous.evidence]
    OBVIOUS
  <2> PICK b : b = [op |-> "retire-entity", key |-> previous.entity]
    OBVIOUS
  <2>3. a \in CallRecord /\ a.op = "retire-evidence" /\ a.key = previous.evidence
    BY <2>2 DEF CallRecord
  <2>4. b \in CallRecord /\ b.op = "retire-entity"
    BY <2>2 DEF CallRecord
  <2> DEFINE out == \A p \in candidates : p.evidence # previous.evidence
             s == IF previous.evidence \in {p.evidence : p \in candidates} THEN <<>> ELSE <<a>>
             S == IF out THEN {a} ELSE {}
             t == IF previous.entity \in {p.entity : p \in candidates} THEN <<>> ELSE <<b>>
             T == IF previous.entity \in {p.entity : p \in candidates} THEN {} ELSE {b}
  <2>5. RetireCalls(previous, candidates) = s \o t
    BY <1>2 DEF RetireCalls
  <2>6. Lists(s, S)
    BY <2>3, ListsFew
  <2>7. Lists(t, T)
    BY <2>4, ListsFew
  <2>8. \A x \in S, y \in T : Follows(x.op, y.op)
    BY <2>3, <2>4 DEF Follows, Rank
  <2>9. \A c \in S : c = a /\ out
    OBVIOUS
  <2>10. \A c \in T : c = b
    OBVIOUS
  <2>11. out => a \in S
    OBVIOUS
  <2>12. out <=> \A p \in candidates : p.evidence # previous.evidence
    OBVIOUS
  <2> HIDE DEF s, t, S, T, out
  <2>13. Lists(RetireCalls(previous, candidates), S \union T)
    BY <2>5, <2>6, <2>7, <2>8, ListsConcat
  <2>14. \A c \in S \union T : c \in CallRecord /\ c.op \in {"retire-evidence", "retire-entity"}
    BY <2>3, <2>4, <2>9, <2>10
  <2>15. \A c \in S \union T : c.op = "retire-evidence" => c = a /\ out
    BY <2>3, <2>4, <2>9, <2>10
  <2>16. Retired(S \union T, d, previous, candidates)
    BY <1>2, <2>1, <2>3, <2>11, <2>12, <2>13, <2>14, <2>15 DEF Retired
  <2> QED BY <2>16
<1> QED BY <1>1, <1>2

\* The calls S of a change, against the stores as the change finds them.
Planned(S, change) ==
    LET d == change.doc
    IN /\ \A c \in S : /\ c \in CallRecord /\ c.op \notin {"catalog", "next"}
                       /\ PutFits(c, change) /\ EdgeFits(c, change) /\ JournalFits(c, change)
       /\ \A c \in S : c.op = "retire-evidence" =>
             /\ c.key[1] = d
             /\ change.type = "upsert" => c.key # EvidenceOf(change)
             /\ \A x \in S : x.op = "edge" => c.key \notin x.support
             /\ \A k \in EdgeKey : Active(edges[k]) /\ c.key \in edges[k].support =>
                   \E x \in S : x.op = "edge" /\ x.key = k
       /\ \E c \in S : c.op = "journal"
       /\ Active(journal[d]) =>
             \/ \E c \in S : c.op = "retire-evidence" /\ c.key = journal[d].evidence
             \/ change.type = "upsert" /\ journal[d].evidence = EvidenceOf(change)
       /\ change.type = "upsert" =>
             /\ ~(/\ Active(journal[d]) /\ journal[d].revision = change.revision
                  /\ journal[d].acl = change.acl)
             /\ \E c \in S : c.op = "put-evidence"
             /\ \A k \in EdgesFor(EvidenceOf(change)) : \E c \in S : c.op = "edge" /\ c.key = k

\* The other sources are candidates, each under its own document.
LEMMA OthersAreCandidates ==
    ASSUME TypesInv, NEW d \in Documents
    PROVE  /\ \A p \in Others(d) : Candidate(p) /\ p.evidence[1] # d
           /\ \A o \in Documents \ {d} : Active(journal[o]) => journal[o] \in Others(d)
<1>1. ASSUME NEW o \in Documents, Active(journal[o])
      PROVE  Candidate(journal[o]) /\ journal[o].evidence[1] = o /\ journal[o].doc = o
  <2>1. JournalEntry(o, journal[o])
    BY <1>1 DEF TypesInv, Active
  <2> QED BY <1>1, <2>1, ActiveEntry DEF Candidate, JournalEntry
<1>2. \A p \in Others(d) : \E o \in Documents : Active(journal[o]) /\ p = journal[o] /\ p.doc # d
  BY DEF Others, ActiveProjections
<1>3. \A o \in Documents : Active(journal[o]) => journal[o] \in ActiveProjections
  BY DEF ActiveProjections
<1> QED BY <1>1, <1>2, <1>3 DEF Others

\* Two elements are finitely many.
LEMMA PairIsFinite ==
    ASSUME NEW a, NEW b
    PROVE  IsFiniteSet({a, b})
<1>1. IsFiniteSet({a}) /\ IsFiniteSet({b})
  BY FS_Singleton
<1>2. IsFiniteSet({a} \union {b})
  BY <1>1, FS_Union
<1>3. {a} \union {b} = {a, b}
  OBVIOUS
<1> QED BY <1>2, <1>3

\* The calls S of Supersede: an edge keeps the candidates' support, and evidence
\* is retired that no candidate has.
Superseded(S, d, added, candidates) ==
    /\ Lists(Supersede(journal[d], added, candidates), S)
    /\ \A c \in S : c \in CallRecord
          /\ c.op \in {"edge", "retire-evidence", "retire-entity"}
    /\ \A c \in S : c.op = "edge" =>
          c.key \in EdgeKey /\ c.support = Support(candidates, c.key)
    /\ \A k \in added : \E c \in S : c.op = "edge" /\ c.key = k
    /\ \A c \in S : c.op = "retire-evidence" =>
          /\ c.key[1] = d
          /\ \A p \in candidates : p.evidence # c.key
          /\ \A k \in EdgeKey : Active(edges[k]) /\ c.key \in edges[k].support =>
                \E x \in S : x.op = "edge" /\ x.key = k
    /\ Active(journal[d]) =>
          \/ \E c \in S : c.op = "retire-evidence" /\ c.key = journal[d].evidence
          \/ \E p \in candidates : p.evidence = journal[d].evidence

\* The relationships of a change and what it retires: Supersede.
LEMMA SupersedeListed ==
    ASSUME StoresInv, NEW d \in Documents, NEW candidates,
           NEW added \in SUBSET EdgeKey, IsFiniteSet(added),
           \A p \in candidates : Candidate(p)
    PROVE  \E S : Superseded(S, d, added, candidates)
<1>1. TypesInv /\ BackedInv
  BY DEF StoresInv
<1> PICK previous : previous = journal[d]
  OBVIOUS
<1>2. previous = Nothing \/ JournalEntry(d, previous)
  BY <1>1 DEF TypesInv
<1> PICK affected : affected = EdgesOf(previous) \union added
  OBVIOUS
<1>3. EdgesOf(previous) \in SUBSET EdgeKey /\ IsFiniteSet(EdgesOf(previous))
  <2>1. CASE previous = Nothing
    BY <2>1, FS_EmptySet DEF EdgesOf
  <2>2. CASE previous # Nothing /\ previous \in Projection
    <3>1. previous.edges = {OwnEdge(d, previous.revision), SharedEdge(Kind, d)} \/ previous.edges = {}
      BY <1>2, <2>2 DEF JournalEntry, EdgesFor, EmptyProjection
    <3>2. IsFiniteSet(previous.edges)
      <4> PICK a, b : a = OwnEdge(d, previous.revision) /\ b = SharedEdge(Kind, d)
        OBVIOUS
      <4>1. previous.edges = {a, b} \/ previous.edges = {}
        BY <3>1
      <4>2. IsFiniteSet({a, b})
        BY PairIsFinite
      <4> QED BY <4>1, <4>2, FS_EmptySet
    <3> QED BY <2>2, <3>2 DEF EdgesOf, Projection
  <2>3. CASE previous # Nothing /\ previous \in EmptyProjection
    <3>1. EdgesOf(previous) = {}
      BY <2>3 DEF EdgesOf, EmptyProjection
    <3> QED BY <3>1, FS_EmptySet
  <2> QED BY <1>2, <2>1, <2>2, <2>3 DEF JournalEntry
<1>4. affected \in SUBSET EdgeKey /\ IsFiniteSet(affected)
  BY <1>3, FS_Union
<1> DEFINE E == {EdgeCall(k, candidates) : k \in affected}
<1>5. /\ Lists(EdgeCalls(affected, candidates), E)
      /\ \A k \in affected : /\ EdgeCall(k, candidates) \in CallRecord
                             /\ EdgeCall(k, candidates).op = "edge"
                             /\ EdgeCall(k, candidates).key = k
                             /\ EdgeCall(k, candidates).support = Support(candidates, k)
  BY <1>4, EdgeCallsListed
<1>60. PICK R : Retired(R, d, previous, candidates)
  BY <1>2, RetireCallsListed
<1>6. /\ Lists(RetireCalls(previous, candidates), R)
      /\ \A c \in R : c \in CallRecord /\ c.op \in {"retire-evidence", "retire-entity"}
      /\ \A c \in R : c.op = "retire-evidence" =>
            /\ previous # Nothing /\ JournalEntry(d, previous) /\ previous \in Projection
            /\ c.key = previous.evidence
            /\ \A p \in candidates : p.evidence # previous.evidence
      /\ previous # Nothing /\ previous \in Projection
            /\ (\A p \in candidates : p.evidence # previous.evidence)
            => \E c \in R : c.op = "retire-evidence" /\ c.key = previous.evidence
  BY <1>60 DEF Retired
<1>7. \A c \in E : /\ c \in CallRecord /\ c.op = "edge" /\ c.key \in affected
                   /\ c.support = Support(candidates, c.key)
  BY <1>5
<1>8. \A k \in affected : \E c \in E : c.op = "edge" /\ c.key = k
  BY <1>5
<1> HIDE DEF E
<1>9. \A x \in E, y \in R : Follows(x.op, y.op)
  BY <1>6, <1>7 DEF Follows, Rank
<1>10. Lists(Supersede(previous, added, candidates), E \union R)
  BY <1>5, <1>6, <1>9, ListsConcat DEF Supersede
<1>11. ASSUME NEW c \in E \union R, c.op = "retire-evidence"
       PROVE  /\ c.key[1] = d
              /\ \A p \in candidates : p.evidence # c.key
              /\ \A k \in EdgeKey : Active(edges[k]) /\ c.key \in edges[k].support =>
                    \E x \in E \union R : x.op = "edge" /\ x.key = k
  <2>1. /\ previous # Nothing /\ JournalEntry(d, previous) /\ previous \in Projection
        /\ c.key = previous.evidence /\ \A p \in candidates : p.evidence # c.key
    BY <1>6, <1>7, <1>11
  <2>2. previous.evidence \in EvidenceId
    BY <2>1 DEF Projection
  <2>3. previous.evidence = <<d, previous.revision>> /\ previous.edges = EdgesFor(previous.evidence)
    BY <2>1, <2>2, NothingIsNoId DEF JournalEntry, EmptyProjection
  <2>4. ASSUME NEW k \in EdgeKey, Active(edges[k]), c.key \in edges[k].support
        PROVE  \E x \in E \union R : x.op = "edge" /\ x.key = k
    <3>1. k \in EdgesFor(c.key)
      BY <1>1, <2>4 DEF BackedInv
    <3>2. k \in affected
      <4>1. EdgesOf(previous) = previous.edges
        BY <2>1 DEF EdgesOf
      <4>2. k \in previous.edges
        BY <2>1, <2>3, <3>1
      <4> QED BY <4>1, <4>2
    <3> QED BY <3>2, <1>8
  <2> QED BY <2>1, <2>3, <2>4
<1>12. ASSUME Active(previous)
       PROVE  \/ \E c \in E \union R : c.op = "retire-evidence" /\ c.key = previous.evidence
              \/ \E p \in candidates : p.evidence = previous.evidence
  <2>1. previous # Nothing /\ previous \in Projection
    BY <1>12, <1>1, ActiveEntry DEF Active
  <2> QED BY <2>1, <1>6
<1>13. \A c \in E \union R : c \in CallRecord /\ c.op \in {"edge", "retire-evidence", "retire-entity"}
  BY <1>6, <1>7
<1>14. \A c \in E \union R : c.op = "edge" => c.key \in EdgeKey /\ c.support = Support(candidates, c.key)
  BY <1>4, <1>6, <1>7
<1>15. \A k \in added : \E c \in E \union R : c.op = "edge" /\ c.key = k
  BY <1>8
<1>16. Superseded(E \union R, d, added, candidates)
  BY <1>10, <1>11, <1>12, <1>13, <1>14, <1>15 DEF Superseded
<1> QED BY <1>16

\* The projections that are to be active after the change.
After(candidates, change) ==
    /\ \A p \in candidates : Candidate(p)
    /\ Others(change.doc) \subseteq candidates
    /\ change.type = "upsert" => \E p \in candidates : /\ p.evidence = EvidenceOf(change)
                                                       /\ p.edges = EdgesFor(EvidenceOf(change))

\* An edge of the plan keeps the evidence of every active source on it.
LEMMA EdgePlanned ==
    ASSUME TypesInv, NEW change \in ChangeRecord, NEW candidates, NEW c,
           After(candidates, change),
           c.op = "edge" => c.support = Support(candidates, c.key)
    PROVE  EdgeFits(c, change)
<1> SUFFICES ASSUME c.op = "edge" PROVE EdgeFits(c, change)
  BY DEF EdgeFits
<1>1. \A p \in candidates : c.key \in p.edges => p.evidence \in c.support
  BY DEF Support
<1>2. \A e \in c.support : \E p \in candidates : c.key \in p.edges /\ e = p.evidence
  BY DEF Support
<1>3. change.doc \in Documents
  BY DEF ChangeRecord
<1>4. \A o \in Documents \ {change.doc} : Active(journal[o]) => journal[o] \in candidates
  BY <1>3, OthersAreCandidates DEF After
<1> QED BY <1>1, <1>2, <1>4 DEF EdgeFits, Candidate, After

\* _delete of a source that is projected.
LEMMA DeletePlanned ==
    ASSUME StoresInv, NEW change \in ChangeRecord, wiring # "checkout",
           change.type = "delete", journal[change.doc] # Nothing,
           journal[change.doc].state # "deleted"
    PROVE  \E S : Lists(ProjectionCalls(Kind, change), S) /\ Planned(S, change)
<1> PICK d : d = change.doc
  OBVIOUS
<1> PICK previous : previous = journal[d]
  OBVIOUS
<1>1. d \in Documents /\ TypesInv /\ change.event \in EventId \union {Nothing}
  BY DEF ChangeRecord, StoresInv
<1>2. JournalEntry(d, previous) /\ previous \in Projection /\ previous.state = "active"
  BY <1>1 DEF TypesInv, JournalEntry, EmptyProjection, Projection, Life
<1>3. Active(previous)
  BY <1>2 DEF Active
<1>4. \A p \in Others(d) : Candidate(p) /\ p.evidence[1] # d
  BY <1>1, OthersAreCandidates
<1> PICK none : none = {}
  OBVIOUS
<1>5. none \in SUBSET EdgeKey /\ IsFiniteSet(none)
  BY FS_EmptySet
<1> PICK others : others = Others(d)
  OBVIOUS
<1>60. PICK S : Superseded(S, d, none, others)
  BY <1>1, <1>4, <1>5, SupersedeListed
<1>6. /\ Lists(Supersede(journal[d], none, others), S)
      /\ \A c \in S : c \in CallRecord /\ c.op \in {"edge", "retire-evidence", "retire-entity"}
  BY <1>60 DEF Superseded
<1>61. \A c \in S : c.op = "edge" => c.key \in EdgeKey /\ c.support = Support(others, c.key)
  BY <1>60 DEF Superseded
<1>62. ASSUME NEW c \in S, c.op = "retire-evidence"
       PROVE  /\ c.key[1] = d
              /\ \A q \in others : q.evidence # c.key
  BY <1>60, <1>62 DEF Superseded
<1>63. ASSUME NEW c \in S, c.op = "retire-evidence",
              NEW k \in EdgeKey, Active(edges[k]), c.key \in edges[k].support
       PROVE  \E x \in S : x.op = "edge" /\ x.key = k
  BY <1>60, <1>63 DEF Superseded
<1>64. Active(journal[d]) =>
         \/ \E c \in S : c.op = "retire-evidence" /\ c.key = journal[d].evidence
         \/ \E q \in others : q.evidence = journal[d].evidence
  BY <1>60 DEF Superseded
<1>65. \A k \in none : \E c \in S : c.op = "edge" /\ c.key = k
  BY <1>60 DEF Superseded
<1> PICK gone : gone = DeletedProjection(previous, change)
  OBVIOUS
<1>7. gone \in Projection /\ gone.state = "deleted" /\ JournalEntry(d, gone)
  <2>1. gone = [previous EXCEPT !.state = "deleted", !.event = change.event]
    BY DEF DeletedProjection
  <2>2. gone \in Projection /\ gone.state = "deleted"
        /\ gone.doc = previous.doc /\ gone.evidence = previous.evidence
        /\ gone.edges = previous.edges /\ gone.revision = previous.revision
    BY <1>1, <1>2, <2>1 DEF Projection, Life
  <2> QED BY <1>1, <1>2, <1>3, <2>2, ActiveEntry DEF JournalEntry, EmptyProjection
<1> PICK j : j = [op |-> "journal", key |-> d, projection |-> gone]
  OBVIOUS
<1>8. j \in CallRecord /\ j.op = "journal" /\ j.key = d /\ j.projection = gone
  BY <1>1, <1>7 DEF CallRecord
<1>9. ProjectionCalls(Kind, change) = Supersede(journal[d], none, Others(d)) \o <<j>>
  BY DEF ProjectionCalls
<1>10. Lists(<<j>>, {j})
  BY <1>8, ListsFew
<1>11. \A x \in S, y \in {j} : Follows(x.op, y.op)
  BY <1>6, <1>8 DEF Follows, Rank
<1>12. Lists(ProjectionCalls(Kind, change), S \union {j})
  BY <1>6, <1>9, <1>10, <1>11, ListsConcat
<1>13. \A c \in S \union {j} : /\ c \in CallRecord /\ c.op \notin {"catalog", "next"}
                               /\ PutFits(c, change)
  BY <1>6, <1>8 DEF PutFits
<1>14. ASSUME NEW c \in S \union {j} PROVE EdgeFits(c, change)
  <2>1. c.op = "edge" => c.support = Support(others, c.key)
    BY <1>61, <1>8
  <2>2. After(others, change)
    BY <1>1, <1>4 DEF After
  <2> QED BY <1>1, <2>1, <2>2, EdgePlanned
<1>15. \A c \in S \union {j} : JournalFits(c, change)
  BY <1>6, <1>7, <1>8 DEF JournalFits
<1>16. ASSUME NEW c \in S \union {j}, c.op = "retire-evidence"
       PROVE  /\ c.key[1] = d
              /\ \A x \in S \union {j} : x.op = "edge" => c.key \notin x.support
              /\ \A k \in EdgeKey : Active(edges[k]) /\ c.key \in edges[k].support =>
                    \E x \in S \union {j} : x.op = "edge" /\ x.key = k
  <2>1. c \in S
    BY <1>8, <1>16
  <2>2. \A x \in S \union {j} : x.op = "edge" => c.key \notin x.support
    <3> SUFFICES ASSUME NEW x \in S, x.op = "edge" PROVE c.key \notin x.support
      BY <1>8
    <3>1. \A q \in others : q.evidence # c.key
      BY <2>1, <1>16, <1>62
    <3>2. x.support = Support(others, x.key)
      BY <1>61
    <3> QED BY <3>1, <3>2 DEF Support
  <2>3. c.key[1] = d
    BY <1>16, <1>62, <2>1
  <2>4. \A k \in EdgeKey : Active(edges[k]) /\ c.key \in edges[k].support =>
           \E x \in S \union {j} : x.op = "edge" /\ x.key = k
    BY <1>16, <1>63, <2>1
  <2> QED BY <2>2, <2>3, <2>4
<1>17. \E c \in S \union {j} : c.op = "retire-evidence" /\ c.key = journal[d].evidence
  <2>1. journal[d].evidence[1] = d
    BY <1>1, <1>3, ActiveEntry
  <2> QED BY <1>3, <1>4, <1>64, <2>1
<1>18. Planned(S \union {j}, change)
  BY <1>8, <1>13, <1>14, <1>15, <1>16, <1>17 DEF Planned
<1> QED BY <1>12, <1>18

\* _upsert_file and _upsert_knowledge of content the journal does not hold.
LEMMA UpsertPlanned ==
    ASSUME StoresInv, NEW change \in ChangeRecord, Projectable(change), wiring # "checkout",
           change.type = "upsert",
           ~(Active(journal[change.doc]) /\ SameContent(journal[change.doc], change))
    PROVE  \E S : Lists(ProjectionCalls(Kind, change), S) /\ Planned(S, change)
<1> PICK d : d = change.doc
  OBVIOUS
<1> PICK new : new = EvidenceOf(change)
  OBVIOUS
<1>1. /\ d \in Documents /\ TypesInv /\ change.event \in EventId \union {Nothing}
      /\ change.revision \in Revisions /\ change.acl \in Acls
      /\ new \in EvidenceId /\ EdgesFor(new) \subseteq EdgeKey /\ new = <<d, change.revision>>
      /\ new[1] = d /\ new[2] = change.revision
  BY OwnKeys DEF ChangeRecord, StoresInv, Projectable, EvidenceOf
<1> PICK p : p = ActiveProjection(Kind, change)
  OBVIOUS
<1> PICK added : added = {OwnEdge(d, change.revision), SharedEdge(Kind, d)}
  OBVIOUS
<1>2. added = EdgesFor(new) /\ added \in SUBSET EdgeKey /\ IsFiniteSet(added)
  <2>1. added = EdgesFor(new)
    BY <1>1 DEF EdgesFor
  <2> PICK a, b : a = OwnEdge(d, change.revision) /\ b = SharedEdge(Kind, d)
    OBVIOUS
  <2>2. IsFiniteSet({a, b}) /\ added = {a, b}
    BY PairIsFinite
  <2> QED BY <1>1, <2>1, <2>2
<1>3. OwnedEntity(Kind, d, change.revision) \in EntityKey
  <2>1. Kind \in {"file", "knowledge"}
    BY DEF Kind
  <2> QED BY <1>1, <2>1 DEF EntityKey
<1>4. p = [state |-> "active", doc |-> d, revision |-> change.revision, acl |-> change.acl,
           event |-> change.event, entity |-> OwnedEntity(Kind, d, change.revision),
           evidence |-> new, edges |-> added]
  BY <1>1 DEF ActiveProjection
<1>5. /\ p \in Projection /\ p.state = "active" /\ p.doc = d /\ p.evidence = new
      /\ p.edges = added /\ p.revision = change.revision
      /\ p.entity = OwnedEntity(Kind, d, change.revision)
  BY <1>1, <1>2, <1>3, <1>4 DEF Projection, Life
<1>6. JournalEntry(d, p)
  BY <1>1, <1>2, <1>5 DEF JournalEntry
<1> PICK candidates : candidates = Others(d) \union {p}
  OBVIOUS
<1>7. \A q \in candidates : Candidate(q)
  BY <1>1, <1>2, <1>5, OthersAreCandidates DEF Candidate
<1>80. PICK S : Superseded(S, d, added, candidates)
  BY <1>1, <1>2, <1>7, SupersedeListed
<1>8. /\ Lists(Supersede(journal[d], added, candidates), S)
      /\ \A c \in S : c \in CallRecord /\ c.op \in {"edge", "retire-evidence", "retire-entity"}
  BY <1>80 DEF Superseded
<1>81. \A c \in S : c.op = "edge" => c.key \in EdgeKey /\ c.support = Support(candidates, c.key)
  BY <1>80 DEF Superseded
<1>82. ASSUME NEW c \in S, c.op = "retire-evidence"
       PROVE  /\ c.key[1] = d
              /\ \A q \in candidates : q.evidence # c.key
  BY <1>80, <1>82 DEF Superseded
<1>83. ASSUME NEW c \in S, c.op = "retire-evidence",
              NEW k \in EdgeKey, Active(edges[k]), c.key \in edges[k].support
       PROVE  \E x \in S : x.op = "edge" /\ x.key = k
  BY <1>80, <1>83 DEF Superseded
<1>84. Active(journal[d]) =>
         \/ \E c \in S : c.op = "retire-evidence" /\ c.key = journal[d].evidence
         \/ \E q \in candidates : q.evidence = journal[d].evidence
  BY <1>80 DEF Superseded
<1>85. \A k \in added : \E c \in S : c.op = "edge" /\ c.key = k
  BY <1>80 DEF Superseded
<1> PICK a : a = [op |-> "put-entity", key |-> OwnedEntity(Kind, d, change.revision)]
  OBVIOUS
<1> PICK b : b = [op |-> "put-evidence", key |-> new, acl |-> change.acl]
  OBVIOUS
<1> PICK j : j = [op |-> "journal", key |-> d, projection |-> p]
  OBVIOUS
<1>9. /\ a \in CallRecord /\ a.op = "put-entity"
      /\ b \in CallRecord /\ b.op = "put-evidence" /\ b.key = new /\ b.acl = change.acl
      /\ j \in CallRecord /\ j.op = "journal" /\ j.key = d /\ j.projection = p
  <2>1. a \in [op : {"put-entity", "retire-entity"}, key : EntityKey] /\ a.op = "put-entity"
    BY <1>3
  <2>2. /\ b \in [op : {"put-evidence"}, key : EvidenceId, acl : Acls]
        /\ b.op = "put-evidence" /\ b.key = new /\ b.acl = change.acl
    BY <1>1
  <2>3. /\ j \in [op : {"journal"}, key : Documents, projection : Projection \union EmptyProjection]
        /\ j.op = "journal" /\ j.key = d /\ j.projection = p
    BY <1>1, <1>5
  <2> QED BY <2>1, <2>2, <2>3 DEF CallRecord
<1>10. ProjectionCalls(Kind, change)
          = (<<a, b>> \o Supersede(journal[d], added, candidates)) \o <<j>>
  BY <1>5 DEF ProjectionCalls
<1>11. Lists(<<j>>, {j}) /\ Lists(<<a, b>>, {a, b})
  BY <1>9, ListsFew DEF Follows, Rank
<1>12. /\ \A x \in {a, b}, y \in S : Follows(x.op, y.op)
       /\ \A x \in {a, b} \union S, y \in {j} : Follows(x.op, y.op)
  BY <1>8, <1>9 DEF Follows, Rank
<1> DEFINE T == ({a, b} \union S) \union {j}
<1> PICK s : s = <<a, b>> \o Supersede(journal[d], added, candidates)
  OBVIOUS
<1> PICK U : U = {a, b} \union S
  OBVIOUS
<1>13. Lists(s, U)
  BY <1>8, <1>11, <1>12, ListsConcat
<1>130. Lists(s \o <<j>>, U \union {j})
  BY <1>11, <1>12, <1>13, ListsConcat
<1>14. Lists(ProjectionCalls(Kind, change), T)
  BY <1>10, <1>130
<1>15. \A c \in T : /\ c \in CallRecord /\ c.op \notin {"catalog", "next"}
                    /\ PutFits(c, change)
  BY <1>8, <1>9 DEF PutFits
<1>16. \A c \in T : c.op = "edge" => c.support = Support(candidates, c.key) /\ c \in S
  BY <1>81, <1>9
<1>17. ASSUME NEW c \in T PROVE EdgeFits(c, change)
  <2>1. c.op = "edge" => c.support = Support(candidates, c.key)
    BY <1>16
  <2>2. After(candidates, change)
    BY <1>1, <1>2, <1>5, <1>7 DEF After
  <2> QED BY <1>1, <2>1, <2>2, EdgePlanned
<1>18. \A c \in T : JournalFits(c, change)
  BY <1>6, <1>8, <1>9 DEF JournalFits
<1>19. ASSUME NEW c \in T, c.op = "retire-evidence"
       PROVE  /\ c.key[1] = d /\ c.key # new
              /\ \A x \in T : x.op = "edge" => c.key \notin x.support
              /\ \A k \in EdgeKey : Active(edges[k]) /\ c.key \in edges[k].support =>
                    \E x \in T : x.op = "edge" /\ x.key = k
  <2>1. c \in S
    BY <1>9, <1>19
  <2>2. /\ c.key[1] = d /\ \A q \in candidates : q.evidence # c.key
        /\ \A k \in EdgeKey : Active(edges[k]) /\ c.key \in edges[k].support =>
              \E x \in S : x.op = "edge" /\ x.key = k
    BY <1>82, <1>83, <1>19, <2>1
  <2>3. \A x \in T : x.op = "edge" => c.key \notin x.support
    <3> SUFFICES ASSUME NEW x \in T, x.op = "edge" PROVE c.key \notin x.support
      OBVIOUS
    <3>1. x.support = Support(candidates, x.key)
      BY <1>16
    <3> QED BY <2>2, <3>1 DEF Support
  <2>4. c.key # new
    BY <1>5, <2>2
  <2> QED BY <2>2, <2>3, <2>4
<1>20. ASSUME Active(journal[d])
       PROVE  \/ \E c \in T : c.op = "retire-evidence" /\ c.key = journal[d].evidence
              \/ journal[d].evidence = new
  <2>1. journal[d].evidence[1] = d
    BY <1>1, <1>20, ActiveEntry
  <2>2. \A q \in candidates : q.evidence = journal[d].evidence => q = p
    BY <1>1, <2>1, OthersAreCandidates
  <2> QED BY <1>5, <1>84, <1>20, <2>2
<1>21. ~(Active(journal[d]) /\ journal[d].revision = change.revision /\ journal[d].acl = change.acl)
  BY DEF SameContent
<1>22. \A k \in EdgesFor(new) : \E c \in T : c.op = "edge" /\ c.key = k
  BY <1>2, <1>85
<1>23. (\E c \in T : c.op = "journal") /\ (\E c \in T : c.op = "put-evidence")
  BY <1>9
<1> HIDE DEF T
<1>24. Planned(T, change)
  BY <1>15, <1>17, <1>18, <1>19, <1>20, <1>21, <1>22, <1>23 DEF Planned
<1> QED BY <1>14, <1>24

\* The calls of a change: none where the journal says it already.
LEMMA ChangePlanned ==
    ASSUME StoresInv, NEW change \in ChangeRecord, Projectable(change), wiring # "checkout"
    PROVE  \E S : /\ Lists(ProjectionCalls(Kind, change), S)
                  /\ (S = {} /\ AfterJournal(change)) \/ Planned(S, change)
<1> PICK d : d = change.doc
  OBVIOUS
<1>1. d \in Documents /\ TypesInv /\ change.event \in EventId \union {Nothing}
      /\ change.type \in {"upsert", "delete"} /\ change.revision \in Nat
  BY DEF ChangeRecord, StoresInv
<1>2. CASE change.type = "upsert" /\ Active(journal[d]) /\ SameContent(journal[d], change)
  <2>1. ProjectionCalls(Kind, change) = <<>>
    BY <1>2 DEF ProjectionCalls
  <2>2. AfterJournal(change)
    BY <1>2 DEF AfterJournal, SameContent
  <2> QED BY <2>1, <2>2, ListsFew
<1>3. CASE change.type = "upsert" /\ ~(Active(journal[d]) /\ SameContent(journal[d], change))
  BY <1>3, UpsertPlanned
<1>4. CASE change.type = "delete" /\ journal[d] # Nothing /\ journal[d].state # "deleted"
  BY <1>4, DeletePlanned
<1>5. CASE change.type = "delete" /\ journal[d] # Nothing /\ journal[d].state = "deleted"
  <2>1. ProjectionCalls(Kind, change) = <<>>
    BY <1>5 DEF ProjectionCalls
  <2>2. AfterJournal(change)
    BY <1>5 DEF AfterJournal
  <2> QED BY <2>1, <2>2, ListsFew
<1>6. CASE change.type = "delete" /\ journal[d] = Nothing
  <2> PICK p : p = EmptyTombstone(change)
    OBVIOUS
  <2> PICK j : j = [op |-> "journal", key |-> d, projection |-> p]
    OBVIOUS
  <2>1. p \in EmptyProjection /\ p.doc = d /\ p.state = "deleted"
    BY <1>1 DEF EmptyTombstone, EmptyProjection
  <2>2. j \in CallRecord /\ j.op = "journal" /\ j.key = d /\ j.projection = p
    BY <1>1, <2>1 DEF CallRecord
  <2>3. ProjectionCalls(Kind, change) = <<j>>
    BY <1>6 DEF ProjectionCalls
  <2>4. Lists(ProjectionCalls(Kind, change), {j})
    BY <2>2, <2>3, ListsFew
  <2>5. JournalFits(j, change) /\ PutFits(j, change) /\ EdgeFits(j, change)
    BY <1>6, <2>1, <2>2 DEF JournalFits, PutFits, EdgeFits, JournalEntry
  <2>6. Planned({j}, change)
    BY <1>6, <2>2, <2>5 DEF Planned, Active
  <2> QED BY <2>4, <2>6
<1> QED BY <1>1, <1>2, <1>3, <1>4, <1>5, <1>6

-----------------------------------------------------------------------------
(* The steps of a job *)

\* A change begins: it is marked before anything is written to its document.
LEMMA StoresBegin ==
    ASSUME StoresInv, NEW change \in ChangeRecord, unfinished' = unfinished \union {Mark(change)},
           UNCHANGED <<wiring, evidence, edges, journal, catalog>>,
           index' = index \/ index' = [index EXCEPT ![change.doc] = Indexed(change)]
    PROVE  StoresInv'
<1>1. change.doc \in Documents /\ Mark(change).doc = change.doc
  BY DEF ChangeRecord, Mark
<1>2. TypesInv'
  <2>1. DOMAIN index' = Documents
    BY DEF StoresInv, TypesInv
  <2> QED BY <2>1 DEF StoresInv, TypesInv, JournalEntry, EdgesFor, Kind
<1>3. BackedInv'
  BY DEF StoresInv, BackedInv, EdgesFor, Kind, Active
<1>4. StaleInv'
  BY DEF StoresInv, StaleInv, Active
<1>5. JournalInv'
  BY DEF StoresInv, JournalInv, Active, Materialized
<1>6. CatalogInv'
  <2>1. ~Settled(change.doc)'
    BY <1>1 DEF Settled
  <2>2. \A d \in Documents : Settled(d)' => Settled(d)
    BY DEF Settled
  <2>3. \A d \in Documents \ {change.doc} : index'[d] = index[d]
    BY <1>1 DEF StoresInv, TypesInv
  <2> QED BY <2>1, <2>2, <2>3 DEF StoresInv, CatalogInv, Active
<1> QED BY <1>2, <1>3, <1>4, <1>5, <1>6 DEF StoresInv

\* The calls S of the projection, then the catalog's call k, then the end n.
Whole(S, k, n) == (S \union (IF wiring = "knowledge" THEN {} ELSE {k})) \union {n}

\* The sequence s of the calls after the index.
Outlined(s, S, k, n, change) ==
    /\ Lists(s, Whole(S, k, n))
    /\ \/ S = {} /\ (wiring # "checkout" => AfterJournal(change))
       \/ Planned(S, change) /\ wiring # "checkout"
    /\ n \in CallRecord /\ n.op = "next" /\ n.change = change
    /\ k \in CallRecord /\ k.op = "catalog" /\ k.key = change.doc /\ k.change = change

\* The calls after the index, with the catalog's and the end of the change.
LEMMA LaterCallsListed ==
    ASSUME StoresInv, NEW change \in ChangeRecord, Projectable(change),
           NEW n, n = [op |-> "next", change |-> change],
           NEW k, k = CatalogCall(change)
    PROVE  \E S : Outlined(LaterCalls(change) \o <<n>>, S, k, n, change)
<1>1. n \in CallRecord /\ n.op = "next" /\ n.change = change
  BY DEF CallRecord
<1>2. k \in CallRecord /\ k.op = "catalog" /\ k.key = change.doc /\ k.change = change
  <2>1. change.doc \in Documents
    BY DEF ChangeRecord
  <2> QED BY <2>1 DEF CallRecord, CatalogCall
<1> DEFINE C == IF wiring = "knowledge" THEN {} ELSE {k}
           c == IF wiring = "knowledge" THEN <<>> ELSE <<k>>
<1>3. Lists(c, C) /\ Lists(<<n>>, {n})
  BY <1>1, <1>2, ListsFew
<1>4. PICK S : /\ Lists(IF wiring = "checkout" THEN <<>> ELSE ProjectionCalls(Kind, change), S)
               /\ \/ S = {} /\ (wiring # "checkout" => AfterJournal(change))
                  \/ Planned(S, change) /\ wiring # "checkout"
  <2>1. CASE wiring = "checkout"
    BY <2>1, ListsFew
  <2>2. CASE wiring # "checkout"
    BY <2>2, ChangePlanned
  <2> QED BY <2>1, <2>2
<1>5. \A x \in S : x \in CallRecord /\ x.op \notin {"catalog", "next"}
  BY <1>4 DEF Planned
<1>6. \A x \in S, y \in C : Follows(x.op, y.op)
  BY <1>2, <1>5, CallForms DEF Follows, Rank
<1>7. \A x \in S \union C, y \in {n} : Follows(x.op, y.op)
  BY <1>1, <1>2, <1>5, CallForms DEF Follows, Rank
<1> PICK s : s = (IF wiring = "checkout" THEN <<>> ELSE ProjectionCalls(Kind, change))
  OBVIOUS
<1>8. LaterCalls(change) = s \o c
  BY DEF LaterCalls
<1> HIDE DEF C, c
<1> PICK t : t = s \o c
  OBVIOUS
<1> PICK T : T = S \union C
  OBVIOUS
<1>9. Lists(t, T)
  BY <1>3, <1>4, <1>6, ListsConcat
<1>10. Lists(t \o <<n>>, T \union {n})
  BY <1>3, <1>7, <1>9, ListsConcat
<1>11. Lists(LaterCalls(change) \o <<n>>, Whole(S, k, n))
  BY <1>8, <1>10 DEF C, Whole
<1>12. Outlined(LaterCalls(change) \o <<n>>, S, k, n, change)
  BY <1>1, <1>2, <1>4, <1>11 DEF Outlined
<1> QED BY <1>12

\* What is known of a change whose calls are all to be made.
LEMMA ProgressBegins ==
    ASSUME StoresInv, NEW change \in ChangeRecord, Projectable(change),
           NEW s, NEW S, NEW k, NEW n, Outlined(s, S, k, n, change), Pending' = Whole(S, k, n),
           UNCHANGED <<wiring, evidence, edges, journal, catalog>>,
           unfinished' = unfinished \union {Mark(change)},
           wiring # "knowledge" => index' = [index EXCEPT ![change.doc] = Indexed(change)]
    PROVE  Progress(change)'
<1>1. Kind' = Kind /\ change.doc \in Documents
  BY DEF Kind, ChangeRecord
<1>0. /\ n \in CallRecord /\ n.op = "next" /\ n.change = change
      /\ k \in CallRecord /\ k.op = "catalog" /\ k.key = change.doc /\ k.change = change
      /\ \/ S = {} /\ (wiring # "checkout" => AfterJournal(change))
         \/ Planned(S, change) /\ wiring # "checkout"
      /\ Pending' = (S \union (IF wiring = "knowledge" THEN {} ELSE {k})) \union {n}
  BY DEF Outlined, Whole
<1> USE <1>0
<1>2. \A c \in S : c \in CallRecord /\ c.op \notin {"catalog", "next"}
                   /\ PutFits(c, change) /\ EdgeFits(c, change) /\ JournalFits(c, change)
  BY DEF Planned
<1>3. \A c \in Pending' : c \in S \/ c = n \/ (c = k /\ wiring # "knowledge")
  OBVIOUS
<1>4. \A c \in S : c \in Pending'
  OBVIOUS
<1>5. JournalPending' <=> S # {}
  <2>1. S # {} => JournalPending'
    BY <1>4 DEF Planned, JournalPending
  <2>2. S = {} => ~JournalPending'
    BY <1>3 DEF JournalPending
  <2> QED BY <2>1, <2>2
<1>6. ASSUME NEW c \in Pending' PROVE CallFits(c, change)'
  <2>1. PutFits(c, change)'
    BY <1>2, <1>3 DEF PutFits, EvidenceOf
  <2>2. EdgeFits(c, change)'
    BY <1>1, <1>2, <1>3 DEF EdgeFits, EdgesFor, EvidenceOf, Active
  <2>3. JournalFits(c, change)'
    BY <1>1, <1>2, <1>3 DEF JournalFits, JournalEntry, EdgesFor
  <2>4. PlaceFits(c, change)'
    BY <1>2, <1>3, <1>5 DEF PlaceFits
  <2>5. RetireFits(c, change)'
    <3> SUFFICES ASSUME c.op = "retire-evidence" PROVE RetireFits(c, change)'
      BY DEF RetireFits
    <3>1. c \in S /\ Planned(S, change)
      BY <1>3
    <3>2. /\ c.key[1] = change.doc
          /\ change.type = "upsert" => c.key # EvidenceOf(change)
          /\ \A x \in S : x.op = "edge" => c.key \notin x.support
          /\ \A e \in EdgeKey : Active(edges[e]) /\ c.key \in edges[e].support =>
                \E x \in S : x.op = "edge" /\ x.key = e
      BY <3>1 DEF Planned
    <3>3. \A x \in Pending' : x.op = "edge" => x \in S
      BY <1>3
    <3> QED BY <3>2, <3>3, <1>4 DEF RetireFits, EvidenceOf, Active
  <2> QED BY <2>1, <2>2, <2>3, <2>4, <2>5 DEF CallFits
<1>7. ASSUME JournalPending' PROVE BeforeJournal(change)'
  <2>1. Planned(S, change)
    BY <1>5, <1>7
  <2>2. /\ Active(journal[change.doc]) =>
             \/ \E c \in S : c.op = "retire-evidence" /\ c.key = journal[change.doc].evidence
             \/ change.type = "upsert" /\ journal[change.doc].evidence = EvidenceOf(change)
        /\ change.type = "upsert" =>
             /\ ~(/\ Active(journal[change.doc]) /\ journal[change.doc].revision = change.revision
                  /\ journal[change.doc].acl = change.acl)
             /\ \E c \in S : c.op = "put-evidence"
             /\ \A e \in EdgesFor(EvidenceOf(change)) : \E c \in S : c.op = "edge" /\ c.key = e
    BY <2>1 DEF Planned
  <2>3. EdgesFor(EvidenceOf(change))' = EdgesFor(EvidenceOf(change))
        /\ EvidenceOf(change)' = EvidenceOf(change)
    BY <1>1 DEF EdgesFor, EvidenceOf
  <2> QED BY <2>2, <2>3, <1>4 DEF BeforeJournal, Active
<1>8. ASSUME ~JournalPending', wiring # "checkout" PROVE AfterJournal(change)'
  <2>1. AfterJournal(change)
    BY <1>5, <1>8 DEF Planned
  <2> QED BY <2>1 DEF AfterJournal, Active
<1>9. ASSUME wiring # "knowledge"
      PROVE  /\ (index[change.doc] = Indexed(change))'
             /\ \E c \in Pending' : c.op = "catalog"
  BY <1>1, <1>9 DEF StoresInv, TypesInv, Indexed, Stored
<1>10. Projectable(change)' /\ (Mark(change) \in unfinished)'
  BY DEF Projectable, Mark
<1> QED BY <1>6, <1>7, <1>8, <1>9, <1>10 DEF Progress

\* BeginChange
LEMMA BeginStep ==
    ASSUME StoresInv, JobInv, BeginChange
    PROVE  /\ StoresInv' /\ JobInv'
           /\ ~(wiring # "checkout" /\ Conflicting(Kind, Head(job.changes))) =>
                 /\ job' # Idle /\ job'.kind = job.kind /\ Queue' = Tail(Queue)
                 /\ job.kind = "event" => job'.event = job.event
                 /\ \A c \in Pending' : c.op = "next" => c.change = Head(job.changes)
                 /\ \E c \in Pending' : c.op = "next"
<1> PICK change : change = Head(job.changes)
  OBVIOUS
<1>1. /\ job # Idle /\ job \in JobRecord /\ Calls = job.calls /\ Queue = job.changes
      /\ Queue \in Seq(ChangeRecord) /\ Queue # <<>> /\ job.kind # "idle"
  BY JobForms DEF JobInv, BeginChange
<1>2. /\ change = Queue[1] /\ change \in ChangeRecord /\ Len(Queue) \in Nat \ {0}
      /\ Tail(Queue) \in Seq(ChangeRecord) /\ Len(Tail(Queue)) = Len(Queue) - 1
      /\ \A i \in 1..Len(Tail(Queue)) : Tail(Queue)[i] = Queue[i + 1]
  BY <1>1, HeadTailProperties
<1>3. Projectable(change)
  BY <1>2 DEF JobInv
<1>4. /\ index' = IF AlreadyIndexed(change) THEN index
                  ELSE [index EXCEPT ![change.doc] = Indexed(change)]
      /\ unfinished' = unfinished \union {Mark(change)}
      /\ UNCHANGED <<wiring, evidence, edges, journal, catalog>>
  BY DEF BeginChange, world, memory
<1>5. StoresInv'
  BY <1>2, <1>4, StoresBegin
<1>6. CASE wiring # "checkout" /\ Conflicting(Kind, change)
  <2>1. job' = Idle
    BY <1>6 DEF BeginChange, Fail
  <2>2. Calls' = <<>> /\ Queue' = <<>>
    BY <2>1 DEF Calls, Queue
  <2>3. JobInv'
    BY <2>1, <2>2, NoCalls
  <2> QED BY <1>5, <1>6, <2>3
<1>7. CASE ~(wiring # "checkout" /\ Conflicting(Kind, change))
  <2> PICK n : n = [op |-> "next", change |-> change]
    OBVIOUS
  <2> PICK k : k = CatalogCall(change)
    OBVIOUS
  <2> PICK s : s = LaterCalls(change) \o <<n>>
    OBVIOUS
  <2>1. PICK S : Outlined(s, S, k, n, change)
    BY <1>2, <1>3, LaterCallsListed
  <2>2. job' = [job EXCEPT !.calls = s, !.changes = Tail(job.changes)]
    BY <1>7 DEF BeginChange
  <2>3. s \in Seq(CallRecord) /\ InSequence(s)
    BY <2>1 DEF Lists, Outlined
  <2>4. job' \in JobRecord /\ job'.calls = s /\ job'.changes = Tail(job.changes)
        /\ job'.kind = job.kind /\ (job.kind = "event" => job'.event = job.event)
    <3>1. CASE job \in [kind : {"event"}, event : EventRecord, changes : Seq(ChangeRecord),
                        calls : Seq(CallRecord)]
      BY <1>1, <1>2, <2>2, <2>3, <3>1 DEF JobRecord
    <3>2. CASE job \in [kind : {"reconcile", "knowledge"}, changes : Seq(ChangeRecord),
                        calls : Seq(CallRecord)]
      BY <1>1, <1>2, <2>2, <2>3, <3>2 DEF JobRecord
    <3> QED BY <1>1, <3>1, <3>2 DEF JobRecord
  <2>5. job' # Idle
    BY <1>1, <2>4 DEF Idle
  <2>6. Calls' = s /\ Queue' = Tail(Queue)
    BY <1>1, <2>4, <2>5 DEF Calls, Queue
  <2>7. Pending' = Whole(S, k, n)
    BY <2>1, <2>6 DEF Pending, Lists, Outlined
  <2>8. wiring # "knowledge" => index' = [index EXCEPT ![change.doc] = Indexed(change)]
    BY <1>4 DEF AlreadyIndexed
  <2>9. Progress(change)'
    BY <1>2, <1>3, <1>4, <2>1, <2>7, <2>8, ProgressBegins
  <2>10. \A c \in Pending' : c.op = "next" => c = n
    BY <2>1, <2>7 DEF Planned, Outlined, Whole
  <2>11. \A c \in Pending' : c.op = "next" => Progress(c.change)'
    BY <2>1, <2>9, <2>10 DEF Outlined
  <2>12. \E c \in Pending' : c.op = "next"
    BY <2>1, <2>7 DEF Outlined, Whole
  <2>13. (\A i \in 1..Len(Queue) : Projectable(Queue[i]))'
    <3>1. \A i \in 1..Len(Tail(Queue)) : i + 1 \in 1..Len(Queue)
      BY <1>2
    <3>2. \A i \in 1..Len(Tail(Queue)) : Projectable(Tail(Queue)[i])
      BY <1>2, <3>1 DEF JobInv
    <3> QED BY <1>4, <2>6, <3>2 DEF Projectable
  <2>14. InSequence(Calls)'
    BY <2>3, <2>6 DEF InSequence
  <2>15. JobInv'
    BY <2>4, <2>11, <2>12, <2>13, <2>14 DEF JobInv
  <2>16. \A c \in Pending' : c.op = "next" => c.change = change
    BY <2>1, <2>10 DEF Outlined
  <2> QED BY <1>5, <2>4, <2>5, <2>6, <2>12, <2>15, <2>16
<1> QED BY <1>6, <1>7

\* A change is carried through: its mark goes.
LEMMA StoresEnd ==
    ASSUME StoresInv, NEW change, Progress(change), ~JournalPending,
           ~\E c \in Pending : c.op = "catalog",
           unfinished' = unfinished \ {Mark(change)},
           UNCHANGED <<wiring, evidence, edges, journal, catalog, index>>
    PROVE  StoresInv'
<1>1. /\ change \in ChangeRecord /\ Projectable(change) /\ change.doc \in Documents
      /\ change.type \in {"upsert", "delete"} /\ TypesInv
      /\ wiring # "checkout" => AfterJournal(change)
      /\ wiring # "knowledge" => /\ index[change.doc] = Indexed(change)
                                 /\ catalog[change.doc] = Stored(change)
  BY DEF Progress, ChangeRecord, StoresInv
<1>2. TypesInv' /\ BackedInv'
  BY DEF StoresInv, TypesInv, BackedInv, JournalEntry, EdgesFor, Kind, Active
<1>3. wiring # "checkout" => /\ Mark(change).type = change.type /\ Mark(change).doc = change.doc
                             /\ RevisionOf(Mark(change)) = change.revision
                             /\ AclOf(Mark(change)) = change.acl
  BY <1>1, MarkStands
<1>4. StaleInv'
  <2> SUFFICES ASSUME NEW k \in EvidenceId, Active(evidence[k])
               PROVE  /\ wiring # "checkout"
                      /\ \/ Active(journal[k[1]]) /\ journal[k[1]].evidence = k
                         \/ \E u \in unfinished' : /\ u.type = "upsert" /\ u.doc = k[1]
                                                   /\ RevisionOf(u) = k[2]
    BY DEF StaleInv, Active, RevisionOf
  <2>1. /\ wiring # "checkout"
        /\ \/ Active(journal[k[1]]) /\ journal[k[1]].evidence = k
           \/ \E u \in unfinished : u.type = "upsert" /\ u.doc = k[1] /\ RevisionOf(u) = k[2]
    BY DEF StoresInv, StaleInv
  <2>2. ASSUME NEW u \in unfinished, u.type = "upsert", u.doc = k[1], RevisionOf(u) = k[2],
               u \notin unfinished'
        PROVE  Active(journal[k[1]]) /\ journal[k[1]].evidence = k
    <3>1. change.type = "upsert" /\ change.doc = k[1] /\ change.revision = k[2]
      BY <1>3, <2>1, <2>2
    <3>2. Active(journal[k[1]]) /\ journal[k[1]].revision = k[2]
      BY <1>1, <2>1, <3>1 DEF AfterJournal
    <3> QED BY <1>1, <3>1, <3>2, ActiveEntry, EvidenceIdForm
  <2> QED BY <2>1, <2>2
<1>5. JournalInv'
  <2> SUFFICES ASSUME wiring = "repository", NEW d \in Documents, Active(journal[d]),
                      \A u \in unfinished' : u.doc = d => Matches(u, journal[d])
               PROVE  Materialized(journal[d])
    BY DEF JournalInv, Active, Matches, RevisionOf, AclOf, Materialized
  <2>1. Mark(change).doc = d => Matches(Mark(change), journal[d])
    BY <1>1, <1>3 DEF AfterJournal, Matches, Active
  <2> QED BY <2>1 DEF StoresInv, JournalInv
<1>6. CatalogInv'
  <2> SUFFICES ASSUME NEW d \in Documents, catalog[d] # Nothing
               PROVE  /\ wiring # "knowledge"
                      /\ Settled(d)' =>
                          IF catalog[d].state = "active"
                          THEN /\ index[d] = catalog[d]
                               /\ wiring = "repository" =>
                                    /\ Active(journal[d])
                                    /\ journal[d].revision = catalog[d].revision
                                    /\ journal[d].acl = catalog[d].acl
                          ELSE /\ index[d] = Nothing
                               /\ wiring = "repository" => journal[d].state = "deleted"
    BY DEF CatalogInv, Active
  <2>1. wiring # "knowledge"
    BY DEF StoresInv, CatalogInv
  <2>2. CASE d # change.doc
    <3>1. Settled(d)' => Settled(d)
      BY <2>2 DEF Settled, Mark
    <3> QED BY <2>1, <3>1 DEF StoresInv, CatalogInv
  <2>3. CASE d = change.doc /\ change.type = "upsert"
    <3>1. /\ catalog[d].state = "active" /\ catalog[d].revision = change.revision
          /\ catalog[d].acl = change.acl /\ index[d] = catalog[d]
      BY <1>1, <2>1, <2>3 DEF Stored, Indexed
    <3> QED BY <1>1, <2>1, <2>3, <3>1 DEF AfterJournal
  <2>4. CASE d = change.doc /\ change.type = "delete"
    <3>1. catalog[d].state = "deleted" /\ index[d] = Nothing
      BY <1>1, <2>1, <2>4 DEF Stored, Indexed
    <3> QED BY <1>1, <2>1, <2>4, <3>1 DEF AfterJournal
  <2> QED BY <1>1, <2>2, <2>3, <2>4
<1> QED BY <1>2, <1>4, <1>5, <1>6 DEF StoresInv

\* The end of a change is its last call.
LEMMA LastCall ==
    ASSUME JobInv, job.kind # "idle", job.calls # <<>>, Head(job.calls).op = "next"
    PROVE  /\ Pending = {Head(job.calls)} /\ Progress(Head(job.calls).change)
           /\ ~JournalPending /\ ~\E c \in Pending : c.op = "catalog"
<1>1. Calls = job.calls /\ Calls \in Seq(CallRecord) /\ InSequence(Calls)
  BY JobForms DEF JobInv
<1> PICK h : h = Head(job.calls)
  OBVIOUS
<1> PICK R : R = {Tail(Calls)[i] : i \in 1..Len(Tail(Calls))}
  OBVIOUS
<1>2. Pending = {h} \union R /\ \A c \in R : Follows(h.op, c.op)
  BY <1>1, RestOfCalls DEF Pending
<1>3. R = {}
  <2>1. \A op : ~Follows("next", op)
    BY DEF Follows, Rank
  <2> QED BY <1>2, <2>1
<1>4. Pending = {h}
  BY <1>2, <1>3
<1> QED BY <1>4 DEF JobInv, JournalPending

\* EndChange
LEMMA EndStep ==
    ASSUME StoresInv, JobInv, EndChange
    PROVE  StoresInv' /\ JobInv'
<1> PICK change : change = Head(job.calls).change
  OBVIOUS
<1>1. /\ job # Idle /\ job \in JobRecord /\ Queue = job.changes /\ job.kind # "idle"
      /\ job.calls # <<>> /\ Head(job.calls).op = "next"
  BY JobForms DEF JobInv, EndChange
<1>2. /\ Progress(change) /\ ~JournalPending /\ ~\E c \in Pending : c.op = "catalog"
  BY <1>1, LastCall
<1>3. /\ unfinished' = unfinished \ {Mark(change)}
      /\ UNCHANGED <<wiring, evidence, edges, journal, catalog, index>>
  BY DEF EndChange, world, memory
<1>4. StoresInv'
  BY <1>2, <1>3, StoresEnd
<1>5. CASE job' = Idle
  <2>1. Calls' = <<>> /\ Queue' = <<>>
    BY <1>5 DEF Calls, Queue
  <2> QED BY <1>4, <1>5, <2>1, NoCalls
<1>6. CASE job' = [job EXCEPT !.calls = <<>>]
  <2>1. <<>> \in Seq(CallRecord)
    OBVIOUS
  <2>2. job' \in JobRecord /\ job'.calls = <<>> /\ job'.changes = job.changes
        /\ job'.kind = job.kind
    <3>1. CASE job \in [kind : {"event"}, event : EventRecord, changes : Seq(ChangeRecord),
                        calls : Seq(CallRecord)]
      BY <1>6, <2>1, <3>1 DEF JobRecord
    <3>2. CASE job \in [kind : {"reconcile", "knowledge"}, changes : Seq(ChangeRecord),
                        calls : Seq(CallRecord)]
      BY <1>6, <2>1, <3>2 DEF JobRecord
    <3> QED BY <1>1, <3>1, <3>2 DEF JobRecord
  <2>3. job' # Idle
    BY <1>1, <2>2 DEF Idle
  <2>4. Calls' = <<>> /\ Queue' = Queue
    BY <1>1, <2>2, <2>3 DEF Calls, Queue
  <2>5. (\A i \in 1..Len(Queue) : Projectable(Queue[i]))'
    BY <1>3, <2>4 DEF JobInv, Projectable
  <2> QED BY <1>4, <2>2, <2>4, <2>5, NoCalls
<1> QED BY <1>5, <1>6 DEF EndChange, Complete

\* PlaceHold changes neither what is active nor an access list.
LEMMA HoldStep ==
    ASSUME StoresInv, JobInv, NEW k \in EvidenceId, Hold(k)
    PROVE  StoresInv' /\ JobInv'
<1>1. /\ Active(evidence[k]) /\ evidence' = [evidence EXCEPT ![k].held = TRUE]
      /\ UNCHANGED <<edges, journal, wiring, index, catalog, job, unfinished>>
  BY DEF Hold, PlaceHold, world, tables, history
<1>2. evidence \in [EvidenceId -> EvidenceRecord \union {Nothing}]
  BY DEF StoresInv, TypesInv
<1> PICK r : r = [evidence[k] EXCEPT !.held = TRUE]
  OBVIOUS
<1>3. evidence[k] \in EvidenceRecord
  BY <1>1, <1>2 DEF Active
<1>4. r \in EvidenceRecord /\ r.state = evidence[k].state /\ r.acl = evidence[k].acl
  BY <1>3 DEF EvidenceRecord
<1>5. evidence' = [evidence EXCEPT ![k] = r]
  BY <1>1
<1>6. /\ evidence' \in [EvidenceId -> EvidenceRecord \union {Nothing}]
      /\ \A e \in EvidenceId : /\ Active(evidence'[e]) <=> Active(evidence[e])
                               /\ evidence'[e].acl = evidence[e].acl
  BY <1>1, <1>2, <1>4, <1>5, RecordsAreSomething DEF Active
<1>7. TypesInv'
  BY <1>1, <1>6 DEF StoresInv, TypesInv, JournalEntry, EdgesFor, Kind
<1>8. BackedInv'
  <2> SUFFICES ASSUME NEW x \in EdgeKey, Active(edges[x])
               PROVE  /\ edges[x].support # {}
                      /\ \A e \in edges[x].support : Active(evidence'[e]) /\ x \in EdgesFor(e)
    BY <1>1 DEF BackedInv, Active, EdgesFor, Kind
  <2>1. /\ edges[x].support # {}
        /\ \A e \in edges[x].support : Active(evidence[e]) /\ x \in EdgesFor(e)
    BY DEF StoresInv, BackedInv
  <2>2. edges[x].support \subseteq EvidenceId
    BY DEF StoresInv, TypesInv, EdgeRecord, Active
  <2> QED BY <1>6, <2>1, <2>2
<1>9. StaleInv'
  BY <1>1, <1>6 DEF StoresInv, StaleInv, Active
<1>10. JournalInv'
  <2> SUFFICES ASSUME wiring = "repository", NEW d \in Documents, Active(journal[d]),
                      \A u \in unfinished : u.doc = d => Matches(u, journal[d])
               PROVE  Materialized(journal[d])'
    BY <1>1 DEF JournalInv, Active, Matches, RevisionOf, AclOf
  <2>1. Materialized(journal[d]) /\ journal[d].evidence \in EvidenceId
    BY ActiveEntry DEF StoresInv, JournalInv
  <2> QED BY <1>1, <1>6, <2>1 DEF Materialized, Active
<1>11. CatalogInv'
  BY <1>1 DEF StoresInv, CatalogInv, Settled, Active
<1>12. /\ Calls' = Calls /\ Queue' = Queue /\ Pending' = Pending
       /\ JournalPending' <=> JournalPending
  BY <1>1 DEF Calls, Queue, Pending, JournalPending
<1>13. ASSUME NEW c \in Pending, c.op = "next" PROVE Progress(c.change)'
  <2> PICK change : change = c.change
    OBVIOUS
  <2>1. Progress(change)
    BY <1>13 DEF JobInv
  <2>2. \A x \in Pending : CallFits(x, change)'
    BY <1>1, <1>12, <2>1 DEF Progress, CallFits, PutFits, EdgeFits, RetireFits, JournalFits,
                             PlaceFits, EdgesFor, EvidenceOf, Kind, Active, JournalEntry
  <2>3. JournalPending => BeforeJournal(change)'
    <3> SUFFICES ASSUME JournalPending PROVE BeforeJournal(change)'
      OBVIOUS
    <3>1. BeforeJournal(change) /\ change \in ChangeRecord /\ Projectable(change)
          /\ change.doc \in Documents /\ TypesInv
      BY <2>1 DEF Progress, ChangeRecord, StoresInv
    <3>2. wiring # "checkout"
      BY <2>1 DEF JournalPending, Progress, CallFits, PlaceFits
    <3>3. change.type = "upsert" => EvidenceOf(change) \in EvidenceId
      BY <3>1, <3>2, OwnKeys
    <3>4. Active(journal[change.doc]) => journal[change.doc].evidence \in EvidenceId
      BY <3>1, ActiveEntry
    <3>5. EdgesFor(EvidenceOf(change))' = EdgesFor(EvidenceOf(change))
          /\ EvidenceOf(change)' = EvidenceOf(change)
      BY <1>1 DEF EdgesFor, EvidenceOf, Kind
    <3> QED BY <1>1, <1>6, <1>12, <3>1, <3>3, <3>4, <3>5 DEF BeforeJournal, Active
  <2>4. ~JournalPending /\ wiring # "checkout" => AfterJournal(change)'
    BY <1>1, <2>1 DEF Progress, AfterJournal, Active
  <2> QED BY <1>1, <1>12, <2>1, <2>2, <2>3, <2>4 DEF Progress, Projectable, Mark, Indexed, Stored
<1>14. JobInv'
  <2>1. (\A i \in 1..Len(Queue) : Projectable(Queue[i]))'
    BY <1>1, <1>12 DEF JobInv, Projectable
  <2>2. job' = Idle \/ job' \in JobRecord
    BY <1>1 DEF JobInv
  <2>3. InSequence(Calls)'
    BY <1>12 DEF JobInv, InSequence
  <2> QED BY <1>12, <1>13, <2>1, <2>2, <2>3 DEF JobInv
<1> QED BY <1>7, <1>8, <1>9, <1>10, <1>11, <1>14 DEF StoresInv

-----------------------------------------------------------------------------
(* The events and the ledger *)

\* Steps that leave the source, the events and the stores alone.
LEMMA WorldKept ==
    ASSUME WorldInv, UNCHANGED <<wiring, source, head, acl, tree, catalog>>
    PROVE  WorldInv'
BY DEF WorldInv

\* A step that ends the job keeps what is known of the events.
LEMMA EventsIdle ==
    ASSUME EventsInv, UNCHANGED <<wiring, sent, head, unfinished>>, dlq' \subseteq dlq, job' = Idle
    PROVE  EventsInv'
<1>1. Queue' = <<>>
  BY DEF Queue
<1>2. Len(Queue') = 0
  BY <1>1
<1>3. (\A i \in 1..Len(Queue) : SourcedChange(Queue[i]))'
  BY <1>2
<1>4. \A x : (PushedEvent(x) <=> PushedEvent(x)') /\ (KnownEvent(x) <=> KnownEvent(x)')
             /\ (SourcedMark(x) <=> SourcedMark(x)')
  BY DEF PushedEvent, KnownEvent, SourcedMark, FileEvent
<1> QED BY <1>3, <1>4 DEF EventsInv

\* A step that ends the job without touching the ledger.
LEMMA LedgerIdle ==
    ASSUME LedgerInv, UNCHANGED <<wiring, ledger, dlq, unfinished>>, job' = Idle
    PROVE  LedgerInv'
<1>1. job'.kind = "idle"
  BY DEF Idle
<1> QED BY <1>1 DEF LedgerInv

\* An idle job: no calls and no changes.
LEMMA JobIdle ==
    ASSUME job' = Idle
    PROVE  JobInv' /\ Calls' = <<>> /\ Queue' = <<>> /\ Pending' = {}
<1>1. Calls' = <<>> /\ Queue' = <<>>
  BY DEF Calls, Queue
<1> QED BY <1>1, NoCalls

\* ledger.fail, of a change that may have been begun in the same step: its mark is
\* not one of a completed event.
LEMMA FailStep ==
    ASSUME JobInv, EventsInv, LedgerInv, Fail, UNCHANGED <<wiring, sent, head>>,
           \A u \in unfinished' : u \in unfinished \/ (SourcedMark(u) /\ OwnMark(u)),
           job.kind # "idle"
    PROVE  EventsInv' /\ LedgerInv' /\ JobInv'
<1>1. job' = Idle /\ JobInv' /\ Queue' = <<>> /\ job'.kind = "idle"
  BY JobIdle DEF Fail, Idle
<1>2. \A x : (PushedEvent(x) <=> PushedEvent(x)') /\ (KnownEvent(x) <=> KnownEvent(x)')
             /\ (SourcedMark(x) <=> SourcedMark(x)')
  BY DEF PushedEvent, KnownEvent, SourcedMark, FileEvent
<1>3. (\A i \in 1..Len(Queue) : SourcedChange(Queue[i]))'
  <2>1. Len(Queue') = 0
    BY <1>1
  <2> QED BY <2>1
<1>4. \A u \in unfinished' : SourcedMark(u)
  BY DEF EventsInv
<1>5. CASE job.kind # "event"
  <2>1. UNCHANGED <<ledger, dlq>>
    BY <1>5 DEF Fail
  <2>2. EventsInv'
    BY <1>2, <1>3, <1>4, <2>1 DEF EventsInv
  <2>3. ASSUME NEW id \in EventId, ledger[id] = "completed", NEW u \in unfinished', u.event = id
        PROVE  FALSE
    <3>1. u \notin unfinished
      BY <2>3 DEF LedgerInv
    <3>2. u.event = Nothing \/ wiring = "knowledge"
      BY <1>5, <3>1 DEF OwnMark, LedgerInv
    <3> QED BY <2>3, <3>2, NothingIsNoId DEF LedgerInv
  <2> QED BY <1>1, <2>1, <2>2, <2>3 DEF LedgerInv
<1>6. CASE job.kind = "event"
  <2>1. /\ ledger' = [ledger EXCEPT ![job.event.id] = "failed"]
        /\ dlq' = {x \in dlq : x.id # job.event.id} \union {job.event}
    BY <1>6 DEF Fail
  <2>2. KnownEvent(job.event) /\ job.event \in EventRecord
    BY <1>6, JobForms DEF LedgerInv, JobInv
  <2>3. job.event.id \in EventId
    BY <2>2 DEF EventRecord
  <2>6. \A x \in dlq' : KnownEvent(x)
    BY <2>1, <2>2 DEF EventsInv
  <2>7. EventsInv'
    BY <1>2, <1>3, <1>4, <2>6 DEF EventsInv
  <2>8. wiring # "knowledge"
    BY <2>2 DEF KnownEvent
  <2>9. ASSUME NEW id \in EventId, ledger'[id] = "completed"
        PROVE  (~\E u \in unfinished' : u.event = id) /\ (~\E x \in dlq' : x.id = id)
    <3>1. id # job.event.id /\ ledger[id] = "completed"
      BY <2>1, <2>3, <2>9 DEF LedgerInv
    <3>2. ASSUME NEW u \in unfinished', u.event = id PROVE FALSE
      <4>1. u \notin unfinished
        BY <3>1, <3>2 DEF LedgerInv
      <4>2. u.event = Nothing \/ u.event = job.event.id
        BY <1>6, <4>1 DEF OwnMark
      <4> QED BY <3>1, <3>2, <4>2, NothingIsNoId
    <3> QED BY <2>1, <3>1, <3>2 DEF LedgerInv
  <2>10. DOMAIN ledger' = EventId
    BY <2>1 DEF LedgerInv
  <2> QED BY <1>1, <2>7, <2>8, <2>9, <2>10 DEF LedgerInv
<1> QED BY <1>5, <1>6

\* The mark of a change comes from where the change does.
LEMMA MarkOfChange ==
    ASSUME NEW c, SourcedChange(c)
    PROVE  SourcedMark(Mark(c)) /\ Mark(c).event = c.event
<1>1. Mark(c).event = c.event
  BY DEF Mark
<1>2. CASE c.event = Nothing
  BY <1>1, <1>2 DEF SourcedMark
<1>3. CASE wiring # "checkout" /\ \E x \in sent : x.id = c.event
                                    /\ \E i \in 1..Len(x.changes) : c = x.changes[i]
  <2>1. PICK x \in sent : x.id = c.event /\ \E i \in 1..Len(x.changes) : c = x.changes[i]
    BY <1>3
  <2>2. \E i \in 1..Len(x.changes) : Mark(c) = Mark(x.changes[i])
    BY <2>1
  <2> QED BY <1>1, <1>3, <2>1, <2>2 DEF SourcedMark
<1>4. CASE wiring = "checkout" /\ c.event \in FileId /\ c.type = "upsert" /\ c.doc = c.event[1]
  <2>1. c.event # Nothing
    BY <1>4, NothingIsNoId DEF FileId, EventId
  <2>2. Mark(c) = [type |-> "upsert", doc |-> c.event[1], event |-> c.event,
                   revision |-> 0, acl |-> Nothing]
    BY <1>4, <2>1 DEF Mark
  <2> QED BY <1>1, <1>4, <2>2 DEF SourcedMark
<1> QED BY <1>1, <1>2, <1>3, <1>4 DEF SourcedChange

\* The change that begins comes from where the job does.
LEMMA BegunMark ==
    ASSUME IngestionInv, BeginChange
    PROVE  /\ SourcedMark(Mark(Head(job.changes))) /\ OwnMark(Mark(Head(job.changes)))
           /\ Queue = job.changes /\ Queue \in Seq(ChangeRecord) /\ Queue # <<>>
           /\ Head(job.changes) = Queue[1] /\ 1 \in 1..Len(Queue)
<1>1. /\ job # Idle /\ job \in JobRecord /\ Queue = job.changes
      /\ Queue \in Seq(ChangeRecord) /\ Queue # <<>> /\ job.kind # "idle"
  BY JobForms DEF IngestionInv, JobInv, BeginChange
<1> PICK c : c = Head(job.changes)
  OBVIOUS
<1>2. c = Queue[1] /\ 1 \in 1..Len(Queue)
  BY <1>1
<1>3. SourcedChange(c)
  BY <1>2 DEF IngestionInv, EventsInv
<1>4. Mark(c).event = c.event
  BY DEF Mark
<1>5. SourcedMark(Mark(c))
  BY <1>3, MarkOfChange
<1>6. OwnMark(Mark(c))
  <2>1. job.kind \in {"event", "reconcile", "knowledge"}
    BY <1>1 DEF JobRecord
  <2>2. CASE job.kind = "event"
    BY <1>2, <1>4, <2>2 DEF OwnMark, IngestionInv, LedgerInv
  <2>3. CASE job.kind = "reconcile"
    BY <1>2, <1>4, <2>3 DEF OwnMark, IngestionInv, LedgerInv
  <2>4. CASE job.kind = "knowledge"
    BY <2>4 DEF OwnMark
  <2> QED BY <2>1, <2>2, <2>3, <2>4
<1> QED BY <1>1, <1>2, <1>5, <1>6

\* What the changes of an event are.
LEMMA EventChanges ==
    ASSUME WorldInv, EventsInv, NEW e, KnownEvent(e)
    PROVE  /\ e \in EventRecord /\ e.id \in EventId
           /\ \A i \in 1..Len(e.changes) : /\ e.changes[i].event = e.id
                                           /\ Projectable(e.changes[i])
                                           /\ SourcedChange(e.changes[i])
           /\ \A u : SourcedMark(u) /\ u.event = e.id =>
                 \E i \in 1..Len(e.changes) : u = Mark(e.changes[i])
<1>1. e \in EventRecord /\ e.id \in EventId /\ e.changes \in Seq(ChangeRecord)
  BY DEF KnownEvent, EventsInv, PushedEvent, FileEvent, EventRecord
<1>2. e.id # Nothing
  BY <1>1, NothingIsNoId
<1>3. CASE wiring = "repository"
  <2>1. e \in sent /\ PushedEvent(e)
    BY <1>3 DEF KnownEvent, EventsInv
  <2>2. PICK r \in Revisions : e.id = <<r>>
    BY <2>1 DEF PushedEvent
  <2>3. RepositoryAcl \in Acls
    BY SomeAcl DEF RepositoryAcl
  <2>4. ASSUME NEW i \in 1..Len(e.changes)
        PROVE  /\ e.changes[i].event = e.id /\ Projectable(e.changes[i])
               /\ SourcedChange(e.changes[i])
    <3>1. /\ e.changes[i].event = e.id /\ e.changes[i].revision = r
          /\ e.changes[i].acl = RepositoryAcl
      BY <2>1, <2>2 DEF PushedEvent
    <3> QED BY <1>3, <2>1, <2>2, <2>3, <3>1 DEF Projectable, SourcedChange
  <2>5. ASSUME NEW u, SourcedMark(u), u.event = e.id
        PROVE  \E i \in 1..Len(e.changes) : u = Mark(e.changes[i])
    <3>1. PICK x \in sent : x.id = u.event /\ \E i \in 1..Len(x.changes) : u = Mark(x.changes[i])
      BY <1>2, <1>3, <2>5 DEF SourcedMark
    <3>2. x = e
      BY <2>1, <2>5, <3>1 DEF EventsInv
    <3> QED BY <3>1, <3>2
  <2> QED BY <1>1, <2>4, <2>5
<1>4. CASE wiring = "checkout"
  <2>1. FileEvent(e)
    BY <1>4 DEF KnownEvent
  <2>2. /\ Len(e.changes) = 1 /\ e.changes[1].type = "upsert" /\ e.changes[1].doc = e.id[1]
        /\ e.changes[1].event = e.id /\ e.id \in FileId
    BY <2>1 DEF FileEvent
  <2>3. \A i \in 1..Len(e.changes) : i = 1
    BY <2>2
  <2>4. Projectable(e.changes[1]) /\ SourcedChange(e.changes[1])
    BY <1>4, <2>2 DEF Projectable, SourcedChange
  <2>5. Mark(e.changes[1]) = [type |-> "upsert", doc |-> e.id[1], event |-> e.id,
                              revision |-> 0, acl |-> Nothing]
    BY <1>2, <2>2 DEF Mark
  <2>6. ASSUME NEW u, SourcedMark(u), u.event = e.id PROVE u = Mark(e.changes[1])
    <3>1. PICK id \in FileId : u = [type |-> "upsert", doc |-> id[1], event |-> id,
                                    revision |-> 0, acl |-> Nothing]
      BY <1>2, <1>4, <2>6 DEF SourcedMark
    <3>2. id = e.id
      BY <2>6, <3>1
    <3> QED BY <2>5, <3>1, <3>2
  <2>7. 1 \in 1..Len(e.changes)
    BY <2>2
  <2> QED BY <1>1, <2>2, <2>3, <2>4, <2>6, <2>7
<1> QED BY <1>3, <1>4 DEF KnownEvent

\* SqliteEventLedger.start: an event that is not completed becomes the job.
LEMMA StartStep ==
    ASSUME IngestionInv, NEW e, KnownEvent(e), StartEvent(e), job = Idle,
           UNCHANGED <<wiring, sent, head, unfinished, dlq>>,
           UNCHANGED <<evidence, edges, journal, index, catalog>>
    PROVE  StoresInv' /\ JobInv' /\ EventsInv' /\ LedgerInv'
<1>1. /\ e \in EventRecord /\ e.id \in EventId
      /\ \A i \in 1..Len(e.changes) : /\ e.changes[i].event = e.id
                                      /\ Projectable(e.changes[i])
                                      /\ SourcedChange(e.changes[i])
      /\ \A u \in unfinished : u.event = e.id =>
            \E i \in 1..Len(e.changes) : u = Mark(e.changes[i])
  BY EventChanges DEF IngestionInv, EventsInv
<1>2. job' = [kind |-> "event", event |-> e, changes |-> e.changes, calls |-> <<>>]
      /\ ledger' = [ledger EXCEPT ![e.id] = "processing"] /\ ledger[e.id] # "completed"
  BY DEF StartEvent
<1>3. e.changes \in Seq(ChangeRecord)
  BY <1>1 DEF EventRecord
<1>4. job' \in JobRecord /\ job'.kind = "event" /\ job'.event = e /\ job'.changes = e.changes
      /\ job'.calls = <<>>
  BY <1>1, <1>2, <1>3 DEF JobRecord
<1>5. job' # Idle
  BY <1>4 DEF Idle
<1>6. Calls' = <<>> /\ Queue' = e.changes
  BY <1>4, <1>5 DEF Calls, Queue
<1>7. \A x : /\ Projectable(x) <=> Projectable(x)'
             /\ SourcedChange(x) <=> SourcedChange(x)'
             /\ PushedEvent(x) <=> PushedEvent(x)'
             /\ KnownEvent(x) <=> KnownEvent(x)'
             /\ SourcedMark(x) <=> SourcedMark(x)'
  BY DEF Projectable, SourcedChange, PushedEvent, KnownEvent, SourcedMark, FileEvent
<1>8. (\A i \in 1..Len(Queue) : Projectable(Queue[i]) /\ SourcedChange(Queue[i]))'
  BY <1>1, <1>6, <1>7
<1>9. JobInv' /\ Pending' = {}
  BY <1>4, <1>6, <1>8, NoCalls
<1>10. StoresInv'
  BY StoresKept DEF IngestionInv
<1>11. EventsInv'
  BY <1>7, <1>8 DEF EventsInv, IngestionInv
<1>12. wiring # "knowledge" /\ LedgerInv
  BY DEF KnownEvent, IngestionInv
<1>13. DOMAIN ledger' = EventId /\ ledger'[e.id] = "processing"
       /\ \A id \in EventId : ledger'[id] = "completed" => ledger[id] = "completed"
  BY <1>1, <1>2, <1>12 DEF LedgerInv
<1>14. KnownEvent(job.event)' /\ Queue' = e.changes
  BY <1>4, <1>6, <1>7
<1>15. LedgerInv'
  BY <1>1, <1>4, <1>6, <1>9, <1>12, <1>13, <1>14 DEF LedgerInv, Mark
<1> QED BY <1>9, <1>10, <1>11, <1>15

-----------------------------------------------------------------------------
(* The steps of the worker *)

\* BeginChange
LEMMA BeginKeeps ==
    ASSUME IngestionInv, BeginChange
    PROVE  IngestionInv'
<1> PICK change : change = Head(job.changes)
  OBVIOUS
<1> PICK m : m = Mark(change)
  OBVIOUS
<1>1. StoresInv /\ JobInv /\ WorldInv /\ EventsInv /\ LedgerInv
  BY DEF IngestionInv
<1>2. /\ SourcedMark(m) /\ OwnMark(m) /\ m.event = change.event
      /\ Queue = job.changes /\ Queue \in Seq(ChangeRecord) /\ Queue # <<>>
      /\ change = Queue[1] /\ 1 \in 1..Len(Queue)
  BY BegunMark DEF Mark
<1>3. StoresInv' /\ JobInv'
  BY <1>1, BeginStep
<1>4. /\ UNCHANGED <<wiring, source, head, acl, sent, tree, catalog>>
      /\ unfinished' = unfinished \union {m} /\ job.kind # "idle" /\ job.calls = <<>>
  BY DEF BeginChange, world
<1>5. WorldInv'
  BY <1>1, <1>4, WorldKept
<1>6. CASE wiring # "checkout" /\ Conflicting(Kind, change)
  <2>1. Fail
    BY <1>6 DEF BeginChange
  <2> QED BY <1>1, <1>2, <1>3, <1>4, <1>5, <2>1, FailStep DEF IngestionInv
<1>7. CASE ~(wiring # "checkout" /\ Conflicting(Kind, change))
  <2>1. /\ job' # Idle /\ job'.kind = job.kind /\ Queue' = Tail(Queue)
        /\ job.kind = "event" => job'.event = job.event
        /\ \A c \in Pending' : c.op = "next" => c.change = change
        /\ \E c \in Pending' : c.op = "next"
    BY <1>1, <1>7, BeginStep
  <2>2. UNCHANGED <<ledger, dlq>>
    BY <1>7 DEF BeginChange
  <2>3. /\ Len(Queue) \in Nat \ {0} /\ Len(Tail(Queue)) = Len(Queue) - 1
        /\ \A i \in 1..Len(Tail(Queue)) : Tail(Queue)[i] = Queue[i + 1] /\ i + 1 \in 1..Len(Queue)
    BY <1>2
  <2>4. \A x : /\ SourcedChange(x) <=> SourcedChange(x)'
               /\ PushedEvent(x) <=> PushedEvent(x)'
               /\ KnownEvent(x) <=> KnownEvent(x)'
               /\ SourcedMark(x) <=> SourcedMark(x)'
    BY <1>4 DEF SourcedChange, PushedEvent, KnownEvent, SourcedMark, FileEvent
  <2>5. (\A i \in 1..Len(Queue) : SourcedChange(Queue[i]))'
    BY <1>1, <2>1, <2>3, <2>4 DEF EventsInv
  <2>6. EventsInv'
    BY <1>1, <1>2, <1>4, <2>2, <2>4, <2>5 DEF EventsInv
  <2>7. ASSUME NEW id \in EventId, ledger[id] = "completed"
        PROVE  (~\E u \in unfinished' : u.event = id) /\ (~\E x \in dlq : x.id = id)
    <3>1. (~\E u \in unfinished : u.event = id) /\ (~\E x \in dlq : x.id = id)
      BY <1>1, <2>7 DEF LedgerInv
    <3>2. m.event # id
      BY <1>1, <1>2, <2>7, NothingIsNoId DEF LedgerInv, OwnMark
    <3> QED BY <1>4, <3>1, <3>2
  <2>8. ASSUME job.kind = "event"
        PROVE  /\ KnownEvent(job.event)'
               /\ ledger'[job'.event.id] = "processing"
               /\ \A i \in 1..Len(Queue') : Queue'[i].event = job'.event.id
               /\ \A c \in Pending' : c.op = "next" => c.change.event = job'.event.id
               /\ \A u \in unfinished' : u.event = job'.event.id =>
                     \/ \E i \in 1..Len(Queue') : u = Mark(Queue'[i])
                     \/ \E c \in Pending' : c.op = "next" /\ u = Mark(c.change)
    <3>1. /\ KnownEvent(job.event) /\ ledger[job.event.id] = "processing"
          /\ \A i \in 1..Len(Queue) : Queue[i].event = job.event.id
          /\ \A u \in unfinished : u.event = job.event.id =>
                \/ \E i \in 1..Len(Queue) : u = Mark(Queue[i])
                \/ \E c \in Pending : c.op = "next" /\ u = Mark(c.change)
      BY <1>1, <2>8 DEF LedgerInv
    <3>2. job'.event = job.event
      BY <2>1, <2>8
    <3>3. KnownEvent(job.event)'
      BY <2>4, <3>1, <3>2 DEF KnownEvent, FileEvent
    <3>4. \A i \in 1..Len(Queue') : Queue'[i].event = job.event.id
      BY <2>1, <2>3, <3>1
    <3>5. change.event = job.event.id
      BY <1>2, <3>1
    <3>6. Calls = <<>> /\ Pending = {}
      <4>1. Calls = <<>>
        BY <1>4 DEF Calls
      <4> QED BY <4>1 DEF Pending
    <3>7. \E c \in Pending' : c.op = "next" /\ m = Mark(c.change)
      BY <2>1
    <3>8. ASSUME NEW u \in unfinished, u.event = job.event.id, u # m
          PROVE  \E i \in 1..Len(Queue') : u = Mark(Queue'[i])
      <4>1. PICK i \in 1..Len(Queue) : u = Mark(Queue[i])
        BY <3>1, <3>6, <3>8
      <4>2. i # 1
        BY <1>2, <3>8, <4>1
      <4>3. i - 1 \in 1..Len(Tail(Queue)) /\ Tail(Queue)[i - 1] = Queue[(i - 1) + 1]
            /\ (i - 1) + 1 = i
        BY <2>3, <4>1, <4>2
      <4> QED BY <2>1, <4>1, <4>3
    <3> QED BY <1>4, <2>1, <2>2, <3>1, <3>2, <3>3, <3>4, <3>5, <3>7, <3>8
  <2>9. ASSUME job.kind = "reconcile"
        PROVE  /\ wiring = "repository"
               /\ \A i \in 1..Len(Queue') : Queue'[i].event = Nothing
               /\ \A c \in Pending' : c.op = "next" => c.change.event = Nothing
    <3>1. wiring = "repository" /\ \A i \in 1..Len(Queue) : Queue[i].event = Nothing
      BY <1>1, <2>9 DEF LedgerInv
    <3> QED BY <1>2, <2>1, <2>3, <3>1
  <2>10. LedgerInv'
    BY <1>1, <1>4, <2>1, <2>2, <2>7, <2>8, <2>9 DEF LedgerInv
  <2> QED BY <1>3, <1>5, <2>6, <2>10 DEF IngestionInv
<1> QED BY <1>6, <1>7

\* CallRaises and IndexFails: the event fails, the stores stay.
LEMMA FailKeeps ==
    ASSUME IngestionInv, job.kind # "idle", Fail,
           UNCHANGED <<world, index, catalog, unfinished, memory>>
    PROVE  IngestionInv'
<1>1. /\ UNCHANGED <<wiring, source, head, acl, sent, tree, index, catalog, unfinished>>
      /\ UNCHANGED <<entities, evidence, edges, journal>>
  BY DEF world, memory
<1>2. StoresInv'
  BY <1>1, StoresKept DEF IngestionInv
<1>3. WorldInv'
  BY <1>1, WorldKept DEF IngestionInv
<1>4. EventsInv' /\ LedgerInv' /\ JobInv'
  BY <1>1, FailStep DEF IngestionInv
<1> QED BY <1>2, <1>3, <1>4 DEF IngestionInv

\* Crash and ReconcileEnds: the job is gone, the ledger stays as it is.
LEMMA StopKeeps ==
    ASSUME IngestionInv, job' = Idle, tree' = tree \/ tree' = Nothing,
           UNCHANGED <<wiring, source, head, acl, sent, tables, unfinished, memory>>
    PROVE  IngestionInv'
<1>1. /\ UNCHANGED <<wiring, source, head, acl, sent, index, catalog, ledger, dlq, unfinished>>
      /\ UNCHANGED <<entities, evidence, edges, journal>>
  BY DEF tables, memory
<1>2. StoresInv'
  BY <1>1, StoresKept DEF IngestionInv
<1>3. WorldInv'
  BY <1>1 DEF IngestionInv, WorldInv
<1>4. EventsInv' /\ LedgerInv' /\ JobInv'
  BY <1>1, EventsIdle, LedgerIdle, JobIdle DEF IngestionInv
<1> QED BY <1>2, <1>3, <1>4 DEF IngestionInv

\* Call
LEMMA CallKeeps ==
    ASSUME IngestionInv, Call
    PROVE  IngestionInv'
<1> PICK h : h = Head(job.calls)
  OBVIOUS
<1>1. StoresInv /\ JobInv /\ WorldInv /\ EventsInv /\ LedgerInv
  BY DEF IngestionInv
<1>2. StoresInv' /\ JobInv'
  BY <1>1, CallStep
<1>3. /\ Queue' = Queue /\ \E c \in Pending' : c.op = "next"
      /\ \A c \in Pending' : c.op = "next" => CallMade(h, c.change)
      /\ job'.kind = job.kind /\ (job.kind = "event" => job'.event = job.event)
  BY <1>1, CallTaken
<1>4. PICK change : CallMade(h, change)
  BY <1>3
<1>5. /\ UNCHANGED <<wiring, source, head, acl, sent, tree, ledger, dlq, unfinished>>
      /\ h.op # "next"
      /\ catalog' = IF h.op = "catalog" THEN [catalog EXCEPT ![h.key] = Stored(h.change)]
                    ELSE catalog
  BY DEF Call, world, history
<1>6. h \in CallRecord /\ Pending = {h} \union Pending'
  BY <1>4 DEF CallMade
<1>7. \A c \in Pending : c.op = "next" <=> (c \in Pending' /\ c.op = "next")
  BY <1>5, <1>6
<1>8. h.op = "catalog" => h.key \in Documents /\ Stored(h.change).revision \in Nat
  <2>1. h.op = "catalog" => h.key \in Documents /\ h.change \in ChangeRecord
    BY <1>6, CallForms
  <2> QED BY <2>1 DEF ChangeRecord, Stored
<1>9. \A d \in Documents : catalog'[d] # Nothing => catalog'[d].revision \in Nat
  BY <1>1, <1>5, <1>8 DEF WorldInv, StoresInv, TypesInv
<1>10. WorldInv'
  BY <1>1, <1>5, <1>9 DEF WorldInv
<1>11. \A x : /\ SourcedChange(x) <=> SourcedChange(x)'
              /\ PushedEvent(x) <=> PushedEvent(x)'
              /\ KnownEvent(x) <=> KnownEvent(x)'
              /\ SourcedMark(x) <=> SourcedMark(x)'
  BY <1>5 DEF SourcedChange, PushedEvent, KnownEvent, SourcedMark, FileEvent
<1>12. (\A i \in 1..Len(Queue) : SourcedChange(Queue[i]))'
  BY <1>1, <1>3, <1>11 DEF EventsInv
<1>13. EventsInv'
  BY <1>1, <1>5, <1>11, <1>12 DEF EventsInv
<1>14. job.kind = "event" => KnownEvent(job.event)'
  BY <1>1, <1>3, <1>5, <1>11 DEF LedgerInv, KnownEvent, FileEvent
<1>15. ASSUME job.kind = "event", NEW u \in unfinished, u.event = job.event.id
       PROVE  \/ \E i \in 1..Len(Queue) : u = Mark(Queue[i])
              \/ \E c \in Pending' : c.op = "next" /\ u = Mark(c.change)
  BY <1>1, <1>7, <1>15 DEF LedgerInv
<1>16. LedgerInv'
  BY <1>1, <1>3, <1>5, <1>6, <1>14, <1>15 DEF LedgerInv
<1> QED BY <1>2, <1>10, <1>13, <1>16 DEF IngestionInv

\* EndChange
LEMMA EndKeeps ==
    ASSUME IngestionInv, EndChange
    PROVE  IngestionInv'
<1> PICK n : n = Head(job.calls)
  OBVIOUS
<1> PICK m : m = Mark(n.change)
  OBVIOUS
<1>1. StoresInv /\ JobInv /\ WorldInv /\ EventsInv /\ LedgerInv
  BY DEF IngestionInv
<1>2. StoresInv' /\ JobInv'
  BY <1>1, EndStep
<1>3. /\ job.kind # "idle" /\ job.calls # <<>> /\ n.op = "next"
      /\ unfinished' = unfinished \ {m}
      /\ UNCHANGED <<wiring, source, head, acl, sent, tree, catalog>>
  BY DEF EndChange, world
<1>4. /\ Pending = {n}
      /\ job # Idle /\ job \in JobRecord /\ Queue = job.changes
  BY <1>1, <1>3, LastCall, JobForms DEF JobInv
<1>5. WorldInv'
  BY <1>1, <1>3, WorldKept
<1>6. \A x : /\ SourcedChange(x) <=> SourcedChange(x)'
             /\ PushedEvent(x) <=> PushedEvent(x)'
             /\ KnownEvent(x) <=> KnownEvent(x)'
             /\ SourcedMark(x) <=> SourcedMark(x)'
  BY <1>3 DEF SourcedChange, PushedEvent, KnownEvent, SourcedMark, FileEvent
<1>7. CASE job.changes = <<>>
  <2>1. job' = Idle /\ job'.kind = "idle"
    BY <1>7 DEF EndChange, Complete, Idle
  <2>2. Queue' = <<>> /\ Len(Queue') = 0
    BY <2>1, JobIdle
  <2>3. CASE job.kind # "event"
    <3>1. UNCHANGED <<ledger, dlq>>
      BY <1>7, <2>3 DEF EndChange, Complete
    <3>2. EventsInv'
      BY <1>1, <1>3, <1>6, <2>2, <3>1 DEF EventsInv
    <3>3. LedgerInv'
      BY <1>1, <1>3, <2>1, <3>1 DEF LedgerInv
    <3> QED BY <1>2, <1>5, <3>2, <3>3 DEF IngestionInv
  <2>4. CASE job.kind = "event"
    <3> PICK id : id = job.event.id
      OBVIOUS
    <3>1. /\ ledger' = [ledger EXCEPT ![id] = "completed"]
          /\ dlq' = {x \in dlq : x.id # id}
      BY <1>7, <2>4 DEF EndChange, Complete
    <3>2. EventsInv'
      BY <1>1, <1>3, <1>6, <2>2, <3>1 DEF EventsInv
    <3>3. Len(Queue) = 0
      BY <1>4, <1>7
    <3>4. ~\E u \in unfinished' : u.event = id
      BY <1>1, <1>3, <1>4, <2>4, <3>3 DEF LedgerInv
    <3>5. KnownEvent(job.event)
      BY <1>1, <2>4 DEF LedgerInv
    <3>6. wiring # "knowledge"
      BY <3>5 DEF KnownEvent
    <3>7. DOMAIN ledger' = EventId
          /\ \A x \in EventId : ledger'[x] = "completed" => x = id \/ ledger[x] = "completed"
      BY <1>1, <3>1 DEF LedgerInv
    <3>8. \A x \in EventId : ledger'[x] = "completed" =>
             /\ ~\E u \in unfinished' : u.event = x
             /\ ~\E y \in dlq' : y.id = x
      BY <1>1, <1>3, <3>1, <3>4, <3>7 DEF LedgerInv
    <3>9. LedgerInv'
      BY <1>3, <2>1, <3>6, <3>7, <3>8 DEF LedgerInv
    <3> QED BY <1>2, <1>5, <3>2, <3>9 DEF IngestionInv
  <2> QED BY <2>3, <2>4
<1>8. CASE job.changes # <<>>
  <2>1. job' = [job EXCEPT !.calls = <<>>] /\ UNCHANGED <<ledger, dlq>>
    BY <1>8 DEF EndChange
  <2>2. /\ job'.kind = job.kind /\ job'.changes = job.changes /\ job'.calls = <<>>
        /\ job.kind = "event" => job'.event = job.event
    BY <1>4, <2>1 DEF JobRecord
  <2>3. job' # Idle
    BY <1>3, <2>2 DEF Idle
  <2>4. Queue' = Queue /\ Calls' = <<>>
    BY <1>4, <2>2, <2>3 DEF Queue, Calls
  <2>5. Pending' = {}
    <3>1. Len(Calls') = 0
      BY <2>4
    <3> QED BY <3>1 DEF Pending
  <2>6. (\A i \in 1..Len(Queue) : SourcedChange(Queue[i]))'
    BY <1>1, <1>6, <2>4 DEF EventsInv
  <2>7. EventsInv'
    BY <1>1, <1>3, <1>6, <2>1, <2>6 DEF EventsInv
  <2>8. job.kind = "event" => KnownEvent(job.event)'
    BY <1>1, <1>3, <1>6, <2>2 DEF LedgerInv, KnownEvent, FileEvent
  <2>9. ASSUME job.kind = "event", NEW u \in unfinished', u.event = job.event.id
        PROVE  \E i \in 1..Len(Queue) : u = Mark(Queue[i])
    BY <1>1, <1>3, <1>4, <2>9 DEF LedgerInv
  <2>10. LedgerInv'
    BY <1>1, <1>3, <2>1, <2>2, <2>4, <2>5, <2>8, <2>9 DEF LedgerInv
  <2> QED BY <1>2, <1>5, <2>7, <2>10 DEF IngestionInv
<1> QED BY <1>7, <1>8

\* Hold
LEMMA HoldKeeps ==
    ASSUME IngestionInv, NEW k \in EvidenceId, Hold(k)
    PROVE  IngestionInv'
<1>1. UNCHANGED <<wiring, source, head, acl, sent, tree, catalog, ledger, dlq, job, unfinished>>
  BY DEF Hold, world, tables, history
<1>2. StoresInv' /\ JobInv'
  BY HoldStep DEF IngestionInv
<1>3. WorldInv'
  BY <1>1, WorldKept DEF IngestionInv
<1>4. Queue' = Queue /\ Calls' = Calls /\ Pending' = Pending
  BY <1>1 DEF Queue, Calls, Pending
<1>5. EventsInv'
  BY <1>1, <1>4 DEF IngestionInv, EventsInv, SourcedChange, PushedEvent, KnownEvent,
                    SourcedMark, FileEvent
<1>6. LedgerInv'
  BY <1>1, <1>4 DEF IngestionInv, LedgerInv, KnownEvent, FileEvent
<1> QED BY <1>2, <1>3, <1>5, <1>6 DEF IngestionInv

-----------------------------------------------------------------------------
(* The steps outside the worker *)

\* A step while the worker is idle that leaves its events and the stores alone.
LEMMA IdleKeeps ==
    ASSUME IngestionInv, job = Idle, WorldInv',
           UNCHANGED <<wiring, sent, head, job, ledger, dlq, index, catalog, unfinished>>,
           UNCHANGED <<evidence, edges, journal>>
    PROVE  IngestionInv'
<1>1. StoresInv'
  BY StoresKept DEF IngestionInv
<1>2. EventsInv' /\ LedgerInv' /\ JobInv'
  BY EventsIdle, LedgerIdle, JobIdle DEF IngestionInv
<1> QED BY <1>1, <1>2 DEF IngestionInv

\* The repository's access list is one of the access lists.
LEMMA RepositoryAclIsAcl == RepositoryAcl \in Acls
BY SomeAcl DEF RepositoryAcl

\* The changes of the push of commit r.
ChangesOfPush(changes, r) ==
    /\ changes \in Seq(ChangeRecord) /\ changes # <<>>
    /\ \A i \in 1..Len(changes) : /\ changes[i].event = <<r>>
                                  /\ changes[i].revision = r
                                  /\ changes[i].acl = RepositoryAcl

\* github_push_event and azure_devops_push_event: a change of a push.
LEMMA EntryForm ==
    ASSUME NEW new \in [Documents -> Contents \union {Nothing}], NEW d \in Documents,
           NEW r \in Revisions, NEW s \in EntriesOf(new, d, r), NEW c \in Range(s)
    PROVE  c \in ChangeRecord /\ c.event = <<r>> /\ c.revision = r /\ c.acl = RepositoryAcl
<1> PICK u : u = Change("upsert", d, new[d], r, RepositoryAcl, <<r>>)
  OBVIOUS
<1> PICK x : x = Change("delete", d, Nothing, r, RepositoryAcl, <<r>>)
  OBVIOUS
<1>1. s \in {<<x>>, <<u>>, <<x, u>>}
  BY DEF EntriesOf
<1>2. <<r>> \in EventId /\ r \in Nat
  BY RevisionsAreNumbered DEF EventId
<1>3. u \in ChangeRecord /\ u.event = <<r>> /\ u.revision = r /\ u.acl = RepositoryAcl
  BY <1>2, RepositoryAclIsAcl DEF Change, ChangeRecord
<1>4. x \in ChangeRecord /\ x.event = <<r>> /\ x.revision = r /\ x.acl = RepositoryAcl
  BY <1>2, RepositoryAclIsAcl DEF Change, ChangeRecord
<1>5. PICK i \in DOMAIN s : c = s[i]
  BY DEF Range
<1>6. c = x \/ c = u
  <2>1. CASE s = <<x>>
    BY <1>5, <2>1
  <2>2. CASE s = <<u>>
    BY <1>5, <2>2
  <2>3. CASE s = <<x, u>>
    BY <1>5, <2>3
  <2> QED BY <1>1, <2>1, <2>2, <2>3
<1> QED BY <1>3, <1>4, <1>6

\* github_push_event and azure_devops_push_event: the changes of a push.
LEMMA PushedForm ==
    ASSUME NEW new \in [Documents -> Contents \union {Nothing}], NEW r \in Revisions,
           NEW changes \in Pushed(new, r)
    PROVE  ChangesOfPush(changes, r)
<1> PICK entries : entries = UNION {UNION {Range(s) : s \in EntriesOf(new, d, r)} :
                                       d \in Touched(new)}
  OBVIOUS
<1>1. changes \in UNION {[1..n -> entries] : n \in 1..MaxChanges}
  BY DEF Pushed
<1>2. PICK n \in 1..MaxChanges : changes \in [1..n -> entries]
  BY <1>1
<1>3. n \in Nat /\ n > 0
  BY ChangesAreCounted
<1>4. \A c \in entries : /\ c \in ChangeRecord /\ c.event = <<r>> /\ c.revision = r
                         /\ c.acl = RepositoryAcl
  <2> SUFFICES ASSUME NEW c \in entries
               PROVE  /\ c \in ChangeRecord /\ c.event = <<r>> /\ c.revision = r
                      /\ c.acl = RepositoryAcl
    OBVIOUS
  <2>1. PICK d \in Touched(new) : \E s \in EntriesOf(new, d, r) : c \in Range(s)
    OBVIOUS
  <2>2. d \in Documents
    BY DEF Touched
  <2> QED BY <2>1, <2>2, EntryForm
<1>5. changes \in [1..n -> ChangeRecord] /\ Len(changes) = n
  BY <1>2, <1>3, <1>4
<1>6. changes \in Seq(ChangeRecord) /\ changes # <<>>
  BY <1>3, <1>5
<1> QED BY <1>2, <1>4, <1>5, <1>6 DEF ChangesOfPush

\* Push
LEMMA PushKeeps ==
    ASSUME IngestionInv, Push
    PROVE  IngestionInv'
<1> PICK r : r = head + 1
  OBVIOUS
<1>1. StoresInv /\ JobInv /\ WorldInv /\ EventsInv /\ LedgerInv
  BY DEF IngestionInv
<1>2. /\ job = Idle /\ r \in Revisions /\ head' = r
      /\ UNCHANGED <<wiring, acl, index, catalog, ledger, dlq, tree, job, unfinished>>
      /\ UNCHANGED <<evidence, edges, journal>>
  BY DEF Push, tables, history, memory
<1>3. PICK new \in [Documents -> Contents \union {Nothing}] :
         /\ source' = new
         /\ \E changes \in Pushed(new, r) :
               sent' = sent \union {[id |-> <<r>>, changes |-> changes]}
  BY DEF Push
<1>4. PICK changes \in Pushed(new, r) :
         sent' = sent \union {[id |-> <<r>>, changes |-> changes]}
  BY <1>3
<1> PICK e : e = [id |-> <<r>>, changes |-> changes]
  OBVIOUS
<1>5. /\ changes \in Seq(ChangeRecord) /\ changes # <<>>
      /\ \A i \in 1..Len(changes) : /\ changes[i].event = <<r>>
                                    /\ changes[i].revision = r
                                    /\ changes[i].acl = RepositoryAcl
  <2>1. ChangesOfPush(changes, r)
    BY <1>2, PushedForm
  <2> QED BY <2>1 DEF ChangesOfPush
<1>6. /\ e \in EventRecord /\ e.id = <<r>> /\ e.changes = changes /\ e.id[1] = r
  BY <1>2, <1>5 DEF EventRecord, EventId
<1>7. PushedEvent(e)'
  <2>1. r <= head'
    BY <1>1, <1>2 DEF WorldInv
  <2> QED BY <1>2, <1>5, <1>6, <2>1 DEF PushedEvent
<1>8. \A x \in sent : PushedEvent(x)' /\ x.id # e.id
  <2> SUFFICES ASSUME NEW x \in sent PROVE PushedEvent(x)' /\ x.id # e.id
    OBVIOUS
  <2>1. PushedEvent(x)
    BY <1>1 DEF EventsInv
  <2>2. PICK s \in Revisions : s <= head /\ x.id = <<s>>
    BY <2>1 DEF PushedEvent
  <2>3. s \in Nat /\ head \in Nat
    BY <1>1, RevisionsAreNumbered DEF WorldInv
  <2>4. s <= head' /\ s # r
    BY <1>2, <2>2, <2>3
  <2>5. x.id # e.id
    BY <1>6, <2>2, <2>4
  <2>6. PushedEvent(x)'
    BY <2>1, <2>2, <2>4 DEF PushedEvent
  <2> QED BY <2>5, <2>6
<1>9. sent' = sent \union {e}
  BY <1>4
<1>10. Queue' = <<>> /\ Len(Queue') = 0
  BY <1>2, JobIdle
<1>11. EventsInv'
  <2>1. \A x \in dlq' : KnownEvent(x)'
    BY <1>1, <1>2, <1>9 DEF EventsInv, KnownEvent, FileEvent
  <2>2. \A u \in unfinished' : SourcedMark(u)'
    BY <1>1, <1>2, <1>9 DEF EventsInv, SourcedMark
  <2>3. \A x \in sent' : PushedEvent(x)'
    BY <1>7, <1>8, <1>9
  <2>4. \A x, y \in sent' : x.id = y.id => x = y
    BY <1>1, <1>8, <1>9 DEF EventsInv
  <2> QED BY <1>10, <2>1, <2>2, <2>3, <2>4 DEF EventsInv
<1>12. WorldInv'
  <2>1. head' \in Nat /\ head' > 0
    BY <1>1, <1>2 DEF WorldInv
  <2>2. source' \in [Documents -> Contents \union {Nothing}]
    BY <1>3
  <2> QED BY <1>1, <1>2, <2>1, <2>2 DEF WorldInv
<1>13. LedgerInv'
  BY <1>1, <1>2, LedgerIdle
<1>14. StoresInv' /\ JobInv'
  BY <1>1, <1>2, StoresKept, JobIdle
<1> QED BY <1>11, <1>12, <1>13, <1>14 DEF IngestionInv

\* ChangeAcl
LEMMA ChangeAclKeeps ==
    ASSUME IngestionInv, ChangeAcl
    PROVE  IngestionInv'
<1>1. /\ UNCHANGED <<wiring, source, head, sent, index, catalog, ledger, dlq, tree, job,
                     unfinished>>
      /\ UNCHANGED <<evidence, edges, journal>>
      /\ job = Idle /\ acl' \in Acls
  BY DEF ChangeAcl, tables, history, memory
<1>2. WorldInv'
  BY <1>1 DEF IngestionInv, WorldInv
<1> QED BY <1>1, <1>2, IdleKeeps

\* DeliverEvent and Replay: the worker takes an event.
LEMMA HandleKeeps ==
    ASSUME IngestionInv, NEW e, KnownEvent(e), job = Idle, StartEvent(e),
           UNCHANGED <<world, index, catalog, dlq, unfinished, memory>>
    PROVE  IngestionInv'
<1>1. /\ UNCHANGED <<wiring, source, head, acl, sent, tree, index, catalog, dlq, unfinished>>
      /\ UNCHANGED <<evidence, edges, journal>>
  BY DEF world, memory
<1>2. StoresInv' /\ JobInv' /\ EventsInv' /\ LedgerInv'
  BY <1>1, StartStep
<1>3. WorldInv'
  BY <1>1, WorldKept DEF IngestionInv
<1> QED BY <1>2, <1>3 DEF IngestionInv

\* StartCheckout
LEMMA StartCheckoutKeeps ==
    ASSUME IngestionInv, StartCheckout
    PROVE  IngestionInv'
<1>1. /\ UNCHANGED <<wiring, source, head, acl, sent, index, catalog, ledger, dlq, job,
                     unfinished>>
      /\ UNCHANGED <<evidence, edges, journal>>
      /\ job = Idle /\ wiring = "checkout"
      /\ tree' = [files |-> source, commit |-> head, acl |-> acl,
                  left |-> {d \in Documents : source[d] # Nothing}]
  BY DEF StartCheckout, tables, history, memory
<1>2. WorldInv'
  BY <1>1 DEF IngestionInv, WorldInv
<1> QED BY <1>1, <1>2, IdleKeeps

\* EndCheckout
LEMMA EndCheckoutKeeps ==
    ASSUME IngestionInv, EndCheckout
    PROVE  IngestionInv'
<1>1. /\ UNCHANGED <<wiring, source, head, acl, sent, index, catalog, ledger, dlq, job,
                     unfinished>>
      /\ UNCHANGED <<evidence, edges, journal>>
      /\ job = Idle /\ tree' = Nothing
  BY DEF EndCheckout, tables, history, memory
<1>2. WorldInv'
  BY <1>1 DEF IngestionInv, WorldInv
<1> QED BY <1>1, <1>2, IdleKeeps

\* CheckoutFile: one file of the walk, taken or counted as a duplicate.
LEMMA CheckoutFileKeeps ==
    ASSUME IngestionInv, NEW d \in Documents, CheckoutFile(d)
    PROVE  IngestionInv'
<1> PICK e : e = CheckoutEvent(d)
  OBVIOUS
<1>1. /\ UNCHANGED <<wiring, source, head, acl, sent, index, catalog, dlq, unfinished>>
      /\ UNCHANGED <<evidence, edges, journal>>
      /\ job = Idle /\ tree # Nothing /\ d \in tree.left
      /\ tree' = [tree EXCEPT !.left = tree.left \ {d}]
      /\ StartEvent(e) \/ UNCHANGED <<ledger, job>>
  BY DEF CheckoutFile, memory
<1>2. /\ wiring = "checkout"
      /\ tree \in [files : [Documents -> Contents \union {Nothing}],
                   commit : Nat, acl : Acls, left : SUBSET Documents]
      /\ \A x \in tree.left : tree.files[x] # Nothing
  BY <1>1 DEF IngestionInv, WorldInv
<1>3. WorldInv'
  BY <1>1, <1>2 DEF IngestionInv, WorldInv
<1>4. FileEvent(e)
  <2> PICK id : id = <<d, tree.files[d], tree.acl>>
    OBVIOUS
  <2> PICK c : c = Change("upsert", d, tree.files[d], tree.commit, tree.acl, id)
    OBVIOUS
  <2>1. tree.files[d] \in Contents
    BY <1>1, <1>2
  <2>2. id \in FileId /\ id \in EventId /\ id[1] = d
    BY <1>2, <2>1 DEF FileId, EventId
  <2>3. c \in ChangeRecord /\ c.type = "upsert" /\ c.doc = d /\ c.event = id
    BY <1>2, <2>1, <2>2 DEF Change, ChangeRecord
  <2>4. e = [id |-> id, changes |-> <<c>>]
    BY DEF CheckoutEvent
  <2>5. e \in EventRecord /\ e.id = id /\ e.changes = <<c>> /\ Len(<<c>>) = 1 /\ <<c>>[1] = c
    BY <2>2, <2>3, <2>4 DEF EventRecord
  <2> QED BY <2>2, <2>3, <2>5 DEF FileEvent
<1>5. CASE StartEvent(e)
  <2>1. KnownEvent(e)
    BY <1>2, <1>4 DEF KnownEvent
  <2>2. StoresInv' /\ JobInv' /\ EventsInv' /\ LedgerInv'
    BY <1>1, <1>5, <2>1, StartStep
  <2> QED BY <1>3, <2>2 DEF IngestionInv
<1>6. CASE UNCHANGED <<ledger, job>>
  BY <1>1, <1>3, <1>6, IdleKeeps
<1> QED BY <1>1, <1>5, <1>6

\* ProcessKnowledge: the last change a push made of a document.
LEMMA KnowledgeKeeps ==
    ASSUME IngestionInv, NEW e \in sent, ProcessKnowledge(e)
    PROVE  IngestionInv'
<1> PICK i \in 1..Len(e.changes) :
       job' = [kind |-> "knowledge", changes |-> <<e.changes[i]>>, calls |-> <<>>]
  BY DEF ProcessKnowledge
<1> PICK c : c = e.changes[i]
  OBVIOUS
<1> PICK q : q = <<c>>
  OBVIOUS
<1>1. StoresInv /\ JobInv /\ WorldInv /\ EventsInv /\ LedgerInv
  BY DEF IngestionInv
<1>2. /\ UNCHANGED <<wiring, source, head, acl, sent, tree, index, catalog, ledger, dlq,
                     unfinished>>
      /\ UNCHANGED <<evidence, edges, journal>>
      /\ job = Idle /\ wiring = "knowledge"
      /\ job' = [kind |-> "knowledge", changes |-> q, calls |-> <<>>]
  BY DEF ProcessKnowledge, world, tables, history, memory
<1>3. PushedEvent(e)
  BY <1>1 DEF EventsInv
<1>4. e \in EventRecord /\ e.changes \in Seq(ChangeRecord) /\ e.changes # <<>>
  BY <1>3 DEF PushedEvent, EventRecord
<1>5. c \in ChangeRecord
  BY <1>4
<1>6. PICK r \in Revisions : e.id = <<r>>
  BY <1>3 DEF PushedEvent
<1>7. c.event = e.id /\ c.revision = r /\ c.acl = RepositoryAcl
  BY <1>3, <1>5, <1>6 DEF PushedEvent
<1>8. Projectable(c)'
  BY <1>6, <1>7, RepositoryAclIsAcl DEF Projectable
<1>9. SourcedChange(c)'
  BY <1>2, <1>5, <1>7 DEF SourcedChange
<1>10. q \in Seq(ChangeRecord) /\ Len(q) = 1 /\ q[1] = c
  BY <1>5
<1>11. /\ job' \in JobRecord /\ job'.kind = "knowledge" /\ job'.changes = q /\ job'.calls = <<>>
  BY <1>2, <1>10 DEF JobRecord
<1>12. job' # Idle
  BY <1>11 DEF Idle
<1>13. Queue' = q /\ Calls' = <<>>
  BY <1>11, <1>12 DEF Queue, Calls
<1>14. \A j \in 1..Len(Queue') : Queue'[j] = c
  BY <1>10, <1>13
<1>15. JobInv'
  <2>1. (\A j \in 1..Len(Queue) : Projectable(Queue[j]))'
    BY <1>8, <1>14 DEF Projectable
  <2> QED BY <1>11, <1>13, <2>1, NoCalls
<1>16. EventsInv'
  <2>1. (\A j \in 1..Len(Queue) : SourcedChange(Queue[j]))'
    BY <1>9, <1>14 DEF SourcedChange
  <2>2. \A x : /\ PushedEvent(x) <=> PushedEvent(x)'
               /\ KnownEvent(x) <=> KnownEvent(x)'
               /\ SourcedMark(x) <=> SourcedMark(x)'
    BY <1>2 DEF PushedEvent, KnownEvent, SourcedMark, FileEvent
  <2> QED BY <1>1, <1>2, <2>1, <2>2 DEF EventsInv
<1>17. LedgerInv'
  BY <1>1, <1>2, <1>11 DEF LedgerInv
<1>18. StoresInv' /\ WorldInv'
  BY <1>1, <1>2, StoresKept, WorldKept
<1> QED BY <1>15, <1>16, <1>17, <1>18 DEF IngestionInv

\* A list of finitely many changes has them and nothing else.
LEMMA ChangesListed ==
    ASSUME NEW U \in SUBSET ChangeRecord, IsFiniteSet(U)
    PROVE  /\ SetToSeq(U) \in Seq(ChangeRecord)
           /\ \A i \in 1..Len(SetToSeq(U)) : SetToSeq(U)[i] \in U
<1>1. PICK s : s = SetToSeq(U)
  OBVIOUS
<1>2. SetToSeq(U) \in Seq(U)
  BY ListOfSet
<1>3. s \in Seq(U)
  BY <1>1, <1>2
<1>4. s \in Seq(ChangeRecord) /\ \A i \in 1..Len(s) : s[i] \in U
  BY <1>3
<1> QED BY <1>1, <1>4

\* One change for each document is finitely many.
LEMMA ChangesAreFinite ==
    ASSUME NEW X \in SUBSET Documents, NEW f, f \in [X -> ChangeRecord]
    PROVE  IsFiniteSet({f[d] : d \in X}) /\ {f[d] : d \in X} \in SUBSET ChangeRecord
<1>1. IsFiniteSet(X)
  BY SourcesAreFinite, FS_Subset
<1>2. PICK U : U = {f[d] : d \in X}
  OBVIOUS
<1>3. f \in Surjection(X, U)
  BY <1>2 DEF Surjection
<1>4. IsFiniteSet(U)
  BY <1>1, <1>3, FS_Surjection
<1> QED BY <1>2, <1>4

\* Every change of q is one of s or of t.
Joins(q, s, t) ==
    /\ q \in Seq(ChangeRecord)
    /\ \A i \in 1..Len(q) : \/ \E j \in 1..Len(s) : q[i] = s[j]
                            \/ \E j \in 1..Len(t) : q[i] = t[j]

\* What two lists hold, one after the other.
LEMMA ChangesJoined ==
    ASSUME NEW s \in Seq(ChangeRecord), NEW t \in Seq(ChangeRecord), NEW q, q = s \o t
    PROVE  Joins(q, s, t)
<1>2. /\ q \in Seq(ChangeRecord) /\ Len(q) = Len(s) + Len(t)
      /\ \A i \in 1..Len(s) + Len(t) : q[i] = IF i <= Len(s) THEN s[i] ELSE t[i - Len(s)]
  BY ConcatProperties
<1>3. Len(s) \in Nat /\ Len(t) \in Nat
  OBVIOUS
<1>4. ASSUME NEW i \in 1..Len(q)
      PROVE  (\E j \in 1..Len(s) : q[i] = s[j]) \/ (\E j \in 1..Len(t) : q[i] = t[j])
  <2>1. CASE i <= Len(s)
    BY <1>2, <1>3, <2>1
  <2>2. CASE ~(i <= Len(s))
    <3>1. i - Len(s) \in 1..Len(t) /\ q[i] = t[i - Len(s)]
      BY <1>2, <1>3, <2>2
    <3> QED BY <3>1
  <2> QED BY <2>1, <2>2
<1> QED BY <1>2, <1>4 DEF Joins

\* The changes a reconciliation makes: what the manifest has, and what it lacks.
Upserts == {Manifest(d) : d \in {d \in Documents : source[d] # Nothing /\ NeedsUpsert(d)}}
Gone(d) == Change("delete", d, Nothing, catalog[d].revision, Nothing, Nothing)
Deletes == {Gone(d) : d \in {d \in Documents : /\ source[d] = Nothing /\ catalog[d] # Nothing
                                               /\ catalog[d].state = "active"}}

\* What a reconciliation writes again: changes of no event, with the revision and
\* the access list of the manifest.
LEMMA UpsertsForm ==
    ASSUME WorldInv, head > 0
    PROVE  /\ IsFiniteSet(Upserts) /\ Upserts \in SUBSET ChangeRecord
           /\ \A c \in Upserts : c.event = Nothing /\ c.revision \in Revisions /\ c.acl \in Acls
<1>1. PICK X : X = {d \in Documents : source[d] # Nothing /\ NeedsUpsert(d)}
  OBVIOUS
<1>2. X \in SUBSET Documents
  BY <1>1
<1>3. \A d \in X : Manifest(d) \in ChangeRecord /\ Manifest(d).event = Nothing
                   /\ Manifest(d).revision \in Revisions /\ Manifest(d).acl \in Acls
  <2>1. head \in Revisions /\ head \in Nat /\ acl \in Acls
        /\ source \in [Documents -> Contents \union {Nothing}]
    BY DEF WorldInv
  <2> QED BY <1>2, <2>1 DEF Manifest, Change, ChangeRecord
<1>4. PICK f : f = [d \in X |-> Manifest(d)]
  OBVIOUS
<1>5. f \in [X -> ChangeRecord]
  BY <1>3, <1>4
<1>6. IsFiniteSet({f[d] : d \in X}) /\ {f[d] : d \in X} \in SUBSET ChangeRecord
  BY <1>2, <1>5, ChangesAreFinite
<1>7. Upserts = {Manifest(d) : d \in X}
  BY <1>1 DEF Upserts
<1>8. {f[d] : d \in X} = {Manifest(d) : d \in X}
  BY <1>4
<1> QED BY <1>3, <1>6, <1>7, <1>8

\* What a reconciliation deletes: changes of no event.
LEMMA DeletesForm ==
    ASSUME WorldInv
    PROVE  /\ IsFiniteSet(Deletes) /\ Deletes \in SUBSET ChangeRecord
           /\ \A c \in Deletes : c.event = Nothing /\ c.type = "delete"
<1>1. PICK X : X = {d \in Documents : /\ source[d] = Nothing /\ catalog[d] # Nothing
                                      /\ catalog[d].state = "active"}
  OBVIOUS
<1>2. X \in SUBSET Documents
  BY <1>1
<1>3. \A d \in X : Gone(d) \in ChangeRecord /\ Gone(d).event = Nothing /\ Gone(d).type = "delete"
  <2>1. \A d \in X : catalog[d].revision \in Nat
    BY <1>1 DEF WorldInv
  <2> QED BY <1>2, <2>1 DEF Gone, Change, ChangeRecord
<1>4. PICK f : f = [d \in X |-> Gone(d)]
  OBVIOUS
<1>5. f \in [X -> ChangeRecord]
  BY <1>3, <1>4
<1>6. IsFiniteSet({f[d] : d \in X}) /\ {f[d] : d \in X} \in SUBSET ChangeRecord
  BY <1>2, <1>5, ChangesAreFinite
<1>7. Deletes = {Gone(d) : d \in X}
  BY <1>1 DEF Deletes
<1>8. {f[d] : d \in X} = {Gone(d) : d \in X}
  BY <1>4
<1> QED BY <1>3, <1>6, <1>7, <1>8

\* Reconcile: the changes come from the manifest and the catalog.
LEMMA ReconcileKeeps ==
    ASSUME IngestionInv, Reconcile
    PROVE  IngestionInv'
<1>1. StoresInv /\ JobInv /\ WorldInv /\ EventsInv /\ LedgerInv
  BY DEF IngestionInv
<1>2. /\ UNCHANGED <<wiring, source, head, acl, sent, tree, index, catalog, ledger, dlq,
                     unfinished>>
      /\ UNCHANGED <<evidence, edges, journal>>
      /\ job = Idle /\ wiring = "repository" /\ head > 0
  BY DEF Reconcile, world, tables, history, memory
<1>3. job' = [kind |-> "reconcile", changes |-> SetToSeq(Upserts) \o SetToSeq(Deletes),
              calls |-> <<>>]
  <2>1. Upserts = {Manifest(d) : d \in {d \in {x \in Documents : source[x] # Nothing} :
                                          NeedsUpsert(d)}}
    BY DEF Upserts
  <2>2. Deletes = {Change("delete", d, Nothing, catalog[d].revision, Nothing, Nothing) :
                     d \in {d \in Documents \ {x \in Documents : source[x] # Nothing} :
                               catalog[d] # Nothing /\ catalog[d].state = "active"}}
    BY DEF Deletes, Gone
  <2> QED BY <2>1, <2>2 DEF Reconcile
<1>4. PICK s : s = SetToSeq(Upserts)
  OBVIOUS
<1>5. PICK t : t = SetToSeq(Deletes)
  OBVIOUS
<1>6. /\ s \in Seq(ChangeRecord)
      /\ \A i \in 1..Len(s) : s[i].event = Nothing /\ s[i].revision \in Revisions
                              /\ s[i].acl \in Acls
  <2>1. /\ IsFiniteSet(Upserts) /\ Upserts \in SUBSET ChangeRecord
        /\ \A c \in Upserts : c.event = Nothing /\ c.revision \in Revisions /\ c.acl \in Acls
    BY <1>1, <1>2, UpsertsForm
  <2>2. s \in Seq(ChangeRecord) /\ \A i \in 1..Len(s) : s[i] \in Upserts
    BY <1>4, <2>1, ChangesListed
  <2> QED BY <2>1, <2>2
<1>7. /\ t \in Seq(ChangeRecord)
      /\ \A i \in 1..Len(t) : t[i].event = Nothing /\ t[i].type = "delete"
  <2>1. /\ IsFiniteSet(Deletes) /\ Deletes \in SUBSET ChangeRecord
        /\ \A c \in Deletes : c.event = Nothing /\ c.type = "delete"
    BY <1>1, DeletesForm
  <2>2. t \in Seq(ChangeRecord) /\ \A i \in 1..Len(t) : t[i] \in Deletes
    BY <1>5, <2>1, ChangesListed
  <2> QED BY <2>1, <2>2
<1>8. PICK q : q = s \o t
  OBVIOUS
<1>9. Joins(q, s, t)
  BY <1>6, <1>7, <1>8, ChangesJoined
<1>10. \A i \in 1..Len(q) : /\ q[i].event = Nothing
                            /\ \/ q[i].type = "delete"
                               \/ q[i].revision \in Revisions /\ q[i].acl \in Acls
  BY <1>6, <1>7, <1>9 DEF Joins
<1>11. job' = [kind |-> "reconcile", changes |-> q, calls |-> <<>>]
  BY <1>3, <1>4, <1>5, <1>8
<1>12. /\ job' \in JobRecord /\ job'.kind = "reconcile" /\ job'.changes = q /\ job'.calls = <<>>
  BY <1>9, <1>11 DEF JobRecord, Joins
<1>13. job' # Idle
  BY <1>12 DEF Idle
<1>14. Queue' = q /\ Calls' = <<>>
  BY <1>12, <1>13 DEF Queue, Calls
<1>15. JobInv' /\ Pending' = {}
  <2>1. (\A i \in 1..Len(Queue) : Projectable(Queue[i]))'
    BY <1>10, <1>14 DEF Projectable
  <2> QED BY <1>12, <1>14, <2>1, NoCalls
<1>16. EventsInv'
  <2>1. (\A i \in 1..Len(Queue) : SourcedChange(Queue[i]))'
    BY <1>10, <1>14 DEF SourcedChange
  <2>2. \A x : /\ PushedEvent(x) <=> PushedEvent(x)'
               /\ KnownEvent(x) <=> KnownEvent(x)'
               /\ SourcedMark(x) <=> SourcedMark(x)'
    BY <1>2 DEF PushedEvent, KnownEvent, SourcedMark, FileEvent
  <2> QED BY <1>1, <1>2, <2>1, <2>2 DEF EventsInv
<1>17. LedgerInv'
  BY <1>1, <1>2, <1>10, <1>12, <1>14, <1>15 DEF LedgerInv
<1>18. StoresInv' /\ WorldInv'
  BY <1>1, <1>2, StoresKept, WorldKept
<1> QED BY <1>15, <1>16, <1>17, <1>18 DEF IngestionInv

-----------------------------------------------------------------------------
(* The invariant *)

\* InitIngestion: nothing is stored and nothing is under way.
LEMMA InitIngestionInv == InitIngestion => IngestionInv
<1> SUFFICES ASSUME InitIngestion PROVE IngestionInv
  OBVIOUS
<1>1. /\ wiring \in Wirings /\ source = [d \in Documents |-> Nothing] /\ head = 0
      /\ acl = RepositoryAcl /\ sent = {} /\ tree = Nothing
      /\ index = [d \in Documents |-> Nothing] /\ catalog = [d \in Documents |-> Nothing]
      /\ ledger = [e \in EventId |-> "absent"] /\ dlq = {} /\ job = Idle /\ unfinished = {}
      /\ evidence = [k \in EvidenceId |-> Nothing] /\ edges = [k \in EdgeKey |-> Nothing]
      /\ journal = [d \in Documents |-> Nothing]
  BY DEF InitIngestion, InitMemory, InitStore, InitJournal
<1>2. /\ \A k \in EvidenceId : ~Active(evidence[k])
      /\ \A k \in EdgeKey : ~Active(edges[k])
      /\ \A d \in Documents : ~Active(journal[d])
  BY <1>1 DEF Active
<1>3. StoresInv
  <2>1. TypesInv
    BY <1>1 DEF TypesInv
  <2>2. BackedInv /\ StaleInv /\ JournalInv
    BY <1>2 DEF BackedInv, StaleInv, JournalInv
  <2>3. CatalogInv
    BY <1>1 DEF CatalogInv
  <2> QED BY <2>1, <2>2, <2>3 DEF StoresInv
<1>4. job.kind = "idle" /\ Calls = <<>> /\ Queue = <<>> /\ Pending = {}
  BY <1>1, JobForms
<1>5. Len(Calls) = 0 /\ Len(Queue) = 0
  BY <1>4
<1>6. JobInv
  BY <1>1, <1>4, <1>5 DEF JobInv, InSequence
<1>7. WorldInv
  BY <1>1, WiringsAreKnown, RepositoryAclIsAcl DEF WorldInv
<1>8. EventsInv
  BY <1>1, <1>5 DEF EventsInv
<1>9. LedgerInv
  BY <1>1, <1>4 DEF LedgerInv
<1> QED BY <1>3, <1>6, <1>7, <1>8, <1>9 DEF IngestionInv

\* A step that changes nothing.
LEMMA IngestionStutters ==
    ASSUME IngestionInv, UNCHANGED ingestVars
    PROVE  IngestionInv'
<1>1. /\ UNCHANGED <<wiring, source, head, acl, sent, index, catalog, ledger, dlq, tree, job,
                     unfinished>>
      /\ UNCHANGED <<evidence, edges, journal>>
  BY DEF ingestVars
<1>2. StoresInv' /\ WorldInv'
  BY <1>1, StoresKept, WorldKept DEF IngestionInv
<1>3. /\ Calls' = Calls /\ Queue' = Queue /\ Pending' = Pending
      /\ JournalPending' <=> JournalPending
  BY <1>1 DEF Calls, Queue, Pending, JournalPending
<1>4. \A x : Progress(x) <=> Progress(x)'
  BY <1>1, <1>3 DEF Progress, CallFits, PutFits, EdgeFits, RetireFits, JournalFits, PlaceFits,
                    BeforeJournal, AfterJournal, EdgesFor, EvidenceOf, Kind, Active, JournalEntry,
                    Projectable, Mark, Indexed, Stored
<1>5. JobInv'
  BY <1>1, <1>3, <1>4 DEF IngestionInv, JobInv, InSequence, Projectable
<1>6. EventsInv'
  BY <1>1, <1>3 DEF IngestionInv, EventsInv, SourcedChange, PushedEvent, KnownEvent,
                    SourcedMark, FileEvent
<1>7. LedgerInv'
  BY <1>1, <1>3 DEF IngestionInv, LedgerInv, KnownEvent, FileEvent
<1> QED BY <1>2, <1>5, <1>6, <1>7 DEF IngestionInv

\* Every step keeps the invariant.
LEMMA IngestionNextInv ==
    ASSUME IngestionInv, NextIngestion
    PROVE  IngestionInv'
<1>1. CASE Push
  BY <1>1, PushKeeps
<1>2. ASSUME NEW d \in Documents, CheckoutFile(d) PROVE IngestionInv'
  BY <1>2, CheckoutFileKeeps
<1>3. CASE ChangeAcl
  BY <1>3, ChangeAclKeeps
<1>4. ASSUME NEW k \in EvidenceId, Hold(k) PROVE IngestionInv'
  BY <1>4, HoldKeeps
<1>5. ASSUME NEW e \in sent, DeliverEvent(e) PROVE IngestionInv'
  <2>1. KnownEvent(e) /\ job = Idle /\ StartEvent(e)
        /\ UNCHANGED <<world, index, catalog, dlq, unfinished, memory>>
    BY <1>5 DEF DeliverEvent, KnownEvent
  <2> QED BY <2>1, HandleKeeps
<1>6. ASSUME NEW e \in sent, ProcessKnowledge(e) PROVE IngestionInv'
  BY <1>6, KnowledgeKeeps
<1>7. ASSUME NEW e \in dlq, Replay(e) PROVE IngestionInv'
  <2>1. KnownEvent(e) /\ job = Idle /\ StartEvent(e)
        /\ UNCHANGED <<world, index, catalog, dlq, unfinished, memory>>
    BY <1>7 DEF Replay, IngestionInv, EventsInv
  <2> QED BY <2>1, HandleKeeps
<1>8. CASE BeginChange
  BY <1>8, BeginKeeps
<1>9. CASE Call
  BY <1>9, CallKeeps
<1>10. CASE CallRaises \/ IndexFails
  <2>1. job.kind # "idle" /\ Fail /\ UNCHANGED <<world, index, catalog, unfinished, memory>>
    BY <1>10 DEF CallRaises, IndexFails, history
  <2> QED BY <2>1, FailKeeps
<1>11. CASE EndChange
  BY <1>11, EndKeeps
<1>12. CASE Crash \/ ReconcileEnds
  <2>1. /\ job' = Idle /\ (tree' = tree \/ tree' = Nothing)
        /\ UNCHANGED <<wiring, source, head, acl, sent, tables, unfinished, memory>>
    BY <1>12 DEF Crash, ReconcileEnds, world, history
  <2> QED BY <2>1, StopKeeps
<1>13. CASE Reconcile
  BY <1>13, ReconcileKeeps
<1>14. CASE StartCheckout \/ EndCheckout
  BY <1>14, StartCheckoutKeeps, EndCheckoutKeeps
<1> QED BY <1>1, <1>2, <1>3, <1>4, <1>5, <1>6, <1>7, <1>8, <1>9, <1>10, <1>11, <1>12, <1>13,
           <1>14 DEF NextIngestion

\* The invariant of the ingestion plane holds, whatever is delivered, lost,
\* repeated or reordered, and wherever the worker dies (ingestion/worker.py,
\* pipeline.py, company_brain/memory.py).
THEOREM IngestionInvariant == IngestionSpec => []IngestionInv
<1>1. InitIngestion => IngestionInv
  BY InitIngestionInv
<1>2. IngestionInv /\ [NextIngestion]_ingestVars => IngestionInv'
  BY IngestionNextInv, IngestionStutters
<1> QED BY <1>1, <1>2, PTL DEF IngestionSpec

-----------------------------------------------------------------------------
(* What started events owe *)

\* A step with no event at work after it, that completes none.
LEMMA OwedKept ==
    ASSUME OwedInv, job'.kind # "event", owed' = owed, wiring' = wiring, sent \subseteq sent',
           \A id \in EventId : ledger'[id] = "completed" => ledger[id] = "completed"
    PROVE  OwedInv'
<1>1. \A u : SourcedMark(u) => SourcedMark(u)'
  BY DEF SourcedMark
<1> QED BY <1>1 DEF OwedInv

\* A step that leaves the job as it is.
LEMMA OwedStays ==
    ASSUME OwedInv, UNCHANGED <<wiring, sent, ledger, job, owed>>
    PROVE  OwedInv'
<1>1. Queue' = Queue /\ Pending' = Pending
  BY DEF Queue, Pending, Calls
<1> QED BY <1>1 DEF OwedInv, SourcedMark

\* ledger.fail completes nothing.
LEMMA OwedFail ==
    ASSUME IngestionInv, OwedInv, Fail, UNCHANGED <<wiring, sent, owed>>
    PROVE  OwedInv'
<1>1. job'.kind = "idle"
  BY DEF Fail, Idle
<1>2. \A id \in EventId : ledger'[id] = "completed" => ledger[id] = "completed"
  <2>1. DOMAIN ledger = EventId
    BY DEF IngestionInv, LedgerInv
  <2>2. CASE job.kind = "event"
    BY <2>1, <2>2 DEF Fail
  <2>3. CASE job.kind # "event"
    BY <2>3 DEF Fail
  <2> QED BY <2>2, <2>3
<1> QED BY <1>1, <1>2, OwedKept

\* IngestionWorker.handle: what the event owes is its changes, the ones an
\* earlier attempt left undone among them.
LEMMA OwedStart ==
    ASSUME IngestionInv, OwedInv, NEW e, KnownEvent(e), StartEvent(e), UNCHANGED <<wiring, sent>>
    PROVE  OwedInv'
<1>1. /\ e \in EventRecord /\ e.id \in EventId
      /\ \A i \in 1..Len(e.changes) : e.changes[i].event = e.id /\ SourcedChange(e.changes[i])
      /\ \A u : SourcedMark(u) /\ u.event = e.id =>
            \E i \in 1..Len(e.changes) : u = Mark(e.changes[i])
  BY EventChanges DEF IngestionInv
<1>2. /\ job' = [kind |-> "event", event |-> e, changes |-> e.changes, calls |-> <<>>]
      /\ ledger' = [ledger EXCEPT ![e.id] = "processing"]
      /\ owed' = owed \union {Mark(e.changes[i]) : i \in 1..Len(e.changes)}
  BY DEF StartEvent
<1>3. job'.event = e /\ Queue' = e.changes
  BY <1>2 DEF Queue, Idle
<1>4. \A u : SourcedMark(u) <=> SourcedMark(u)'
  BY DEF SourcedMark
<1>5. \A i \in 1..Len(e.changes) : SourcedMark(Mark(e.changes[i])) /\ Mark(e.changes[i]).event = e.id
  BY <1>1, MarkOfChange
<1>6. \A u \in owed' : SourcedMark(u)
  BY <1>2, <1>5 DEF OwedInv
<1>7. \A id \in EventId : ledger'[id] = "completed" => id # e.id /\ ledger[id] = "completed"
  BY <1>1, <1>2 DEF IngestionInv, LedgerInv
<1>8. \A id \in EventId : ledger'[id] = "completed" => ~\E u \in owed' : u.event = id
  BY <1>2, <1>5, <1>7 DEF OwedInv
<1>9. \A u \in owed' : u.event = e.id => \E i \in 1..Len(Queue') : u = Mark(Queue'[i])
  BY <1>1, <1>3, <1>6
<1> QED BY <1>3, <1>4, <1>6, <1>8, <1>9 DEF OwedInv

\* BeginChange: the change at the head of the queue becomes the one at work.
LEMMA OwedBegin ==
    ASSUME IngestionInv, OwedInv, BeginChange
    PROVE  OwedInv'
<1> PICK change : change = Head(job.changes)
  OBVIOUS
<1>1. /\ UNCHANGED <<wiring, sent, owed>> /\ job.kind # "idle" /\ job.calls = <<>>
  BY DEF BeginChange, world
<1>2. /\ Queue \in Seq(ChangeRecord) /\ Queue # <<>> /\ change = Queue[1]
  BY BegunMark
<1>3. CASE wiring # "checkout" /\ Conflicting(Kind, change)
  <2>1. Fail
    BY <1>3 DEF BeginChange
  <2> QED BY <1>1, <2>1, OwedFail
<1>4. CASE ~(wiring # "checkout" /\ Conflicting(Kind, change))
  <2>1. /\ job'.kind = job.kind /\ Queue' = Tail(Queue)
        /\ job.kind = "event" => job'.event = job.event
        /\ \A c \in Pending' : c.op = "next" => c.change = change
        /\ \E c \in Pending' : c.op = "next"
    BY <1>4, BeginStep DEF IngestionInv
  <2>2. ledger' = ledger
    BY <1>4 DEF BeginChange
  <2>3. /\ Len(Queue) \in Nat \ {0} /\ Len(Tail(Queue)) = Len(Queue) - 1
        /\ \A i \in 1..Len(Tail(Queue)) : Tail(Queue)[i] = Queue[i + 1] /\ i + 1 \in 1..Len(Queue)
    BY <1>2
  <2>4. Pending = {}
    <3>1. Calls = <<>>
      BY <1>1 DEF Calls
    <3> QED BY <3>1 DEF Pending
  <2>5. ASSUME job.kind = "event", NEW u \in owed, u.event = job.event.id, u # Mark(change)
        PROVE  \E i \in 1..Len(Queue') : u = Mark(Queue'[i])
    <3>1. PICK i \in 1..Len(Queue) : u = Mark(Queue[i])
      BY <2>4, <2>5 DEF OwedInv
    <3>2. i # 1
      BY <1>2, <2>5, <3>1
    <3>3. i - 1 \in 1..Len(Tail(Queue)) /\ Tail(Queue)[i - 1] = Queue[(i - 1) + 1]
          /\ (i - 1) + 1 = i
      BY <2>3, <3>1, <3>2
    <3> QED BY <2>1, <3>1, <3>3
  <2>6. \E c \in Pending' : c.op = "next" /\ Mark(change) = Mark(c.change)
    BY <2>1
  <2>7. \A u : SourcedMark(u) <=> SourcedMark(u)'
    BY <1>1 DEF SourcedMark
  <2> QED BY <1>1, <2>1, <2>2, <2>5, <2>6, <2>7 DEF OwedInv
<1> QED BY <1>3, <1>4

\* Call: the change at work stays the one at work.
LEMMA OwedCall ==
    ASSUME IngestionInv, OwedInv, Call
    PROVE  OwedInv'
<1> PICK h : h = Head(job.calls)
  OBVIOUS
<1>1. /\ Queue' = Queue /\ \E c \in Pending' : c.op = "next"
      /\ \A c \in Pending' : c.op = "next" => CallMade(h, c.change)
      /\ job'.kind = job.kind /\ (job.kind = "event" => job'.event = job.event)
  BY CallTaken DEF IngestionInv
<1>2. PICK change : CallMade(h, change)
  BY <1>1
<1>3. UNCHANGED <<wiring, sent, ledger, owed>> /\ h.op # "next"
  BY DEF Call, world, history
<1>4. Pending = {h} \union Pending'
  BY <1>2 DEF CallMade
<1>5. \A c \in Pending : c.op = "next" => c \in Pending'
  BY <1>3, <1>4
<1>6. \A u : SourcedMark(u) <=> SourcedMark(u)'
  BY <1>3 DEF SourcedMark
<1> QED BY <1>1, <1>3, <1>5, <1>6 DEF OwedInv

\* EndChange: what was carried through is owed no longer, and an event with no
\* change left owes nothing.
LEMMA OwedEnd ==
    ASSUME IngestionInv, OwedInv, EndChange
    PROVE  OwedInv'
<1> PICK n : n = Head(job.calls)
  OBVIOUS
<1>1. /\ job.kind # "idle" /\ job.calls # <<>> /\ n.op = "next"
      /\ owed' = owed \ {Mark(n.change)} /\ UNCHANGED <<wiring, sent>>
  BY DEF EndChange, world
<1>2. /\ Pending = {n} /\ job # Idle /\ job \in JobRecord /\ Queue = job.changes
  BY <1>1, LastCall, JobForms DEF IngestionInv, JobInv, StoresInv
<1>3. \A u : SourcedMark(u) <=> SourcedMark(u)'
  BY <1>1 DEF SourcedMark
<1>4. ASSUME job.kind = "event", NEW u \in owed', u.event = job.event.id
      PROVE  \E i \in 1..Len(Queue) : u = Mark(Queue[i])
  BY <1>1, <1>2, <1>4 DEF OwedInv
<1>5. CASE job.changes = <<>>
  <2>1. job'.kind = "idle"
    BY <1>5 DEF EndChange, Complete, Idle
  <2>2. \A id \in EventId : ledger'[id] = "completed" =>
           ledger[id] = "completed" \/ (job.kind = "event" /\ id = job.event.id)
    <3>1. DOMAIN ledger = EventId
      BY DEF IngestionInv, LedgerInv
    <3>2. CASE job.kind = "event"
      BY <1>5, <3>1, <3>2 DEF EndChange, Complete
    <3>3. CASE job.kind # "event"
      BY <1>5, <3>3 DEF EndChange, Complete
    <3> QED BY <3>2, <3>3
  <2>3. Len(Queue) = 0
    BY <1>2, <1>5
  <2>4. \A id \in EventId : ledger'[id] = "completed" => ~\E u \in owed' : u.event = id
    BY <1>1, <1>4, <2>2, <2>3 DEF OwedInv
  <2> QED BY <1>1, <1>3, <2>1, <2>4 DEF OwedInv
<1>6. CASE job.changes # <<>>
  <2>1. job' = [job EXCEPT !.calls = <<>>] /\ ledger' = ledger
    BY <1>6 DEF EndChange
  <2>2. /\ job'.kind = job.kind /\ job'.changes = job.changes
        /\ job.kind = "event" => job'.event = job.event
    BY <1>2, <2>1 DEF JobRecord
  <2>3. Queue' = Queue
    BY <1>1, <1>2, <2>2 DEF Queue, Idle
  <2> QED BY <1>1, <1>3, <1>4, <2>1, <2>2, <2>3 DEF OwedInv
<1> QED BY <1>5, <1>6

\* Every step keeps what is owed.
LEMMA OwedNextInv ==
    ASSUME IngestionInv, OwedInv, NextIngestion
    PROVE  OwedInv'
<1>1. CASE Push \/ ChangeAcl \/ StartCheckout \/ EndCheckout \/ Crash \/ ReconcileEnds
  <2>1. /\ job' = Idle /\ wiring' = wiring /\ sent \subseteq sent' /\ ledger' = ledger
        /\ owed' = owed
    BY <1>1 DEF Push, ChangeAcl, StartCheckout, EndCheckout, Crash, ReconcileEnds, world, tables,
                history
  <2>2. job'.kind # "event"
    BY <2>1 DEF Idle
  <2> QED BY <2>1, <2>2, OwedKept
<1>2. ASSUME NEW d \in Documents, CheckoutFile(d) PROVE OwedInv'
  <2>1. CASE StartEvent(CheckoutEvent(d))
    <3>1. job'.kind = "event" /\ job'.event = CheckoutEvent(d) /\ UNCHANGED <<wiring, sent>>
      BY <1>2, <2>1 DEF CheckoutFile, StartEvent
    <3>2. IngestionInv'
      BY <1>2, CheckoutFileKeeps
    <3>3. KnownEvent(job.event)'
      BY <3>1, <3>2 DEF IngestionInv, LedgerInv
    <3>4. KnownEvent(CheckoutEvent(d))
      BY <3>1, <3>3 DEF KnownEvent, FileEvent
    <3> QED BY <2>1, <3>1, <3>4, OwedStart
  <2>2. CASE ~StartEvent(CheckoutEvent(d))
    BY <1>2, <2>2, OwedStays DEF CheckoutFile
  <2> QED BY <2>1, <2>2
<1>3. ASSUME NEW k \in EvidenceId, Hold(k) PROVE OwedInv'
  BY <1>3, OwedStays DEF Hold, world, tables, history
<1>4. ASSUME NEW e \in sent, DeliverEvent(e) PROVE OwedInv'
  BY <1>4, OwedStart DEF DeliverEvent, KnownEvent, world
<1>5. ASSUME NEW e \in dlq, Replay(e) PROVE OwedInv'
  <2>1. KnownEvent(e)
    BY DEF IngestionInv, EventsInv
  <2> QED BY <1>5, <2>1, OwedStart DEF Replay, world
<1>6. ASSUME NEW e \in sent, ProcessKnowledge(e) PROVE OwedInv'
  <2>1. job'.kind = "knowledge" /\ UNCHANGED <<wiring, sent, ledger, owed>>
    BY <1>6 DEF ProcessKnowledge, world, tables, history
  <2> QED BY <2>1, OwedKept
<1>7. CASE Reconcile
  <2>1. job'.kind = "reconcile" /\ UNCHANGED <<wiring, sent, ledger, owed>>
    BY <1>7 DEF Reconcile, world, tables, history
  <2> QED BY <2>1, OwedKept
<1>8. CASE CallRaises \/ IndexFails
  <2>1. Fail /\ UNCHANGED <<wiring, sent, owed>>
    BY <1>8 DEF CallRaises, IndexFails, world, history
  <2> QED BY <2>1, OwedFail
<1> QED BY <1>1, <1>2, <1>3, <1>4, <1>5, <1>6, <1>7, <1>8, OwedBegin, OwedCall, OwedEnd
        DEF NextIngestion

\* A completed event owes nothing, and the one at work no more than what is ahead
\* of it (ingestion/worker.py:24, ledger.py).
THEOREM OwedInvariant == IngestionSpec => []OwedInv
<1>1. InitIngestion => OwedInv
  BY DEF InitIngestion, OwedInv, Idle
<1>2. IngestionInv /\ OwedInv /\ [NextIngestion]_ingestVars => OwedInv'
  <2> SUFFICES ASSUME IngestionInv, OwedInv, [NextIngestion]_ingestVars PROVE OwedInv'
    OBVIOUS
  <2>1. CASE NextIngestion
    BY <2>1, OwedNextInv
  <2>2. CASE UNCHANGED ingestVars
    BY <2>2, OwedStays DEF ingestVars
  <2> QED BY <2>1, <2>2
<1> QED BY <1>1, <1>2, IngestionInvariant, PTL DEF IngestionSpec

-----------------------------------------------------------------------------
(* What the stores and the ledger say *)

\* What the catalog says of a settled document holds in the index and in
\* Company Brain (IngestionPipeline.apply_changes, ingestion/pipeline.py:36).
THEOREM CatalogStaysTruthful == IngestionSpec => []CatalogIsTruthful
<1>1. IngestionInv => CatalogIsTruthful
  <2> SUFFICES ASSUME IngestionInv, NEW d \in Documents, Settled(d), catalog[d] # Nothing
               PROVE  IF catalog[d].state = "active"
                      THEN /\ index[d] = catalog[d]
                           /\ wiring = "repository" =>
                                LET e == <<d, catalog[d].revision>>
                                IN /\ Active(evidence[e]) /\ evidence[e].acl = catalog[d].acl
                                   /\ \A k \in {OwnEdge(d, e[2]), SharedEdge("file", d)} :
                                         Active(edges[k]) /\ e \in edges[k].support
                      ELSE /\ index[d] = Nothing
                           /\ wiring = "repository" => journal[d].state = "deleted"
    BY DEF CatalogIsTruthful
  <2>1. TypesInv /\ JournalInv /\ CatalogInv
    BY DEF IngestionInv, StoresInv
  <2>2. IF catalog[d].state = "active"
        THEN /\ index[d] = catalog[d]
             /\ wiring = "repository" =>
                   /\ Active(journal[d]) /\ journal[d].revision = catalog[d].revision
                   /\ journal[d].acl = catalog[d].acl
        ELSE /\ index[d] = Nothing
             /\ wiring = "repository" => journal[d].state = "deleted"
    BY <2>1 DEF CatalogInv
  <2>3. ASSUME catalog[d].state = "active", wiring = "repository", NEW e,
               e = <<d, catalog[d].revision>>
        PROVE  /\ Active(evidence[e]) /\ evidence[e].acl = catalog[d].acl
               /\ \A k \in {OwnEdge(d, e[2]), SharedEdge("file", d)} :
                     Active(edges[k]) /\ e \in edges[k].support
    <3>1. /\ Active(journal[d]) /\ journal[d].revision = catalog[d].revision
          /\ journal[d].acl = catalog[d].acl
      BY <2>2, <2>3
    <3>2. Materialized(journal[d])
      BY <2>1, <2>3, <3>1 DEF JournalInv, Settled
    <3>3. journal[d].evidence = e /\ journal[d].edges = EdgesFor(e)
      BY <2>1, <2>3, <3>1, ActiveEntry
    <3>4. EdgesFor(e) = {OwnEdge(d, e[2]), SharedEdge("file", d)}
      BY <2>3 DEF EdgesFor, Kind
    <3> QED BY <3>1, <3>2, <3>3, <3>4 DEF Materialized
  <2> QED BY <2>2, <2>3
<1> QED BY <1>1, IngestionInvariant, PTL

\* Evidence of an earlier revision is active only where a projection was begun
\* and never carried through (_retire_unreferenced, company_brain/memory.py:544).
THEOREM EvidenceStaysCurrent == IngestionSpec => []NoStaleEvidence
<1>1. IngestionInv => NoStaleEvidence
  BY DEF IngestionInv, StoresInv, StaleInv, NoStaleEvidence, Active, Settled
<1> QED BY <1>1, IngestionInvariant, PTL

\* An active edge rests on active evidence between any two calls of the store
\* (CompanyBrain.relate, company_brain/model.py:208).
THEOREM EdgesStayBacked == IngestionSpec => []EdgesAreBacked
<1>1. IngestionInv => EdgesAreBacked
  BY DEF IngestionInv, StoresInv, BackedInv, EdgesAreBacked
<1> QED BY <1>1, IngestionInvariant, PTL

\* An event the ledger calls completed was carried through for every change of
\* every path it names, those never begun included, wherever an attempt at it
\* stopped, and is not among the dead letters (IngestionWorker.handle,
\* ingestion/worker.py:24; ingestion/events.py:14).
THEOREM LedgerStaysTruthful == IngestionSpec => []LedgerIsTruthful
<1>1. IngestionInv /\ OwedInv => LedgerIsTruthful
  BY DEF IngestionInv, LedgerInv, OwedInv, LedgerIsTruthful
<1> QED BY <1>1, IngestionInvariant, OwedInvariant, PTL

=============================================================================
