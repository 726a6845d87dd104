------------------------------ MODULE Ingestion ------------------------------
(***************************************************************************)
(* The ingestion plane: the event ledger and its dead-letter queue         *)
(* (ingestion/ledger.py, worker.py, replay.py), the pipeline that writes   *)
(* the retrieval index, then Company Brain, then the source catalog        *)
(* (pipeline.py, catalog.py, index.py), reconciliation against a complete  *)
(* manifest (reconciliation.py), the checkout runner (runner.py) and the   *)
(* pipeline of knowledge documents (knowledge_pipeline.py).                *)
(*                                                                         *)
(* The pipeline is wired in one of three ways: "repository" (webhook       *)
(* events and reconciliation, with Company Brain), "checkout" (the CI      *)
(* runner, without it), "knowledge" (documents of a connector, without     *)
(* ledger and catalog).  One worker, as the SQLite ledger demands; it may  *)
(* die between any two writes.  Deliveries are lost, repeated, reordered.  *)
(***************************************************************************)
EXTENDS BrainMemory

CONSTANTS
    Wirings,        \* the wirings that are explored
    Contents,       \* what a file may contain
    Acls,           \* access lists a resolver may give
    MaxChanges,     \* bound: changes of one push
    MaxAttempts,    \* bound: events handled
    MaxFaults,      \* bound: deaths of the worker, failures of the index, legal holds
    MaxCheckouts,   \* bound: checkout runs
    MaxReconciles,  \* bound: reconciliations
    MaxAclChanges   \* bound: changes of the access list

VARIABLES
    wiring,
    source,         \* the branch: [Documents -> what it holds, or Nothing]
    head,           \* the last commit
    acl,            \* the access list of the source
    sent,           \* events of the pushes so far
    index, catalog,
    ledger,         \* event id -> status
    dlq,            \* dead letters: the events as they failed
    tree,           \* the working tree of a checkout run
    job,            \* what the worker is doing
    unfinished,     \* history: changes begun and not carried through
    owed,           \* history: changes of events that were started, still to be made
    spent           \* the bounded counters

ingestVars == <<wiring, source, head, acl, sent, index, catalog, ledger, dlq, tree, job,
                unfinished, owed, spent, entities, evidence, edges, journal>>
world == <<wiring, source, head, acl, sent, tree>>
tables == <<index, catalog, ledger, dlq>>
history == <<unfinished, owed>>

Idle == [kind |-> "idle"]
\* A push is known by its commit; a file of a checkout has no such event.
EventId == {<<r>> : r \in Revisions} \union (Documents \X Contents \X Acls)

ASSUME WiringsAreKnown == Wirings \subseteq {"repository", "checkout", "knowledge"}

\* Some access list exists, the changes of a push are counted, and Nothing is
\* neither an event, nor evidence, nor a stored record.
ASSUME SomeAcl == Acls # {}
ASSUME ChangesAreCounted == MaxChanges \in Nat
ASSUME NothingIsNoId == Nothing \notin EventId /\ Nothing \notin EvidenceId
ASSUME NothingIsNoRecord ==
    /\ Nothing \notin [state : {"active", "deleted"}, held : BOOLEAN, acl : Acls]
    /\ Nothing \notin [state : {"active", "deleted"}, held : BOOLEAN, support : SUBSET EvidenceId]
    /\ Nothing \notin [state : {"active", "deleted"}, doc : Documents, revision : Revisions,
                        acl : Acls, event : EventId \union {Nothing}, entity : EntityKey,
                        evidence : EvidenceId, edges : SUBSET EdgeKey]

\* events.py grants the repository's read group whatever the resolver says.
RepositoryAcl == CHOOSE a \in Acls : TRUE

InitIngestion ==
    /\ wiring \in Wirings
    /\ source = [d \in Documents |-> Nothing]
    /\ head = 0 /\ acl = RepositoryAcl
    /\ sent = {} /\ tree = Nothing
    /\ index = [d \in Documents |-> Nothing]
    /\ catalog = [d \in Documents |-> Nothing]
    /\ ledger = [e \in EventId |-> "absent"]
    /\ dlq = {} /\ job = Idle
    /\ unfinished = {} /\ owed = {}
    /\ spent = [attempts |-> 0, faults |-> 0, checkouts |-> 0,
                reconciles |-> 0, acls |-> 0]
    /\ InitMemory

Spend(counter, bound) ==
    spent[counter] < bound /\ spent' = [spent EXCEPT ![counter] = @ + 1]

-----------------------------------------------------------------------------
(* The source *)

Change(type, d, content, revision, access, event) ==
    [type |-> type, doc |-> d, content |-> content, revision |-> revision,
     acl |-> access, event |-> event]

\* What a push of the files in `new' says of document d, its state loaded at the
\* last commit. github_push_event: its last change; azure_devops_push_event: one
\* for each commit that names it, of which the model has two at most.
EntriesOf(new, d, revision) ==
    LET upsert == Change("upsert", d, new[d], revision, RepositoryAcl, <<revision>>)
        delete == Change("delete", d, Nothing, revision, RepositoryAcl, <<revision>>)
    IN CASE new[d] = Nothing -> {<<delete>>}
         [] new[d] # Nothing /\ source[d] = Nothing -> {<<upsert>>}
         [] OTHER -> {<<upsert>>, <<delete, upsert>>}

Touched(new) == {d \in Documents : new[d] # source[d]}

\* The changes of a push, one event for all its paths: sorted by path, or in the
\* order of its commits.
Pushed(new, revision) ==
    LET said(d) == UNION {Range(s) : s \in EntriesOf(new, d, revision)}
        entries == UNION {said(d) : d \in Touched(new)}
    IN {s \in UNION {[1..n -> entries] : n \in 1..MaxChanges} :
           \A d \in Touched(new) :
               SelectSeq(s, LAMBDA c : c.doc = d) \in EntriesOf(new, d, revision)}

\* The source moves between jobs: a job reads it when it starts and never again.
Push ==
    /\ job = Idle /\ head + 1 \in Revisions
    /\ head' = head + 1
    /\ \E new \in [Documents -> Contents \union {Nothing}] \ {source} :
          /\ source' = new
          /\ \E changes \in Pushed(new, head + 1) :
                sent' = sent \union {[id |-> <<head + 1>>, changes |-> changes]}
    /\ UNCHANGED <<wiring, acl, tables, tree, job, history, spent, memory>>

ChangeAcl ==
    /\ wiring # "knowledge" /\ job = Idle /\ Spend("acls", MaxAclChanges)
    /\ \E a \in Acls \ {acl} : acl' = a
    /\ UNCHANGED <<wiring, source, head, sent, tables, tree, job, history, memory>>

Hold(k) ==
    /\ Spend("faults", MaxFaults) /\ PlaceHold(k)
    /\ UNCHANGED <<world, tables, job, history>>

-----------------------------------------------------------------------------
(* The ledger and the worker *)

\* A change of an event is known by the event, one of a reconciliation by what
\* the manifest said.
Mark(change) ==
    [type |-> change.type, doc |-> change.doc, event |-> change.event,
     revision |-> IF change.event = Nothing THEN change.revision ELSE 0,
     acl |-> IF change.event = Nothing THEN change.acl ELSE Nothing]

\* IngestionWorker.handle: an event that is completed is a duplicate.
StartEvent(e) ==
    /\ ledger[e.id] # "completed"
    /\ ledger' = [ledger EXCEPT ![e.id] = "processing"]
    /\ job' = [kind |-> "event", event |-> e, changes |-> e.changes, calls |-> <<>>]
    /\ owed' = owed \union {Mark(e.changes[i]) : i \in 1..Len(e.changes)}

\* A webhook delivery, the first or a repeated one.
DeliverEvent(e) ==
    /\ wiring = "repository" /\ job = Idle
    /\ Spend("attempts", MaxAttempts) /\ StartEvent(e)
    /\ UNCHANGED <<world, index, catalog, dlq, unfinished, memory>>

\* DLQReplayer.replay_all takes the events back from their payloads.
Replay(e) ==
    /\ job = Idle /\ tree = Nothing
    /\ Spend("attempts", MaxAttempts) /\ StartEvent(e)
    /\ UNCHANGED <<world, index, catalog, dlq, unfinished, memory>>

\* ledger.fail; a reconciliation and a knowledge change have no ledger entry.
Fail ==
    /\ job' = Idle
    /\ IF job.kind = "event"
       THEN /\ ledger' = [ledger EXCEPT ![job.event.id] = "failed"]
            /\ dlq' = {x \in dlq : x.id # job.event.id} \union {job.event}
       ELSE UNCHANGED <<ledger, dlq>>

\* ledger.complete
Complete ==
    /\ job' = Idle
    /\ IF job.kind = "event"
       THEN /\ ledger' = [ledger EXCEPT ![job.event.id] = "completed"]
            /\ dlq' = {x \in dlq : x.id # job.event.id}
       ELSE UNCHANGED <<ledger, dlq>>

-----------------------------------------------------------------------------
(* The pipeline *)

Kind == IF wiring = "knowledge" THEN "knowledge" ELSE "file"

\* The pair a document's revision is indexed and catalogued under.
Stored(change) ==
    [state |-> IF change.type = "delete" THEN "deleted" ELSE "active",
     content |-> change.content, revision |-> change.revision, acl |-> change.acl]

Indexed(change) == IF change.type = "delete" THEN Nothing ELSE Stored(change)

\* KnowledgePipeline.process: a revision that is indexed is not indexed again.
AlreadyIndexed(change) ==
    /\ wiring = "knowledge" /\ change.type = "upsert"
    /\ index[change.doc] # Nothing
    /\ index[change.doc].revision = change.revision

CatalogCall(change) == [op |-> "catalog", key |-> change.doc, change |-> change]

\* After the index: the projection, and last the catalog.
LaterCalls(change) ==
    (IF wiring = "checkout" THEN <<>> ELSE ProjectionCalls(Kind, change))
        \o (IF wiring = "knowledge" THEN <<>> ELSE <<CatalogCall(change)>>)

\* The next change of the job: the index is written, the journal read.
BeginChange ==
    /\ job.kind # "idle" /\ job.calls = <<>> /\ job.changes # <<>>
    /\ LET change == Head(job.changes)
       IN /\ index' = IF AlreadyIndexed(change) THEN index
                      ELSE [index EXCEPT ![change.doc] = Indexed(change)]
          /\ unfinished' = unfinished \union {Mark(change)}
          /\ IF wiring # "checkout" /\ Conflicting(Kind, change)
             THEN Fail
             ELSE /\ job' = [job EXCEPT !.calls = LaterCalls(change)
                                           \o <<[op |-> "next", change |-> change]>>,
                                        !.changes = Tail(@)]
                  /\ UNCHANGED <<ledger, dlq>>
    /\ UNCHANGED <<world, catalog, owed, spent, memory>>

\* A call of the store or of the catalog that returns.
Call ==
    /\ job.kind # "idle" /\ job.calls # <<>>
    /\ Head(job.calls).op # "next" /\ Returns(Head(job.calls))
    /\ Write(Head(job.calls))
    /\ catalog' = IF Head(job.calls).op = "catalog"
                  THEN [catalog EXCEPT ![Head(job.calls).key] = Stored(Head(job.calls).change)]
                  ELSE catalog
    /\ job' = [job EXCEPT !.calls = Tail(@)]
    /\ UNCHANGED <<world, index, ledger, dlq, history, spent>>

\* A call of the store that raises: the event fails, a reconciliation ends.
CallRaises ==
    /\ job.kind # "idle" /\ job.calls # <<>>
    /\ Head(job.calls).op # "next" /\ ~Returns(Head(job.calls))
    /\ Fail
    /\ UNCHANGED <<world, index, catalog, history, spent, memory>>

\* Mutant: the event is completed with its first change.
EndChangeCompleting ==
    /\ job.kind # "idle" /\ job.calls # <<>> /\ Head(job.calls).op = "next"
    /\ LET change == Head(job.calls).change
       IN /\ unfinished' = unfinished \ {Mark(change)}
          /\ owed' = owed \ {Mark(change)}
    /\ Complete
    /\ UNCHANGED <<world, index, catalog, spent, memory>>

\* The change is carried through; after the last one the event is completed.
EndChange ==
    /\ job.kind # "idle" /\ job.calls # <<>> /\ Head(job.calls).op = "next"
    /\ LET change == Head(job.calls).change
       IN /\ unfinished' = unfinished \ {Mark(change)}
          /\ owed' = owed \ {Mark(change)}
    /\ IF job.changes = <<>> THEN Complete
       ELSE job' = [job EXCEPT !.calls = <<>>] /\ UNCHANGED <<ledger, dlq>>
    /\ UNCHANGED <<world, index, catalog, spent, memory>>

\* The index is unavailable before anything is written.
IndexFails ==
    /\ job.kind # "idle" /\ job.calls = <<>> /\ job.changes # <<>>
    /\ Spend("faults", MaxFaults) /\ Fail
    /\ UNCHANGED <<world, index, catalog, history, memory>>

\* The process dies; the ledger keeps saying "processing".
Crash ==
    /\ job.kind # "idle" /\ Spend("faults", MaxFaults)
    /\ job' = Idle /\ tree' = Nothing
    /\ UNCHANGED <<wiring, source, head, acl, sent, tables, history, memory>>

-----------------------------------------------------------------------------
(* Reconciliation, checkout runs, knowledge documents *)

\* The complete manifest of the branch, with the access list of the resolver.
Manifest(d) == Change("upsert", d, source[d], head, acl, Nothing)

\* needs_upsert, or the index lost the document.
NeedsUpsert(d) ==
    \/ catalog[d] # Stored(Manifest(d))
    \/ index[d] = Nothing

Reconcile ==
    /\ wiring = "repository" /\ job = Idle /\ head > 0
    /\ Spend("reconciles", MaxReconciles)
    /\ LET present == {d \in Documents : source[d] # Nothing}
           upserts == {Manifest(d) : d \in {d \in present : NeedsUpsert(d)}}
           deletes == {Change("delete", d, Nothing, catalog[d].revision, Nothing, Nothing) :
                          d \in {d \in Documents \ present :
                                    catalog[d] # Nothing /\ catalog[d].state = "active"}}
       IN job' = [kind |-> "reconcile", changes |-> SetToSeq(upserts) \o SetToSeq(deletes),
                  calls |-> <<>>]
    /\ UNCHANGED <<world, tables, history, memory>>

\* A reconciliation with nothing left to do.
ReconcileEnds ==
    /\ job.kind = "reconcile" /\ job.changes = <<>> /\ job.calls = <<>>
    /\ job' = Idle
    /\ UNCHANGED <<world, tables, history, spent, memory>>

\* ingest_checkout walks the files of a working tree.
StartCheckout ==
    /\ wiring = "checkout" /\ job = Idle /\ tree = Nothing
    /\ Spend("checkouts", MaxCheckouts)
    /\ tree' = [files |-> source, commit |-> head, acl |-> acl,
                left |-> {d \in Documents : source[d] # Nothing}]
    /\ UNCHANGED <<wiring, source, head, acl, sent, tables, job, history, memory>>

\* _event_id: path, content and access, without the commit.
CheckoutEvent(d) ==
    LET id == <<d, tree.files[d], tree.acl>>
    IN [id |-> id, changes |-> <<Change("upsert", d, tree.files[d], tree.commit, tree.acl, id)>>]

\* One file: a duplicate is counted, a failure does not end the walk.
CheckoutFile(d) ==
    /\ job = Idle /\ tree # Nothing /\ d \in tree.left
    /\ tree' = [tree EXCEPT !.left = @ \ {d}]
    /\ \/ StartEvent(CheckoutEvent(d))
       \/ ledger[CheckoutEvent(d).id] = "completed" /\ UNCHANGED <<ledger, job, owed>>
    /\ UNCHANGED <<wiring, source, head, acl, sent, index, catalog, dlq, unfinished,
                   spent, memory>>

EndCheckout ==
    /\ job = Idle /\ tree # Nothing /\ tree.left = {}
    /\ tree' = Nothing
    /\ UNCHANGED <<wiring, source, head, acl, sent, tables, job, history, spent, memory>>

\* A connector hands over what a push made of a document, in any order, again or
\* never.
ProcessKnowledge(e) ==
    /\ wiring = "knowledge" /\ job = Idle
    /\ Spend("attempts", MaxAttempts)
    /\ \E i \in 1..Len(e.changes) :
          /\ \A j \in (i + 1)..Len(e.changes) : e.changes[j].doc # e.changes[i].doc
          /\ job' = [kind |-> "knowledge", changes |-> <<e.changes[i]>>, calls |-> <<>>]
    /\ UNCHANGED <<world, tables, history, memory>>

-----------------------------------------------------------------------------

NextIngestion ==
    \/ Push \/ ChangeAcl
    \/ \E d \in Documents : CheckoutFile(d)
    \/ \E k \in EvidenceId : Hold(k)
    \/ \E e \in sent : DeliverEvent(e) \/ ProcessKnowledge(e)
    \/ \E e \in dlq : Replay(e)
    \/ BeginChange \/ Call \/ CallRaises \/ EndChange
    \/ IndexFails \/ Crash
    \/ Reconcile \/ ReconcileEnds \/ StartCheckout \/ EndCheckout

IngestionSpec == InitIngestion /\ [][NextIngestion]_ingestVars

-----------------------------------------------------------------------------
(* Properties *)

\* No change of the document was begun and not carried through.
Settled(d) == ~\E u \in unfinished : u.doc = d

\* What the catalog says of a settled document holds in the index and in Company
\* Brain: the catalog is written last (IngestionPipeline.apply_changes,
\* ingestion/pipeline.py:36), and no change of another document that shares an
\* edge takes this one's evidence out of it (_relationship_memberships,
\* company_brain/memory.py:597).
CatalogIsTruthful ==
    \A d \in Documents : Settled(d) /\ catalog[d] # Nothing =>
        IF catalog[d].state = "active"
        THEN /\ index[d] = catalog[d]
             /\ wiring = "repository" =>
                   LET e == <<d, catalog[d].revision>>
                   IN /\ Active(evidence[e]) /\ evidence[e].acl = catalog[d].acl
                      /\ \A k \in {OwnEdge(d, e[2]), SharedEdge("file", d)} :
                            Active(edges[k]) /\ e \in edges[k].support
        ELSE /\ index[d] = Nothing
             /\ wiring = "repository" => journal[d].state = "deleted"

\* Evidence of an earlier revision, with its old access list, is active only
\* where a projection was begun and never carried through
\* (_retire_unreferenced, company_brain/memory.py:544).
NoStaleEvidence ==
    \A k \in EvidenceId : Active(evidence[k]) =>
        \/ journal[k[1]] # Nothing /\ journal[k[1]].state = "active" /\ journal[k[1]].evidence = k
        \/ ~Settled(k[1])

\* An active edge rests on active evidence whenever the worker may die: a
\* snapshot of the whole tenant raises on one that does not
\* (CompanyBrain.relate, company_brain/model.py:208).
EdgesAreBacked ==
    \A k \in EdgeKey : Active(edges[k]) =>
        /\ edges[k].support # {}
        /\ \A e \in edges[k].support : Active(evidence[e])

\* An event the ledger calls completed was carried through for every change of
\* every path it names, those never begun included, though an attempt may stop
\* between two of them and be repeated, and is not among the dead letters
\* (IngestionWorker.handle, ingestion/worker.py:24).
LedgerIsTruthful ==
    \A id \in EventId : ledger[id] = "completed" =>
        /\ ~\E u \in unfinished \union owed : u.event = id
        /\ ~\E x \in dlq : x.id = id

\* "a later commit re-ingests only the files whose content actually changed"
\* (ingestion/runner.py:17): once the walk of a checkout has ended, a file of it
\* whose event the ledger calls completed is in the index as it is in the tree.
CheckoutIsCurrent ==
    job = Idle /\ tree # Nothing /\ tree.left = {} =>
        \A d \in Documents :
            tree.files[d] # Nothing /\ ledger[<<d, tree.files[d], tree.acl>>] = "completed" =>
                index[d] # Nothing /\ index[d].content = tree.files[d]

\* "Source-manifest reconciliation for repairing webhook and index drift"
\* (ingestion/reconciliation.py:1): a reconciliation that runs to its end leaves
\* the index at the source it was given.
ReconcileConverges ==
    [][(/\ job.kind = "reconcile" /\ job.changes = <<>> /\ job' = Idle
        /\ job.calls = <<>> \/ Head(job.calls).op = "next"
        /\ spent' = spent) =>
          \A d \in Documents :
              IF source[d] = Nothing THEN index'[d] = Nothing
              ELSE index'[d] # Nothing /\ index'[d].content = source[d]]_ingestVars
=============================================================================
