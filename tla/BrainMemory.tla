----------------------------- MODULE BrainMemory -----------------------------
(***************************************************************************)
(* Company Brain memory: the durable store of entities, evidence and       *)
(* relationships with tombstones and legal holds (company_brain/store.py), *)
(* the journal of what each source contributes, and the projector that     *)
(* turns a governed source change into a sequence of store calls           *)
(* (company_brain/memory.py, projector.py, model.py).                      *)
(*                                                                         *)
(* One tenant.  A call is one transaction of the store.  Entities shared   *)
(* between sources (repository, service, owner) are never retired and are  *)
(* left out; the relationships of a source that live and die together are  *)
(* one edge.  The version of a record counts its writes and its lifecycle  *)
(* events follow from the record (created, updated, at last tombstoned).   *)
(***************************************************************************)
EXTENDS Naturals, Sequences, FiniteSets, SequencesExt

CONSTANTS
    Documents,      \* the sources: files of a branch, or knowledge documents
    Revisions,      \* commits, or revisions of a document
    Nothing

\* A branch has finitely many files, and its commits are numbered from 1.
ASSUME SourcesAreFinite == IsFiniteSet(Documents)
ASSUME RevisionsAreNumbered == Revisions \subseteq Nat \ {0}

VARIABLES
    entities,       \* source-owned facts
    evidence,       \* evidence pointers, each with its structural entity
    edges,          \* relationships
    journal         \* the source projections

memory == <<entities, evidence, edges, journal>>

EvidenceId == Documents \X Revisions

\* CompanyBrainProjector.project_file_change and project_knowledge_document:
\* a change entity belongs to one commit, a document's artifact to all its
\* revisions; and the edges: those of the revision, and those a later revision
\* or another source also supports.
OwnedEntity(kind, d, r) ==
    IF kind = "file" THEN [kind |-> kind, doc |-> d, revision |-> r]
                     ELSE [kind |-> kind, doc |-> d, revision |-> 0]

OwnEdge(d, r) == [kind |-> "has_evidence", doc |-> d, revision |-> r]
SharedEdge(kind, d) ==
    IF kind = "file" THEN [kind |-> "belongs_to", doc |-> Nothing, revision |-> 0]
                     ELSE [kind |-> "governed_by", doc |-> d, revision |-> 0]

EntityKey == {OwnedEntity(k, d, r) : k \in {"file", "knowledge"}, d \in Documents, r \in Revisions}
EdgeKey == {OwnEdge(d, r) : d \in Documents, r \in Revisions}
              \union {SharedEdge(k, d) : k \in {"file", "knowledge"}, d \in Documents}

\* BrainSourceProjection
ActiveProjection(kind, change) ==
    [state |-> "active", doc |-> change.doc, revision |-> change.revision, acl |-> change.acl,
     event |-> change.event,
     entity |-> OwnedEntity(kind, change.doc, change.revision),
     evidence |-> <<change.doc, change.revision>>,
     edges |-> {OwnEdge(change.doc, change.revision), SharedEdge(kind, change.doc)}]

\* The tombstone of _delete keeps the memberships of what it replaces.
DeletedProjection(previous, change) ==
    [previous EXCEPT !.state = "deleted", !.event = change.event]

\* A deletion of a source that was never projected.
EmptyTombstone(change) ==
    [state |-> "deleted", doc |-> change.doc, revision |-> change.revision, acl |-> Nothing,
     event |-> change.event, entity |-> Nothing, evidence |-> Nothing, edges |-> {}]

InitStore ==
    /\ entities = [k \in EntityKey |-> Nothing]
    /\ evidence = [k \in EvidenceId |-> Nothing]
    /\ edges = [k \in EdgeKey |-> Nothing]

InitJournal == journal = [d \in Documents |-> Nothing]

InitMemory == InitStore /\ InitJournal

-----------------------------------------------------------------------------
(* The store: what a call refuses and what it writes *)

Active(record) == record # Nothing /\ record.state = "active"

\* _assert_mutable, for an update that asks for no hold.
Mutable(record) == record # Nothing => record.state = "active" /\ ~record.held

Tombstone(record) == [record EXCEPT !.state = "deleted"]

\* put_relationship: endpoints and evidence must be active.
Backed(key, support) ==
    /\ \A e \in support : Active(evidence[e])
    /\ key.kind = "has_evidence" => Active(evidence[<<key.doc, key.revision>>])

\* _put_entity_if_changed, _put_evidence_if_changed, the loop of
\* _reconcile_relationships and those of _retire_unreferenced: whether a call
\* returns.  A call with nothing to do returns.
Returns(call) ==
    CASE call.op = "put-entity" -> Active(entities[call.key]) \/ Mutable(entities[call.key])
      [] call.op = "put-evidence" ->
            \/ Active(evidence[call.key]) /\ evidence[call.key].acl = call.acl
            \/ Mutable(evidence[call.key])
      [] call.op = "edge" ->
            \/ call.support = {}
            \/ Active(edges[call.key]) /\ edges[call.key].support = call.support
            \/ Backed(call.key, call.support) /\ Mutable(edges[call.key])
      [] call.op = "retire-evidence" ->
            Active(evidence[call.key]) => ~evidence[call.key].held
      [] OTHER -> TRUE

Record == [state |-> "active", held |-> FALSE]

\* put_entity and delete_entity
WriteEntity(call) ==
    entities' =
        CASE call.op = "put-entity" -> [entities EXCEPT ![call.key] = Record]
          [] call.op = "retire-entity" /\ Active(entities[call.key]) ->
                [entities EXCEPT ![call.key] = Tombstone(@)]
          [] OTHER -> entities

\* put_evidence, which keeps a hold, and delete_evidence
WriteEvidence(call) ==
    evidence' =
        CASE call.op = "put-evidence" /\ ~Active(evidence[call.key]) ->
                [evidence EXCEPT ![call.key] =
                    [state |-> "active", held |-> FALSE, acl |-> call.acl]]
          [] call.op = "put-evidence" /\ Active(evidence[call.key]) ->
                [evidence EXCEPT ![call.key].acl = call.acl]
          [] call.op = "retire-evidence" /\ Active(evidence[call.key]) ->
                [evidence EXCEPT ![call.key] = Tombstone(@)]
          [] OTHER -> evidence

\* put_relationship and delete_relationship
WriteRelationship(call) ==
    edges' =
        CASE call.op = "edge" /\ call.support # {} ->
                [edges EXCEPT ![call.key] =
                    [state |-> "active", held |-> FALSE, support |-> call.support]]
          [] call.op = "edge" /\ call.support = {} /\ Active(edges[call.key]) ->
                [edges EXCEPT ![call.key] = Tombstone(@)]
          [] OTHER -> edges

\* SqliteBrainProjectionJournal.put
WriteJournal(call) ==
    journal' = IF call.op = "journal"
               THEN [journal EXCEPT ![call.key] = call.projection]
               ELSE journal

\* The transaction of a call that returns.
Write(call) ==
    /\ WriteEntity(call)
    /\ WriteEvidence(call)
    /\ WriteRelationship(call)
    /\ WriteJournal(call)

\* put_evidence with a retention policy: a legal hold is placed on evidence.
PlaceHold(k) ==
    /\ Active(evidence[k]) /\ ~evidence[k].held
    /\ evidence' = [evidence EXCEPT ![k].held = TRUE]
    /\ UNCHANGED <<entities, edges, journal>>

-----------------------------------------------------------------------------
(* The projector: the calls a change makes, in order *)

\* SqliteBrainProjectionJournal.active
ActiveProjections == {journal[o] : o \in {o \in Documents : Active(journal[o])}}

\* Mutant: the other sources are not read.
OthersForgotten(d) == {}

\* _active_candidates, without the source itself.
Others(d) == {p \in ActiveProjections : p.doc # d}

\* _knowledge_fingerprint and the provenance of a file: a revision under its ACL.
SameContent(p, change) == <<p.revision, p.acl>> = <<change.revision, change.acl>>

\* _relationship_memberships
Support(candidates, key) == {p.evidence : p \in {p \in candidates : key \in p.edges}}

\* _reconcile_relationships over the affected edges.
EdgeCalls(affected, candidates) ==
    LET keys == SetToSeq(affected)
    IN [i \in 1..Len(keys) |->
           [op |-> "edge", key |-> keys[i], support |-> Support(candidates, keys[i])]]

\* Mutant: only the entity is retired.
RetireCallsEntityOnly(previous, candidates) ==
    IF \/ previous = Nothing \/ previous.evidence = Nothing
       \/ previous.entity \in {p.entity : p \in candidates} THEN <<>>
    ELSE <<[op |-> "retire-entity", key |-> previous.entity]>>

\* _retire_unreferenced
RetireCalls(previous, candidates) ==
    IF previous = Nothing \/ previous.evidence = Nothing THEN <<>>
    ELSE (IF previous.evidence \in {p.evidence : p \in candidates} THEN <<>>
          ELSE <<[op |-> "retire-evidence", key |-> previous.evidence]>>)
         \o
         (IF previous.entity \in {p.entity : p \in candidates} THEN <<>>
          ELSE <<[op |-> "retire-entity", key |-> previous.entity]>>)

EdgesOf(p) == IF p = Nothing THEN {} ELSE p.edges

\* Mutant: evidence is retired before the edges that rest on it are.
SupersedeEvidenceFirst(previous, added, candidates) ==
    RetireCalls(previous, candidates) \o EdgeCalls(EdgesOf(previous) \union added, candidates)

\* The end of _materialize and of _delete: first the relationships, then what
\* no source refers to.
Supersede(previous, added, candidates) ==
    EdgeCalls(EdgesOf(previous) \union added, candidates) \o RetireCalls(previous, candidates)

\* _assert_not_conflicting_replay
Conflicting(kind, change) ==
    LET previous == journal[change.doc]
    IN /\ previous # Nothing /\ change.event # Nothing
       /\ previous.event = change.event
       /\ IF change.type = "delete"
          THEN previous.state # "deleted"
          ELSE previous.state # "active" \/ ~SameContent(previous, change)

\* _upsert_file and _upsert_knowledge over _materialize, and _delete.
ProjectionCalls(kind, change) ==
    LET d == change.doc
        previous == journal[d]
        projection == ActiveProjection(kind, change)
        candidates == Others(d) \union {projection}
        Journal(p) == <<[op |-> "journal", key |-> d, projection |-> p]>>
    IN CASE change.type = "delete" /\ previous = Nothing -> Journal(EmptyTombstone(change))
         [] change.type = "delete" /\ previous # Nothing ->
               IF previous.state = "deleted" THEN <<>>
               ELSE Supersede(previous, {}, Others(d))
                    \o Journal(DeletedProjection(previous, change))
         [] change.type = "upsert" ->
               IF Active(previous) /\ SameContent(previous, change) THEN <<>>
               ELSE <<[op |-> "put-entity", key |-> projection.entity],
                      [op |-> "put-evidence", key |-> projection.evidence, acl |-> change.acl]>>
                    \o Supersede(previous, projection.edges, candidates)
                    \o Journal(projection)
=============================================================================
