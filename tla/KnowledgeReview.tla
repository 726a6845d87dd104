---------------------------- MODULE KnowledgeReview ----------------------------
(***************************************************************************)
(* From a read of Company Brain to a governed correction: a projector      *)
(* writes facts row by row while a product reads them with three separate  *)
(* list calls; the read becomes a bounded packet, a signed receipt         *)
(* (company_brain/evidence_receipts.py) and, inside the receipt's          *)
(* lifetime, a correction proposal and its reviews (corrections.py).       *)
(*                                                                         *)
(* One tenant, one product scope, one reading principal.  A digest or a    *)
(* content-derived id is the record it is computed from, so a signature    *)
(* verifies and a bound field matches exactly when the record is the       *)
(* retained one.  A call that raises changes nothing and is no step.       *)
(***************************************************************************)
EXTENDS WorldModel

CONSTANTS
    Sources,        \* sources of facts
    Claims,         \* what a source asserts: source -> set of edges
    Principal,      \* the identities of the reading principal
    Acls,           \* the ACLs evidence is written with
    Requests,       \* the sets of changed services a product asks about
    Reviewers,
    Ttls,           \* lifetimes asked of issue()
    TickSteps,      \* how far time may move at once
    MaxTicks, MaxWrites, MaxReads, MaxReceipts, MaxReviews    \* bounds

\* MAX_EVIDENCE_READ_RECEIPT_TTL, in minutes.
MaximumTtl == 15

ASSUME TtlsAreAllowed == \A t \in Ttls : 0 < t /\ t <= MaximumTtl

ASSUME ClaimsAreEdges == \A d \in Sources : Claims[d] \subseteq Range(EdgeOrder)

ASSUME TimeMovesForward == TickSteps \subseteq Nat

VARIABLES
    now, ticks,
    entities, evidence, edges,  \* the active rows of the store
    buried,                     \* tombstoned edges
    live,                       \* the journal: the revision each source is at
    revision,                   \* the last revision of each source
    writes,
    script,                     \* the calls the projector has left
    reader,                     \* the query under way, or the last one
    reads,
    receipts, corrections, reviews

store == <<entities, evidence, edges, buried, live, revision, writes, script>>
review == <<receipts, corrections, reviews>>

Idle == [step |-> "idle"]
Unreadable == [changed |-> {}]      \* snapshot() raised

InitReview ==
    /\ now = 0 /\ ticks = 0
    /\ entities = {Repo} /\ evidence = <<>> /\ edges = <<>> /\ buried = {}
    /\ live = [d \in Sources |-> 0] /\ revision = [d \in Sources |-> 0]
    /\ writes = 0 /\ script = <<>>
    /\ reader = Idle /\ reads = 0
    /\ receipts = {} /\ corrections = <<>> /\ reviews = {}

\* Bounded: time does not pass between two calls of one projection.
Tick(d) ==
    /\ ticks < MaxTicks /\ script = <<>>
    /\ now' = now + d /\ ticks' = ticks + 1

-----------------------------------------------------------------------------
(* The projector *)

Put(f, k, v) == [x \in DOMAIN f \union {k} |-> IF x = k THEN v ELSE f[x]]
Drop(f, k) == [x \in DOMAIN f \ {k} |-> f[x]]

EndpointsOf(d) == UNION {{k.from, k.to} : k \in Claims[d]}

\* CompanyBrainMemoryProjector, _reconcile_relationships: an edge rests on the
\* evidence of every active source that asserts it.
SupportOf(at, k) == {<<o, at[o]>> : o \in {o \in Sources : at[o] # 0 /\ k \in Claims[o]}}

EdgeCallsOf(d, at) ==
    LET keys == SetToSeq(Claims[d])
    IN [i \in 1..Len(keys) |-> [op |-> "edge", key |-> keys[i], support |-> SupportOf(at, keys[i])]]

RetireOf(d) ==
    IF live[d] = 0 THEN <<>> ELSE <<[op |-> "retire", key |-> <<d, live[d]>>]>>

\* An upsert of a new revision: entities, evidence, relationships, then what
\* it replaces, then the journal.
Upsert(d, acl) ==
    LET r == revision[d] + 1
        at == [live EXCEPT ![d] = r]
        fresh == SetToSeq(EndpointsOf(d) \ entities)
    IN /\ script = <<>> /\ writes < MaxWrites /\ writes' = writes + 1
       /\ revision' = [revision EXCEPT ![d] = r]
       /\ script' = [i \in 1..Len(fresh) |-> [op |-> "entity", key |-> fresh[i]]]
                    \o <<[op |-> "evidence", key |-> <<d, r>>, acl |-> acl]>>
                    \o EdgeCallsOf(d, at) \o RetireOf(d)
                    \o <<[op |-> "journal", key |-> d, revision |-> r]>>
       /\ UNCHANGED <<entities, evidence, edges, buried, live>>

\* A deletion.
Retract(d) ==
    /\ script = <<>> /\ live[d] # 0 /\ writes < MaxWrites /\ writes' = writes + 1
    /\ script' = EdgeCallsOf(d, [live EXCEPT ![d] = 0]) \o RetireOf(d)
                 \o <<[op |-> "journal", key |-> d, revision |-> 0]>>
    /\ UNCHANGED <<entities, evidence, edges, buried, live, revision>>

\* One call, one transaction.  Writing a tombstoned edge raises, and the
\* projection ends where it is.
ProjectorCall ==
    LET c == Head(script)
        raises == c.op = "edge" /\ c.support # {} /\ c.key \in buried
    IN /\ script # <<>>
       /\ script' = IF raises THEN <<>> ELSE Tail(script)
       /\ entities' = IF c.op = "entity" THEN entities \union {c.key} ELSE entities
       /\ evidence' = CASE c.op = "evidence" -> Put(evidence, c.key, [at |-> now, acl |-> c.acl])
                        [] c.op = "retire" -> Drop(evidence, c.key)
                        [] OTHER -> evidence
       /\ edges' = CASE c.op = "edge" /\ c.support # {} /\ ~raises -> Put(edges, c.key, c.support)
                     [] c.op = "edge" /\ c.support = {} -> Drop(edges, c.key)
                     [] OTHER -> edges
       /\ buried' = IF c.op = "edge" /\ c.support = {} /\ c.key \in DOMAIN edges
                    THEN buried \union {c.key} ELSE buried
       /\ live' = IF c.op = "journal" THEN [live EXCEPT ![c.key] = c.revision] ELSE live
       /\ UNCHANGED <<revision, writes>>

-----------------------------------------------------------------------------
(* context_for_change: the time, then three list calls, each its own read *)

\* A query raises while its repository is unknown; it is always known here.
ListEntities(requested) ==
    /\ reader.step \in {"idle", "done"} /\ reads < MaxReads
    /\ reader' = [step |-> "entities", requested |-> requested, when |-> now,
                  entities |-> entities, began |-> DOMAIN edges]
    /\ reads' = reads + 1

ListEvidence ==
    /\ reader.step = "entities"
    /\ reader' = [step |-> "evidence", requested |-> reader.requested, when |-> reader.when,
                  entities |-> reader.entities, began |-> reader.began, evidence |-> evidence]
    /\ UNCHANGED reads

\* The last list call and the rest of the query: the context, its decision
\* context and its packet.
ListRelationships ==
    /\ reader.step = "evidence"
    /\ LET view == [entities |-> reader.entities, evidence |-> reader.evidence, edges |-> edges]
           context == WorldModelContext(view, reader.requested, Principal, reader.when)
           dc == DecisionContext(context)
       IN reader' = [step |-> "done", requested |-> reader.requested, radius |-> context.radius,
                     steady |-> Dependencies(reader.began \intersect DOMAIN edges, reader.entities),
                     owners |-> context.owners, graph |-> GraphOf(context),
                     plain |-> IF SnapshotReads(view) THEN PlainContext(view, reader.requested) ELSE Unreadable,
                     plainGraph |-> PlainGraph(view),
                     dc |-> dc, packet |-> ContextPacket(dc)]
    /\ UNCHANGED reads

-----------------------------------------------------------------------------
(* Receipts and corrections *)

\* EvidenceReadReceipt: what a receipt binds.
Receipt(dc, packet, ttl) ==
    [dc |-> dc, packet |-> packet, issued |-> now, expires |-> now + ttl]

\* SqliteEvidenceReadReceiptStore.record: a receipt's id is its content, so an
\* equal receipt is the stored one.
RecordReceipt(r) == receipts' = receipts \union {r}

\* EvidenceReadReceiptAuthority.issue: also of an incomplete or unqualified
\* packet; the packet is the projection of its context.  A read may be some
\* time old.
Issue(ttl) ==
    /\ reader.step = "done" /\ reader.packet # Unpackable
    /\ Cardinality(receipts) < MaxReceipts
    /\ RecordReceipt(Receipt(reader.dc, reader.packet, ttl))
    /\ UNCHANGED <<corrections, reviews>>

\* require_for_proposal
MaySupportProposal(r) ==
    /\ r \in receipts
    /\ r.issued <= now /\ now < r.expires
    /\ r.dc.qualified /\ Complete(r.packet)
    /\ Cardinality(r.packet.cited) + r.packet.extras > 0

\* _correction_id: a digest of the request, its scope, the receipt, the claims
\* and the requester, which leaves out requested_at.
CorrectionId(r) == r

\* SqliteCorrectionStore.record_proposal: a second submission at another time
\* conflicts.
RecordProposal(r) ==
    /\ CorrectionId(r) \notin DOMAIN corrections
    /\ corrections' = Put(corrections, CorrectionId(r), now)

\* CorrectionService.submit by a user of the principal.
Submit(r) ==
    /\ MaySupportProposal(r)
    /\ RecordProposal(r)
    /\ UNCHANGED <<receipts, reviews>>

\* CorrectionReview
ReviewOf(r, reviewer, disposition) ==
    [receipt |-> r, by |-> reviewer, disposition |-> disposition, at |-> now]

\* SqliteCorrectionStore.record_review: appended, whatever was recorded before.
RecordReview(v) == reviews' = reviews \union {v}

\* CorrectionService.review: any number of reviews, by anyone authenticated.
Review(r, reviewer, disposition) ==
    /\ r \in DOMAIN corrections /\ Cardinality(reviews) < MaxReviews
    /\ RecordReview(ReviewOf(r, reviewer, disposition))
    /\ UNCHANGED <<receipts, corrections>>

\* Bounded: after the last query nothing reads the store.
StoreStep ==
    /\ reads = MaxReads => reader.step # "done"
    /\ \/ \E d \in Sources, acl \in Acls : Upsert(d, acl)
       \/ \E d \in Sources : Retract(d)
       \/ ProjectorCall
    /\ UNCHANGED <<now, ticks, reader, reads, review>>

ReadStep ==
    /\ \/ \E q \in Requests : ListEntities(q)
       \/ ListEvidence
       \/ ListRelationships
    /\ UNCHANGED <<now, ticks, store, review>>

ReviewStep ==
    /\ \/ \E t \in Ttls : Issue(t)
       \/ \E r \in receipts : Submit(r)
       \/ \E r \in receipts, b \in Reviewers, d \in {"accept_for_revalidation", "reject"} :
              Review(r, b, d)
    /\ UNCHANGED <<now, ticks, store, reader, reads>>

NextReview == StoreStep \/ ReadStep \/ ReviewStep

-----------------------------------------------------------------------------
(* Properties *)

\* The blast radius of a qualified context (context_for_change) is whole: it
\* has every requested service and every service that depends on one of them
\* through edges stored throughout the query, whatever the ACLs and ages of
\* their evidence and whatever the projector did between the list calls.  The
\* graph the risk score reads reaches the same services, and the plain Company
\* Brain, when it can read the same rows, has the same radius and owners, and
\* the same graph where the two graphs meet.
QualifiedIsWhole ==
    reader.step = "done" /\ reader.dc.qualified =>
        /\ Dependents(reader.steady, reader.requested) \subseteq reader.radius
        /\ Dependents(reader.graph.dependencies, reader.requested) = reader.radius
        /\ reader.plain # Unreadable =>
               LET shared == reader.radius \intersect DOMAIN reader.plainGraph.owner
               IN /\ reader.plain.radius = reader.radius /\ reader.plain.owners = reader.owners
                  /\ \A s \in shared : reader.plainGraph.owner[s] = reader.graph.owner[s]
                  /\ \A k \in reader.plainGraph.dependencies \union reader.graph.dependencies :
                        {k.from, k.to} \subseteq shared =>
                            k \in reader.plainGraph.dependencies \intersect reader.graph.dependencies

\* A retained correction was submitted in the life of a receipt whose packet
\* left nothing of the read out, and the three judgements of a packet agree
\* on it: the receipt's gate, the context health and the decision brief.
ProposalIsBacked ==
    \A r \in DOMAIN corrections :
        /\ r.issued <= corrections[r] /\ corrections[r] < r.expires
        /\ HealthState(r.dc, r.packet) = "ready" /\ ~RequiresHumanReview(r.dc, r.packet)
        /\ r.packet.claims = r.dc.relationships
        /\ Cardinality(r.packet.cited) + r.packet.extras = Cardinality(r.dc.evidence)
=============================================================================
