--------------------------- MODULE CosmosAuditLog ---------------------------
(***************************************************************************)
(* The Cosmos audit sink of state/cosmos_audit.py.  There is no write      *)
(* lock: the chain tip is a document in the partition of the events, and   *)
(* append writes the event and conditionally replaces the tip in one       *)
(* transactional batch.  A caller that loses the race reads the stored     *)
(* event (its own earlier attempt may have won) and otherwise tries again  *)
(* from the new tip, at most MaxTipAttempts times.                         *)
(***************************************************************************)
EXTENDS Naturals, Sequences, FiniteSets

CONSTANTS
    Exporters,          \* concurrent callers of append
    AuditEventIds,      \* audit event ids
    Contents,           \* what _event_identity compares besides the id
    AuditEvents,        \* the events exporters may append
    MaxTipAttempts      \* _MAX_TIP_ATTEMPTS

ASSUME CosmosAuditConstants ==
    /\ AuditEvents \subseteq [event_id: AuditEventIds, content: Contents]
    /\ MaxTipAttempts \in Nat \ {0}

VARIABLES
    tip,            \* the audit-chain:tip document (sequence 0: absent)
    items,          \* the audit-event documents
    appends,        \* Exporters -> the append a caller has in progress
    exported        \* history: every entry append has returned

sinkVars == <<tip, items, appends, exported>>

NoPrevious == <<>>

ComputeEventHash(event, previous) == Append(previous, event)

Entry == [event: AuditEvents, previous_hash: Seq(AuditEvents),
          event_hash: Seq(AuditEvents)]

Item == [entry: Entry, sequence: Nat]

Tip == [sequence: Nat, event_hash: Seq(AuditEvents), etag: Nat]

NoTip == [sequence |-> 0, event_hash |-> NoPrevious, etag |-> 0]

NoAppend == [op |-> "idle"]

Call == [op: {"read_tip", "batch", "read_stored"}, event: AuditEvents,
         tip: Tip, attempt: 1..MaxTipAttempts]

SinkTypeOK ==
    /\ tip \in Tip
    /\ items \subseteq Item
    /\ appends \in [Exporters -> {NoAppend} \union Call]
    /\ exported \subseteq Entry

-----------------------------------------------------------------------------

InitSink ==
    /\ tip = NoTip
    /\ items = {}
    /\ appends = [c \in Exporters |-> NoAppend]
    /\ exported = {}

EndAppend(c) == appends' = [appends EXCEPT ![c] = NoAppend]

\* The document _event_item_id(event_id) names.
Stored(event) == {it \in items : it.entry.event.event_id = event.event_id}

\* The entry built on the tip that was read.
Candidate(call) ==
    [event |-> call.event, previous_hash |-> call.tip.event_hash,
     event_hash |-> ComputeEventHash(call.event, call.tip.event_hash)]

BeginAppend(c, event) ==
    /\ appends[c] = NoAppend
    /\ appends' = [appends EXCEPT ![c] = [op |-> "read_tip", event |-> event,
                                          tip |-> NoTip, attempt |-> 1]]
    /\ UNCHANGED <<tip, items, exported>>

ReadTip(c) ==
    /\ appends[c].op = "read_tip"
    /\ appends' = [appends EXCEPT ![c].op = "batch", ![c].tip = tip]
    /\ UNCHANGED <<tip, items, exported>>

\* Mutant of AppendAccepted: the event is upserted.
AppendAcceptedTwice(call) == tip.etag = call.tip.etag

\* Create the event; create the tip or replace it on the _etag that was read.
AppendAccepted(call) ==
    /\ Stored(call.event) = {}
    /\ tip.etag = call.tip.etag

WriteEntry(call) ==
    LET entry == Candidate(call)
        sequence == call.tip.sequence + 1
    IN  /\ items' = items \union {[entry |-> entry, sequence |-> sequence]}
        /\ tip' = [sequence |-> sequence, event_hash |-> entry.event_hash,
                   etag |-> tip.etag + 1]

AppendBatch(c) ==
    /\ appends[c].op = "batch"
    /\ \/ \* accepted and answered
          /\ AppendAccepted(appends[c])
          /\ WriteEntry(appends[c])
          /\ exported' = exported \union {Candidate(appends[c])}
          /\ EndAppend(c)
       \/ \* accepted, and the answer is lost: a transport error ends the
          \* call, or the SDK's resend conflicts with the event just stored
          /\ AppendAccepted(appends[c])
          /\ WriteEntry(appends[c])
          /\ EndAppend(c) \/ appends' = [appends EXCEPT ![c].op = "read_stored"]
          /\ UNCHANGED exported
       \/ \* refused: a precondition failed, or the batch was throttled
          /\ appends' = [appends EXCEPT ![c].op = "read_stored"]
          /\ UNCHANGED <<tip, items, exported>>

\* Mutant of ReadStored: a conflict is answered with the caller's own entry.
ReadStoredAnswersOwn(c) ==
    /\ appends[c].op = "read_stored"
    /\ Stored(appends[c].event) # {}
    /\ exported' = exported \union {Candidate(appends[c])}
    /\ EndAppend(c)
    /\ UNCHANGED <<tip, items>>

\* After a refused batch: return the stored event, raise AuditConflict when
\* its content differs, try again from a new tip, or give up.
ReadStored(c) ==
    /\ appends[c].op = "read_stored"
    /\ UNCHANGED <<tip, items>>
    /\ \/ /\ \E it \in Stored(appends[c].event) :
                exported' = IF it.entry.event = appends[c].event
                            THEN exported \union {it.entry}
                            ELSE exported
          /\ EndAppend(c)
       \/ /\ Stored(appends[c].event) = {}
          /\ appends[c].attempt < MaxTipAttempts
          /\ appends' = [appends EXCEPT ![c].op = "read_tip",
                                        ![c].attempt = @ + 1]
          /\ UNCHANGED exported
       \/ /\ Stored(appends[c].event) = {}
          /\ appends[c].attempt = MaxTipAttempts
          /\ EndAppend(c)    \* RuntimeError: the event is not in the log
          /\ UNCHANGED exported

\* The caller's worker dies, or a request fails with an uncaught error.
ExporterDies(c) ==
    /\ appends[c] # NoAppend
    /\ EndAppend(c)
    /\ UNCHANGED <<tip, items, exported>>

NextSink ==
    \E c \in Exporters :
        \/ \E event \in AuditEvents : BeginAppend(c, event)
        \/ ReadTip(c) \/ AppendBatch(c) \/ ReadStored(c) \/ ExporterDies(c)

SinkSpec == InitSink /\ [][NextSink]_sinkVars

-----------------------------------------------------------------------------
(* The chain that the documents spell: the events in sequence order.        *)

ItemAt(n) == CHOOSE it \in items : it.sequence = n

Chain == [n \in 1..tip.sequence |-> ItemAt(n).entry]

Reference == INSTANCE AuditLog WITH log <- Chain, Events <- AuditEvents

\* "Cosmos-backed append-only audit log with SQLite-identical hash-chain
\* semantics": every request is an append of the locked log, or no step of it.
ImplementsAuditLog == Reference!Spec

\* The chain verify_chain walks verifies, holds every event once, and holds
\* every entry an exporter was given at the place its hash says: an exporter
\* whose append was lost to a race was never told otherwise.
ChainVerifies == Reference!ExportedAreChained

=============================================================================
