------------------------------ MODULE AuditLog ------------------------------
(***************************************************************************)
(* The append-only, hash-chained audit log of state/audit.py               *)
(* (SqliteAuditLog).  The tip is read and the event inserted under one     *)
(* write lock, so append is one action.  It is also the abstract           *)
(* specification of the Cosmos sink (CosmosAuditLog).                      *)
(*                                                                         *)
(* The hash of an entry covers its content and the previous hash.  SHA-256 *)
(* is taken to be injective, so a hash is represented by what it hashes:   *)
(* the sequence of the events from the first entry to this one.            *)
(***************************************************************************)
EXTENDS Naturals, Sequences

CONSTANT
    Events          \* the events exporters may append: an event_id, and the
                    \* content _event_identity compares besides the id

VARIABLES
    log,            \* the audit_events table, in sequence order
    exported        \* history: every entry append has returned

vars == <<log, exported>>

NoPrevious == <<>>      \* previous_hash = None

Entry == [event: Events, previous_hash: Seq(Events),
          event_hash: Seq(Events)]

\* compute_event_hash: the content of the event linked to its predecessor.
ComputeEventHash(event, previous) == Append(previous, event)

TypeOK ==
    /\ log \in Seq(Entry)
    /\ exported \subseteq Entry

-----------------------------------------------------------------------------

Init ==
    /\ log = <<>>
    /\ exported = {}

\* The row the UNIQUE event_id constraint protects.
Stored(event) == {i \in DOMAIN log : log[i].event.event_id = event.event_id}

LastHash == IF log = <<>> THEN NoPrevious ELSE log[Len(log)].event_hash

Deliver(entry) ==
    \/ exported' = exported \union {entry}
    \/ UNCHANGED exported           \* the answer is lost

AppendEvent(event) ==
    /\ Stored(event) = {}
    /\ LET entry == [event |-> event, previous_hash |-> LastHash,
                     event_hash |-> ComputeEventHash(event, LastHash)]
       IN  log' = Append(log, entry) /\ Deliver(entry)

\* A second append of the same event returns the stored entry; an event id
\* with other content raises AuditConflict and changes nothing.
Replayed(event) ==
    /\ \E i \in Stored(event) : log[i].event = event /\ Deliver(log[i])
    /\ UNCHANGED log

Next == \E event \in Events : AppendEvent(event) \/ Replayed(event)

Spec == Init /\ [][Next]_vars

-----------------------------------------------------------------------------

\* verify_chain: walk the rows in sequence order, checking every link and
\* recomputing every hash.
VerifyChain ==
    \A i \in DOMAIN log :
        /\ log[i].previous_hash = IF i = 1 THEN NoPrevious
                                  ELSE log[i - 1].event_hash
        /\ log[i].event_hash = ComputeEventHash(log[i].event,
                                                log[i].previous_hash)

\* Every entry an exporter was given is in the chain that verifies, at the
\* place its hash says, and an event is in the chain once.
ExportedAreChained ==
    /\ VerifyChain
    /\ \A x \in exported :
        /\ Len(x.event_hash) \in DOMAIN log
        /\ log[Len(x.event_hash)] = x
    /\ \A i, j \in DOMAIN log :
        log[i].event.event_id = log[j].event.event_id => i = j

=============================================================================
