--------------------------- MODULE ArtifactOutbox ---------------------------
(***************************************************************************)
(* SqliteArtifactOutbox of company_brain/artifact_outbox.py: artifacts and *)
(* their deliveries, recorded in one transaction; each delivery is leased, *)
(* acknowledged or returned for retry on its own.  Every operation is one  *)
(* BEGIN IMMEDIATE transaction, so each is one step.                       *)
(*                                                                         *)
(* An artifact is its content: its id is a digest of the content, so two   *)
(* artifacts with one id are the same artifact.  A lease token is a fresh  *)
(* uuid; as every claim of a delivery raises its attempts, the number of   *)
(* the attempt stands for the token.                                       *)
(***************************************************************************)
EXTENDS Naturals

CONSTANTS
    Artifact,       \* the artifacts products may record
    LeaseDuration   \* lease_duration of every claim

ASSUME OutboxConstants == LeaseDuration \in Nat \ {0}

VARIABLES
    artifacts,      \* the recorded artifacts
    deliveries      \* the row of every delivery

outboxVars == <<artifacts, deliveries>>

\* The two delivery keys PR Guardian uses, in their order as text.
DeliveryKey == {"check", "comment"}

Delivery == Artifact \X DeliveryKey

DeliveryState == {"absent", "pending", "leased", "delivered"}

\* token = 0 stands for NULL; "absent" for no row.
Row == [state: DeliveryState, attempts: Nat, available_at: Nat, token: Nat,
        lease_expires_at: Nat, last_error: BOOLEAN]

AbsentRow == [state |-> "absent", attempts |-> 0, available_at |-> 0, token |-> 0,
              lease_expires_at |-> 0, last_error |-> FALSE]

OutboxInit ==
    /\ artifacts = {}
    /\ deliveries = [d \in Delivery |-> AbsentRow]

OutboxTypeOK ==
    /\ artifacts \subseteq Artifact
    /\ deliveries \in [Delivery -> Row]

\* record: an artifact that is retained already is left as it is.
RecordArtifact(a, at) ==
    /\ artifacts' = artifacts \union {a}
    /\ deliveries' = [d \in Delivery |->
                        IF d[1] = a /\ a \notin artifacts
                        THEN [AbsentRow EXCEPT !.state = "pending", !.available_at = at]
                        ELSE deliveries[d]]

\* Mutant: an expired lease is not taken over.
DueOnlyPending(at, scope) ==
    {d \in Delivery : /\ d[1] \in scope
                      /\ deliveries[d].state = "pending"
                      /\ deliveries[d].available_at <= at}

\* The deliveries claim_next selects at time `at': due ones, and ones whose
\* lease is over, of one artifact or of all.
Due(at, scope) ==
    {d \in Delivery : /\ d[1] \in scope
                      /\ \/ /\ deliveries[d].state = "pending"
                            /\ deliveries[d].available_at <= at
                         \/ /\ deliveries[d].state = "leased"
                            /\ deliveries[d].lease_expires_at <= at}

\* ORDER BY available_at, artifact_id, delivery_key LIMIT 1: the order of two
\* artifact ids, digests, is not known.
FirstOf(D) ==
    {d \in D : \A e \in D :
        /\ deliveries[d].available_at <= deliveries[e].available_at
        /\ (/\ e[1] = d[1]
            /\ deliveries[e].available_at = deliveries[d].available_at
            /\ e[2] = "check") => d[2] = "check"}

\* claim_next: a lease from `at' on, whatever the time is when it is taken.
ClaimNext(d, at) ==
    /\ deliveries' = [deliveries EXCEPT
            ![d].state = "leased", ![d].attempts = @ + 1,
            ![d].token = deliveries[d].attempts + 1,
            ![d].lease_expires_at = at + LeaseDuration, ![d].last_error = FALSE]
    /\ UNCHANGED artifacts

\* Mutant: the token is not compared.
HoldsLeaseAnyToken(d, token) == deliveries[d].state = "leased"

\* _require_lease
HoldsLease(d, token) ==
    /\ deliveries[d].state = "leased"
    /\ deliveries[d].token = token

\* acknowledge, of a lease that is held
Acknowledge(d) ==
    /\ deliveries' = [deliveries EXCEPT
            ![d].state = "delivered", ![d].token = 0, ![d].lease_expires_at = 0,
            ![d].last_error = FALSE]
    /\ UNCHANGED artifacts

\* Mutant: a failed call counts as delivered.
RetryAsDelivered(d, at) ==
    /\ deliveries' = [deliveries EXCEPT ![d].state = "delivered", ![d].token = 0,
                          ![d].lease_expires_at = 0]
    /\ UNCHANGED artifacts

\* retry, of a lease that is held
Retry(d, at) ==
    /\ deliveries' = [deliveries EXCEPT
            ![d].state = "pending", ![d].available_at = at, ![d].token = 0,
            ![d].lease_expires_at = 0, ![d].last_error = TRUE]
    /\ UNCHANGED artifacts
=============================================================================
