------------------------------ MODULE Lifecycle ------------------------------
(***************************************************************************)
(* The workflow-lifecycle contract of state/lifecycle.py and               *)
(* state/models.py: the statuses, the transition table, the validation of  *)
(* an event and its application to a record.  Both state stores (SQLite    *)
(* and Cosmos) and the remediation activities are written against it.      *)
(*                                                                         *)
(* Data abstraction.  A record keeps its status, its plan hash, its        *)
(* version and its `scope' (tenant, service, environment, kind and         *)
(* correlation id, which the contract compares as a block).  An event      *)
(* keeps the fields the contract looks at and a `body' for the rest        *)
(* (actor, action, attributes, occurred_at, ...).  The SHA-256 fingerprint *)
(* of an event is taken to be injective, so two events have the same       *)
(* fingerprint exactly when they are the same event.                       *)
(***************************************************************************)
EXTENDS Naturals

CONSTANTS
    WorkflowIds,    \* workflow identifiers
    EventIds,       \* event identifiers
    Keys,           \* idempotency keys
    Scopes,         \* tenant/service/environment/kind/correlation blocks
    PlanHashes,     \* sha256 plan digests
    Bodies,         \* the remaining content of an event
    NoScope,        \* scope of an absent record
    NoHash          \* plan_hash = None

ASSUME LifecycleConstants ==
    /\ NoScope \notin Scopes
    /\ NoHash \notin PlanHashes

-----------------------------------------------------------------------------
(* state/models.py *)

NoStatus == "none"      \* from_status = None, or no record

Terminal == {"succeeded", "rolled_back", "escalated", "failed", "cancelled"}

WorkflowStatus ==
    {"received", "diagnosing", "planned", "waiting_approval", "executing",
     "verifying"} \union Terminal

Statuses == WorkflowStatus \union {NoStatus}

WorkflowRecord ==
    [status: Statuses, plan_hash: PlanHashes \union {NoHash},
     version: Nat, scope: Scopes \union {NoScope}]

\* What a read of an absent workflow returns: version 0 stands for None.
NoRecord ==
    [status |-> NoStatus, plan_hash |-> NoHash, version |-> 0, scope |-> NoScope]

-----------------------------------------------------------------------------
(* state/lifecycle.py *)

AllowedTransitions ==
    [s \in Statuses |->
        CASE s = NoStatus           -> {"received"}
          [] s = "received"         -> {"diagnosing", "planned", "failed",
                                        "escalated", "cancelled"}
          [] s = "diagnosing"       -> {"planned", "failed", "escalated",
                                        "cancelled"}
          [] s = "planned"          -> {"waiting_approval", "executing",
                                        "succeeded", "failed", "escalated",
                                        "cancelled"}
          [] s = "waiting_approval" -> {"executing", "failed", "escalated",
                                        "cancelled"}
          [] s = "executing"        -> {"verifying", "rolled_back", "failed",
                                        "escalated", "cancelled"}
          [] s = "verifying"        -> {"succeeded", "rolled_back", "failed",
                                        "escalated"}
          [] OTHER                  -> {}]

WorkflowLifecycleEvent ==
    [event_id: EventIds, idempotency_key: Keys, workflow_id: WorkflowIds,
     from_status: Statuses, to_status: WorkflowStatus, expected_version: Nat,
     plan_hash: PlanHashes \union {NoHash}, scope: Scopes, body: Bodies]

\* expected_version = None is 0: only a creation may leave it out, and only a
\* creation may come from no status.
Validate(e) ==
    /\ e.from_status = NoStatus <=> e.expected_version = 0
    /\ e.to_status \in AllowedTransitions[e.from_status]

\* Mutant of CanApply: the version alone decides, the status is not compared.
CanApplyAnyStatus(e, current) ==
    IF current.version = 0 THEN e.from_status = NoStatus
    ELSE e.from_status # NoStatus /\ e.scope = current.scope

\* apply_to succeeds on the record the adapter has read; otherwise it raises.
CanApply(e, current) ==
    IF current.version = 0
    THEN e.from_status = NoStatus
    ELSE /\ e.from_status = current.status
         /\ e.from_status # NoStatus
         /\ e.scope = current.scope

\* Mutant of ApplyTo: a new plan rewrites the version in place.
ApplyToInPlace(e, current) ==
    [status    |-> e.to_status,
     plan_hash |-> IF e.plan_hash # NoHash THEN e.plan_hash ELSE current.plan_hash,
     version   |-> IF e.plan_hash # NoHash THEN current.version
                   ELSE current.version + 1,
     scope     |-> e.scope]

\* The record apply_to returns, with the version the store then gives it.
ApplyTo(e, current) ==
    [status    |-> e.to_status,
     plan_hash |-> IF e.plan_hash # NoHash THEN e.plan_hash ELSE current.plan_hash,
     version   |-> current.version + 1,
     scope     |-> e.scope]

\* SqliteStateStore._assert_expected and CosmosStateStore._assert_expected.
ExpectedHolds(current, expected) == expected = 0 \/ current.version = expected

=============================================================================
