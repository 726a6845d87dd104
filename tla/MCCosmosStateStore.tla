------------------------- MODULE MCCosmosStateStore ----------------------------
(* Events for one workflow: its creation (delivered with two different      *)
(* bodies), competing transitions from `received', and their successors,     *)
(* one of which reuses an event id under another idempotency key.            *)
EXTENDS CosmosStateStore, TLC

CONSTANTS w1, i1, i2, i3, i4, k1, k2, k3, k4, k5, s1, s2, h1, b1, b2

Ev(i, k, from, to, expected, scope, body) ==
    [event_id |-> i, idempotency_key |-> k, workflow_id |-> w1,
     from_status |-> from, to_status |-> to, expected_version |-> expected,
     plan_hash |-> IF to = "planned" THEN h1 ELSE NoHash,
     scope |-> scope, body |-> body]

MCEvents ==
    {Ev(i1, k1, NoStatus, "received", 0, s1, b1),
     Ev(i1, k1, NoStatus, "received", 0, s1, b2),
     Ev(i2, k2, "received", "planned", 1, s1, b1),
     Ev(i2, k3, "received", "diagnosing", 1, s1, b1),
     Ev(i3, k4, "received", "escalated", 1, s1, b1),
     Ev(i3, k4, "planned", "executing", 2, s1, b1),
     Ev(i2, k5, "planned", "cancelled", 2, s1, b1),
     Ev(i4, k5, "planned", "escalated", 2, s2, b1),
     Ev(i4, k3, "planned", "waiting_approval", 3, s1, b1)}

MCPutRecords ==
    {[status |-> "planned", plan_hash |-> h1, version |-> 1, scope |-> s1]}

=============================================================================
