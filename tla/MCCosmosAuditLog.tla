---- MODULE MCCosmosAuditLog ----
(* Three event ids, one of them presented with two contents. *)
EXTENDS CosmosAuditLog

CONSTANTS i1, i2, i3, x, y

MCAuditEvents ==
    {[event_id |-> i1, content |-> x], [event_id |-> i1, content |-> y],
     [event_id |-> i2, content |-> x], [event_id |-> i3, content |-> x]}

====
