-------------------------- MODULE DeliveryContract --------------------------
(***************************************************************************)
(* What the artifact outbox promises of external side effects: nothing is  *)
(* shown outside that was not recorded before, a delivery is complete only *)
(* when its effect has happened, and neither a record nor a completion is  *)
(* taken back.  The effect itself may happen more than once.               *)
(***************************************************************************)
CONSTANT Delivery

VARIABLES
    recorded,       \* deliveries whose artifact is durable
    effected,       \* deliveries whose effect the outside has seen
    complete        \* deliveries the outbox holds to be done

contractVars == <<recorded, effected, complete>>

Init == recorded = {} /\ effected = {} /\ complete = {}

\* An artifact is recorded with all its deliveries.
Record ==
    /\ recorded \subseteq recorded' /\ recorded' \subseteq Delivery
    /\ recorded' # recorded
    /\ UNCHANGED <<effected, complete>>

Effect ==
    /\ \E d \in recorded \ effected : effected' = effected \union {d}
    /\ UNCHANGED <<recorded, complete>>

Complete ==
    /\ \E d \in effected \ complete : complete' = complete \union {d}
    /\ UNCHANGED <<recorded, effected>>

Next == Record \/ Effect \/ Complete

Spec == Init /\ [][Next]_contractVars
=============================================================================
