-------------------------- MODULE KnowledgeGovernance --------------------------
(***************************************************************************)
(* The two human review flows over Company Brain, corrections and          *)
(* maintenance, under one clock.  They share no state but time and the     *)
(* facts they read, so a behaviour follows one of them.                    *)
(***************************************************************************)
EXTENDS KnowledgeReview, KnowledgeMaintenance

CONSTANT Flows      \* a subset of {"correction", "maintenance"}

VARIABLE flow

vars == <<flow, now, ticks, store, reader, reads, review, maintenance>>

Init ==
    /\ flow \in Flows
    /\ InitReview
    /\ InitMaintenance

Time ==
    /\ \E d \in TickSteps : Tick(d)
    /\ UNCHANGED <<flow, store, reader, reads, review, maintenance>>

Correction ==
    /\ flow = "correction"
    /\ NextReview
    /\ UNCHANGED <<flow, maintenance>>

Maintenance ==
    /\ flow = "maintenance"
    /\ NextMaintenance(now)
    /\ UNCHANGED <<flow, now, ticks, store, reader, reads, review>>

Next == Time \/ Correction \/ Maintenance

Spec == Init /\ [][Next]_vars
=============================================================================
