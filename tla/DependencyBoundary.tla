------------------------- MODULE DependencyBoundary -------------------------
(***************************************************************************)
(* The bulkhead and circuit breaker of resilience/dependencies.py.  Any    *)
(* number of threads call one dependency through one boundary: a           *)
(* semaphore bounds the calls in flight, and the breaker state is read and *)
(* written under a lock by _admit, _record_success and                     *)
(* _record_transient_failure, so each of those is one action.  Between     *)
(* them the operation runs, and the breaker may change under it.           *)
(*                                                                         *)
(* open_until = 0 stands for None: the clock starts at 1.                  *)
(***************************************************************************)
EXTENDS Naturals, FiniteSets

CONSTANTS
    Callers,            \* threads that share the boundary
    MaxInFlight,        \* limits.max_in_flight
    FailureThreshold,   \* limits.failure_threshold
    RecoverySeconds,    \* limits.recovery_seconds
    MaxTime             \* bound on the clock, and on the end of a cool-down

\* DependencyLimits.__post_init__
ASSUME DependencyLimits ==
    /\ MaxInFlight \in Nat \ {0}
    /\ FailureThreshold \in Nat \ {0}
    /\ RecoverySeconds \in Nat \ {0}
    /\ MaxTime \in Nat

VARIABLES
    permits,        \* free permits of the _capacity semaphore
    failures,       \* _consecutive_transient_failures
    open_until,     \* _open_until
    probe_active,   \* _half_open_probe_active
    generation,     \* _generation
    calls,          \* Callers -> the call a thread has in progress
    now,            \* the monotonic clock
    up,             \* environment: the dependency has recovered for good
    abandoned       \* history: a probe ended in a non-Exception

breaker == <<failures, open_until, probe_active, generation>>
boundaryVars == <<permits, failures, open_until, probe_active, generation, calls, now,
          up, abandoned>>

\* The admission a call holds while its operation runs.
Call == [pc: {"idle", "admitting", "running", "releasing"},
         generation: Nat, half_open_probe: BOOLEAN]

IdleCall == [pc |-> "idle", generation |-> 0, half_open_probe |-> FALSE]

BoundaryTypeOK ==
    /\ permits \in 0..MaxInFlight
    /\ failures \in Nat
    /\ open_until \in Nat
    /\ probe_active \in BOOLEAN
    /\ generation \in Nat
    /\ calls \in [Callers -> Call]
    /\ now \in Nat \ {0}
    /\ up \in BOOLEAN
    /\ abandoned \in BOOLEAN

InitBoundary ==
    /\ permits = MaxInFlight
    /\ failures = 0
    /\ open_until = 0
    /\ probe_active = FALSE
    /\ generation = 0
    /\ calls = [c \in Callers |-> IdleCall]
    /\ now = 1
    /\ up = FALSE
    /\ abandoned = FALSE

-----------------------------------------------------------------------------

Releasing(c) == calls' = [calls EXCEPT ![c] = [IdleCall EXCEPT !.pc = "releasing"]]

\* A call without a permit is refused at once and changes nothing.
Acquire(c) ==
    /\ calls[c].pc = "idle"
    /\ permits > 0
    /\ permits' = permits - 1
    /\ calls' = [calls EXCEPT ![c].pc = "admitting"]
    /\ UNCHANGED <<breaker, now, up, abandoned>>

\* Mutant of Admit: every call after the cool-down is a probe.
AdmitEveryProbe(c) ==
    /\ calls[c].pc = "admitting"
    /\ open_until <= now
    /\ calls' = [calls EXCEPT ![c] = [pc |-> "running", generation |-> generation,
                                      half_open_probe |-> open_until # 0]]
    /\ probe_active' = (probe_active \/ open_until # 0)
    /\ UNCHANGED <<permits, failures, open_until, generation, now, up, abandoned>>

Admit(c) ==
    /\ calls[c].pc = "admitting"
    /\ IF open_until > now \/ (open_until # 0 /\ probe_active)
       THEN /\ Releasing(c)             \* DependencyUnavailable
            /\ UNCHANGED probe_active
       ELSE /\ calls' = [calls EXCEPT ![c] =
                            [pc |-> "running", generation |-> generation,
                             half_open_probe |-> open_until # 0]]
            /\ probe_active' = (probe_active \/ open_until # 0)
    /\ UNCHANGED <<permits, failures, open_until, generation, now, up, abandoned>>

\* Mutant of RecordSuccess: a result is recorded whatever the breaker has done
\* since its admission.
RecordSuccessLate(admission) ==
    /\ failures' = 0
    /\ open_until' = 0
    /\ probe_active' = FALSE
    /\ UNCHANGED generation

\* A success of an earlier generation, or of a call that is not the probe of
\* an open circuit, says nothing about the circuit.
RecordSuccess(admission) ==
    IF \/ admission.generation # generation
       \/ open_until # 0 /\ ~admission.half_open_probe
    THEN UNCHANGED breaker
    ELSE /\ failures' = 0
         /\ open_until' = 0
         /\ probe_active' = FALSE
         /\ UNCHANGED generation

\* Mutant of RecordTransientFailure: a failed probe does not give its slot back.
RecordTransientFailureHoldsSlot(admission) ==
    IF admission.generation # generation THEN UNCHANGED breaker
    ELSE /\ failures' = failures + 1
         /\ IF admission.half_open_probe \/ failures + 1 >= FailureThreshold
            THEN /\ now + RecoverySeconds <= MaxTime
                 /\ open_until' = now + RecoverySeconds
                 /\ generation' = generation + 1
            ELSE UNCHANGED <<open_until, generation>>
         /\ UNCHANGED probe_active

RecordTransientFailure(admission) ==
    IF admission.generation # generation THEN UNCHANGED breaker
    ELSE /\ failures' = failures + 1
         /\ IF admission.half_open_probe \/ failures + 1 >= FailureThreshold
            THEN /\ now + RecoverySeconds <= MaxTime
                 /\ open_until' = now + RecoverySeconds
                 /\ generation' = generation + 1
            ELSE UNCHANGED <<open_until, generation>>
         /\ probe_active' = FALSE

Succeed(c) ==
    /\ calls[c].pc = "running"
    /\ RecordSuccess(calls[c])
    /\ Releasing(c)
    /\ UNCHANGED <<permits, now, up, abandoned>>

FailTransiently(c) ==
    /\ calls[c].pc = "running"
    /\ ~up
    /\ RecordTransientFailure(calls[c])
    /\ Releasing(c)
    /\ UNCHANGED <<permits, now, up, abandoned>>

\* A failure that is not transient (a 4xx) proves the transport of a probe.
FailOtherwise(c) ==
    /\ calls[c].pc = "running"
    /\ IF calls[c].half_open_probe THEN RecordSuccess(calls[c])
       ELSE UNCHANGED breaker
    /\ Releasing(c)
    /\ UNCHANGED <<permits, now, up, abandoned>>

\* SystemExit, KeyboardInterrupt and the like are no Exception: only the
\* permit is given back.
Interrupt(c) ==
    /\ calls[c].pc = "running"
    /\ Releasing(c)
    /\ abandoned' = (abandoned \/ calls[c].half_open_probe)
    /\ UNCHANGED <<permits, breaker, now, up>>

\* Mutant of Release: a permit is given back twice.
ReleaseTwice(c) ==
    /\ calls[c].pc = "releasing"
    /\ permits' = permits + 2
    /\ calls' = [calls EXCEPT ![c] = IdleCall]
    /\ UNCHANGED <<breaker, now, up, abandoned>>

Release(c) ==
    /\ calls[c].pc = "releasing"
    /\ permits' = permits + 1
    /\ calls' = [calls EXCEPT ![c] = IdleCall]
    /\ UNCHANGED <<breaker, now, up, abandoned>>

TimePasses ==
    /\ now < MaxTime
    /\ now' = now + 1
    /\ UNCHANGED <<permits, breaker, calls, up, abandoned>>

\* The dependency comes back: no later operation fails transiently.
DependencyRecovers ==
    /\ ~up
    /\ up' = TRUE
    /\ UNCHANGED <<permits, breaker, calls, now, abandoned>>

OperationEnds(c) == Succeed(c) \/ FailOtherwise(c)

NextBoundary ==
    \/ \E c \in Callers :
        \/ Acquire(c) \/ Admit(c)
        \/ OperationEnds(c) \/ FailTransiently(c) \/ Interrupt(c)
        \/ Release(c)
    \/ TimePasses
    \/ DependencyRecovers

BoundarySpec == InitBoundary /\ [][NextBoundary]_boundaryVars

\* Operations return (the adapters set timeouts), a thread that holds a permit
\* keeps running, time passes, and somebody keeps calling the dependency.
BoundaryFairness ==
    /\ \A c \in Callers : /\ WF_boundaryVars(Admit(c))
                          /\ WF_boundaryVars(OperationEnds(c))
                          /\ WF_boundaryVars(Release(c))
    /\ WF_boundaryVars(\E c \in Callers : Acquire(c))
    /\ WF_boundaryVars(TimePasses)

FairBoundarySpec == BoundarySpec /\ BoundaryFairness

-----------------------------------------------------------------------------
(* Properties *)

\* The bulkhead: calls between their acquire and their release and the free
\* permits always add up to max_in_flight, however calls end.
PermitsAccounted ==
    permits + Cardinality({c \in Callers : calls[c].pc # "idle"}) = MaxInFlight

\* "A single half-open probe decides recovery": of the calls admitted in the
\* current generation of an open circuit there is at most one, it is the
\* probe, and the flag is up as long as it runs.
SingleProbe ==
    open_until # 0 =>
        \A c \in Callers :
            calls[c].pc = "running" /\ calls[c].generation = generation =>
                /\ calls[c].half_open_probe /\ probe_active
                /\ \A d \in Callers \ {c} :
                    calls[d].pc = "running" => calls[d].generation # generation

\* The breaker never stays closed on failure_threshold consecutive failures,
\* and is never open without a failure.
ThresholdRespected ==
    IF open_until = 0 THEN failures < FailureThreshold ELSE failures > 0

\* What a step may do to an open circuit: nothing during its cool-down, and
\* close it only with the result of the probe of its own generation.
CoolDownStep ==
    /\ open_until > now => UNCHANGED <<open_until, generation>>
    /\ open_until # 0 /\ open_until' = 0 =>
        \E c \in Callers :
            /\ calls[c].pc = "running" /\ calls[c].half_open_probe
            /\ calls[c].generation = generation
            /\ calls'[c].pc = "releasing"

\* "Its late success must not silently undo that protection": nothing closes,
\* shortens or prolongs a cool-down, and a circuit closes only on the result
\* of the probe of its own generation.
CoolDownRespected == [][CoolDownStep]_boundaryVars

\* Once the dependency is up again and no probe was interrupted, the circuit
\* closes: no late failure, refused call or lost slot keeps it open.
CircuitCloses == up ~> (open_until = 0 \/ abandoned)

=============================================================================
