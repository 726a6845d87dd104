CONSTANTS
    Callers = {c1, c2, c3}
    MaxInFlight = 2
    FailureThreshold = 2
    RecoverySeconds = 2
    MaxTime = 8
SPECIFICATION FairBoundarySpec
INVARIANTS
    PermitsAccounted
    SingleProbe
PROPERTIES
    CoolDownRespected
    CircuitCloses
CHECK_DEADLOCK FALSE
