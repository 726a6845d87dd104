CONSTANTS
    JobIds = {1, 2}
    PlanHashes = {1, 2}
    NoJob = 0
    NoHash = NoHash
    NoScope = NoScope
    WorkflowIds = {w}
    EventIds = {i}
    Keys = {k}
    Scopes = {s}
    Bodies = {b}
    Callers = {c1, c2}
    Workers = {w1, w2}
    MaxAttempts = 2
    LeaseSeconds = 1
    BaseBackoff = 1
    MaxTime = 1
    MaxVersion = 4
    Refusals = {"denied"}
    Results = {"succeeded"}
SYMMETRY ProcessSymmetry
SPECIFICATION Spec
INVARIANTS
    LeaseIsExclusive
    ExecutionFollowsApproval
    ExecutedOnce
CHECK_DEADLOCK FALSE
