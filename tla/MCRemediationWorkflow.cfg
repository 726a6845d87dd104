CONSTANTS
    w = w  e0 = e0  e1 = e1  h1 = h1  h2 = h2
    NoScope = NoScope
    NoHash = NoHash
    NoEvidence = NoEvidence
    NoSignal = NoSignal
    WorkflowIds = {w}
    Workflow = w
    EventIds <- Steps
    Keys <- Steps
    Scopes = {s}
    Scope = s
    PlanHashes = {h1, h2}
    Bodies = {b}
    Evidence = {e0, e1}
    PlanFor <- MCPlanFor
    Signals <- MCSignals
    TwinVerdicts = {TRUE, FALSE}
    StepAttempts = 2
    MaxRuns = 2
    MaxPending = 2
    MaxLive = 2
SPECIFICATION FairSpec
INVARIANTS
    MutationOnce
    MutationAuthorised
    AuditTrailsState
    OutcomeIsTrue
PROPERTIES
    RunCloses
CHECK_DEADLOCK FALSE
