SPECIFICATION FairSpec
CONSTANTS
    Services = {s1}
    Tier <- MCTier
    DependsOn <- MCDependsOn
    Owners = {o1}
    MaxFindings = 64
    Artifact <- MCArtifact
    LeaseDuration = 1
    Workers = {w1, w2}
    Recoverers = {w2}
    Events <- MCEvents
    Changes <- MCChanges
    Config <- MCConfig
    NoFinding = NoFinding
    NoDelivery = NoDelivery
    MaxDeliveries = 2
    MaxDelay = 1
    MaxReceipts = 2
    MaxFaults = 1
    Horizon = 1
    MaxClock = 2
INVARIANTS
    PublishedIsRecorded
    DuplicateNeedsOverrun
PROPERTIES
    LeaseEndsByHolder
    ImplementsContract
    EveryDeliveryCompletes
CHECK_DEADLOCK FALSE
