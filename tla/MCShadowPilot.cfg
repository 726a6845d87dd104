SPECIFICATION PilotSpec
CONSTANTS
    Services = {s1}
    Tier <- MCTier
    DependsOn <- MCDependsOn
    Owners = {o1}
    MaxFindings = 2
    MinJoined = 2
    MinReviewed = 1
    MinConfirmed = 1
    MinRetention = 90
    RawConfigs <- MCRawConfigs
    Manifests <- MCManifests
    HeadChanges <- MCChanges
    Labels <- MCLabels
    Claims <- MCClaims
    Flaws <- MCFlaws
    ReviewDays = 0
    MaxDay = 1
    MaxRuns = 2
    MaxClosures = 2
    MaxEdits = 2
    MaxPackets = 1
CONSTRAINT Focus
INVARIANTS
    JoinedToItsHead
    ValidPacketIsSound
PROPERTIES
    
    PilotNeverBlocks
CHECK_DEADLOCK FALSE
