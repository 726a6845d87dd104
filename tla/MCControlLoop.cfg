CONSTANTS
    l1 = l1  l2 = l2
    Services = {"a", "b", "c"}
    Environments = {"prod", "stage", "dev"}
    RunbookIds <- MCRunbookIds
    Runbooks <- MCRunbooks
    Revisions = {"v1", "v2"}
    LocalRevision = "local-reference"
    Loops = {l1, l2}
    RequestsOf <- MCRequestsOf
    TTL = 1
    MaxTime = 2
    InitialClusters <- MCInitialClusters
    PodStates <- MCPodStates
    MaxPodChanges = 1
    Promotions <- MCPromotions
SPECIFICATION Spec
CONSTRAINT Focus
INVARIANTS
    MutationGated
    EvaluatorsAgree
    BlastRadiusExclusive
    ResultIsTrue
CHECK_DEADLOCK FALSE
