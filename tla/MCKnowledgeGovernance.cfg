SPECIFICATION Spec
CONSTANTS
    Repo = "repo"
    Services = {"s1", "s2"}
    OwnerIds = {"o1", "o2"}
    SourceKindOf <- SourceKinds
    EdgeOrder <- EdgesInOrder
    MaxRelationships = 3
    MaxEvidence = 2
    MaxItems = 1
    MaxRendered = 12
    Sources = {1, 2, 3}
    Claims <- ClaimsOfSources
    Principal <- PrincipalIdentities
    Acls <- AclChoices
    Requests <- RequestChoices
    Reviewers = {"bob"}
    Ttls <- Lifetimes
    TickSteps <- Steps
    MaxTicks = 1
    MaxWrites = 3
    MaxReads = 1
    MaxReceipts = 1
    MaxReviews = 1
    Docs = {a, b}
    SourceRevisions = {1, 2}
    People = {ann, ben}
    StaleAfterDays = 40
    MaxEdits = 2
    MaxPlans = 1
    MaxDecisions = 1
    MaxObservations = 1
    MaxOutcomes = 1
    MaxProjections = 2
    Absent = Absent
    Flows = {"correction", "maintenance"}
INVARIANTS
    QualifiedIsWhole
    ProposalIsBacked
    OutcomeIsEarned
SYMMETRY Symmetry
CHECK_DEADLOCK FALSE
