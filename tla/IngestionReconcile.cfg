SPECIFICATION IngestionSpec
CONSTANTS
    Documents = {d1, d2}
    Revisions = {1, 2}
    Nothing = Nothing
    Wirings = {"repository", "checkout", "knowledge"}
    Contents = {A, B}
    Acls = {g1, g2}
    MaxChanges = 3
    MaxAttempts = 2
    MaxFaults = 1
    MaxCheckouts = 2
    MaxReconciles = 1
    MaxAclChanges = 1
PROPERTIES
    ReconcileConverges
CHECK_DEADLOCK FALSE
