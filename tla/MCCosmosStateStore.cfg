CONSTANTS
    w1 = w1  i1 = i1  i2 = i2  i3 = i3  i4 = i4
    k1 = k1  k2 = k2  k3 = k3  k4 = k4  k5 = k5
    s1 = s1  s2 = s2  h1 = h1  b1 = b1  b2 = b2
    NoScope = NoScope
    NoHash = NoHash
    WorkflowIds = {w1}
    EventIds = {i1, i2, i3, i4}
    Keys = {k1, k2, k3, k4, k5}
    Scopes = {s1, s2}
    PlanHashes = {h1}
    Bodies = {b1, b2}
    Events <- MCEvents
    PutRecords <- MCPutRecords
    MaxVersion = 3
    Callers = {c1, c2}
SPECIFICATION Spec
INVARIANTS
    DocumentMatchesLastReceipt
PROPERTIES
    ImplementsStateStore
CHECK_DEADLOCK FALSE
