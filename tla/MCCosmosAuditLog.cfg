CONSTANTS
    Exporters = {c1, c2}
    i1 = i1  i2 = i2  i3 = i3  x = x  y = y
    AuditEventIds = {i1, i2, i3}
    Contents = {x, y}
    AuditEvents <- MCAuditEvents
    MaxTipAttempts = 2
SPECIFICATION SinkSpec
INVARIANTS
    ChainVerifies
PROPERTIES
    ImplementsAuditLog
CHECK_DEADLOCK FALSE
