SPECIFICATION OutboxFairSpec
CONSTANTS
    k1 = k1
    k2 = k2
    c1 = c1
    c2 = c2
    Console = {k1, k2}
    Content = {c1, c2}
    MaxRow = 2
    MaxAttempts = 2
    NoContent = NoContent
    Nobody = Nobody
    Scenarios <- Troubles
CHECK_DEADLOCK FALSE
INVARIANTS
    OutboxTypeOK
    NoGhost
    ClosedStaysClosed
    SingleWriter
PROPERTIES
    Converges
