SPECIFICATION FlowSpec
CONSTANTS
    w1 = w1
    w2 = w2
    nobody = nobody
    Session <- MCWorker
    NoSession <- nobody
    Reader = {}
    Content <- RowData
    Terminal <- MCTerminal
    LegacyFence = 0
    MaxGen = 8
    Kind <- EventFlow
    MaxDeliveries = 2
    RetryBudget = 2
    MaxWakeups = 1
    ClaimIdleExceedsLease = TRUE
    Budgets <- FailAndRequest
    MaxMsg = 6
    MaxTok = 8
SYMMETRY Symmetry
CHECK_DEADLOCK FALSE
INVARIANTS
    CancelStopsEachWorker
PROPERTIES
    NoResurrection
