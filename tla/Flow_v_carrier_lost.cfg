SPECIFICATION FlowSpec
CONSTANTS
    w1 = w1
    w2 = w2
    nobody = nobody
    Session <- MCWorker
    NoSession <- nobody
    Reader = {}
    Content <- RowData
    Terminal <- MCTerminal
    LegacyFence = 0
    MaxGen = 6
    Kind <- Tasks
    MaxDeliveries = 2
    RetryBudget = 2
    MaxWakeups = 1
    ClaimIdleExceedsLease = FALSE
    Budgets <- OneCrash
    MaxMsg = 5
    MaxTok = 6
SYMMETRY Symmetry
CHECK_DEADLOCK FALSE
INVARIANTS
    CarrierSurvivesConflict
