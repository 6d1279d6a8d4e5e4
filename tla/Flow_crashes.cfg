SPECIFICATION FairFlowSpec
CONSTANTS
    w1 = w1
    w2 = w2
    nobody = nobody
    Session <- MCWorker
    NoSession <- nobody
    Reader = {}
    Content <- RowData
    Terminal <- MCTerminal
    LegacyFence = 0
    MaxGen = 8
    Kind <- ServiceFlow
    MaxDeliveries = 2
    RetryBudget = 2
    MaxWakeups = 1
    ClaimIdleExceedsLease = TRUE
    Budgets <- Crashes
    MaxMsg = 6
    MaxTok = 8
CHECK_DEADLOCK FALSE
INVARIANTS
    FlowTypeOK
    RunningHasCarrier
    NoForgottenDispatch
    MarkerClearedAfterPush
    DecisionNotLost
PROPERTIES
    RunningSettles
