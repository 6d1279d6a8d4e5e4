SPECIFICATION EventSpec
CONSTANTS
    f1 = f1
    f2 = f2
    Filter = {f1, f2}
    MaxEvent = 1
    MaxSub = 1
    MaxTime = 1
    Timeout = 0
    Batch = 1
    SkipFactor = 4
    Scenarios <- OneFailure
CHECK_DEADLOCK FALSE
INVARIANTS
    ScannedNotSwallowed
