SPECIFICATION EventFairSpec
CONSTANTS
    f1 = f1
    f2 = f2
    Filter = {f1, f2}
    MaxEvent = 3
    MaxSub = 2
    MaxTime = 1
    Timeout = 0
    Batch = 1
    SkipFactor = 4
    Scenarios <- Troubles
CHECK_DEADLOCK FALSE
INVARIANTS
    EventTypeOK
    CursorCovers
    OneResumePerEvent
    WaitIsSubscribed
PROPERTIES
    EveryEventSeen
    EventEndsWait
    TimedWaitEnds
