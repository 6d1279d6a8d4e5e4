SPECIFICATION FairSpec
CONSTANTS
    r1 = r1
    r2 = r2
    w1 = w1
    Req = {r1, r2}
    Worker = {w1}
    MaxId = 4
    MaxMsg = 5
    DeferMax = 1
    Attempts = 2
    Scenarios <- Troubles
    Unlimited = Unlimited
    NoId = NoId
    Nobody = Nobody
CHECK_DEADLOCK FALSE
INVARIANTS
    DedupTypeOK
    OneIdRuns
    AcceptedIsCarried
    
PROPERTIES
    EnqueuedIsFinal
    AcceptedNotUndone
    AcceptedSettles
    ClientAnswered
