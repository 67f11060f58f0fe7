SPECIFICATION FairSpec
CONSTANTS
    w1 = w1
    w2 = w2
    Workers <- MCWorkers
    MaxAttempts = 2
    MaxClaims = 3
    LeaseTicks = 3
    HeartbeatTicks = 1
    CopyTicks = 0
    CallTicks = 0
    StallPhases <- WhileRunning
    MaxStalls = 1
    MaxCrashes = 1
    MaxErrors = 2
INVARIANTS
    StopsInTime
PROPERTIES
    CancelIsFinal
    ImplementsScanJob
    EventuallyFinished
