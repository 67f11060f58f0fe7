SPECIFICATION Spec
CONSTANTS
    w1 = w1
    w2 = w2
    Workers <- MCWorkers
    MaxAttempts = 2
    MaxClaims = 3
    LeaseTicks = 9
    HeartbeatTicks = 2
    CopyTicks = 9
    CallTicks = 0
    StallPhases <- NoPhase
    MaxStalls = 0
    MaxCrashes = 0
    MaxErrors = 0
INVARIANTS
    LiveExecutorOwns
