SPECIFICATION FairSpec
CONSTANTS
    w1 = w1
    w2 = w2
    Controllers <- MCControllers
    None = None
    N = 2
    Snapshots <- MCSnapshots
    MaxRequests = 1
    MaxFaults = 1
CHECK_DEADLOCK FALSE
INVARIANTS
    DeployedInOrder
    EndsAsDeployed
PROPERTIES
    PauseHolds
    RollbackEnds
