SPECIFICATION FairSpec
CONSTANTS
    s1 = s1
    s2 = s2
    image = image
    site = site
    lock = lock
    lint = lint
    fast = fast
    daemon = daemon
    Scans <- MCScans
    Tools <- MCTools
    ScanOf <- MCScanOf
    Detected <- Both
    Daemon = daemon
    Heavy <- MCHeavy
    Network <- MCNetwork
    Exclusive <- MCExclusive
    Plan <- MCPlan
    Memory <- MCMemory
    CPUBudget = 4
    MemoryBudget = 3
CHECK_DEADLOCK FALSE
INVARIANTS
    Accounting
    NoLostWakeup
PROPERTIES
    EveryToolEnds
