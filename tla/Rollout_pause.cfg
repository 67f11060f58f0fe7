SPECIFICATION Spec
CONSTANTS
    w1 = w1
    w2 = w2
    Controllers <- MCControllers
    None = None
    N = 2
    Snapshots <- JustAutomatic
    MaxRequests = 1
    MaxFaults = 0
INVARIANT PausedIsResumable
