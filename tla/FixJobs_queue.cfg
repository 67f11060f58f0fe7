SPECIFICATION FairSpec
CONSTANTS
  o1 = o1
  o2 = o2
  w1 = w1
  w2 = w2
  c1 = c1
  None = None
  Origins <- MCOrigins
  BranchOf <- SharedBranch
  Workers <- MCWorkers
  Clients <- MCClients
  Ends <- TwoEnds
  PlannedRuns = 2
  MaxJobs = 3
  MaxRems = 3
  MaxScans = 1
  MaxAsks = 2
  MaxFaults = 1
CHECK_DEADLOCK FALSE
INVARIANTS
  OneActivePerBranch
  OneRunPerSession
  CheckoutSafe
  EngineKeepsCheckout
  FollowsSuccess
PROPERTIES
  QueueDrains
  CancelAcknowledged
  Fenced
