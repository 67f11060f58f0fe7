SPECIFICATION FairSpec
CONSTANTS
  w1 = w1
  w2 = w2
  w3 = w3
  Workers <- MCWorkers
  MaxAttempts = 3
  MaxRetries = 1
  MaxFaults = 3
CHECK_DEADLOCK FALSE
INVARIANTS
  CancelHonoured
PROPERTIES
  SettledByHolder
  Settles
  Planned
