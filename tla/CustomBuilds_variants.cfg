SPECIFICATION FairBuildSpec
CONSTANTS
  w1 = w1
  w2 = w2
  v1 = v1
  v2 = v2
  None = None
  Workers <- MCWorkers
  Variants <- MCVariants
  MaxAttempts = 2
  MaxFaults = 3
CHECK_DEADLOCK FALSE
INVARIANTS
  VerdictMatches
PROPERTIES
  NeverRebuilt
  Settles
