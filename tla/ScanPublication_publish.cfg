SPECIFICATION Spec
CONSTANTS
  vendored = vendored
  severe = severe
  minor = minor
  None = None
  Members <- MCMembers
  Severity <- MCSeverity
  Covered <- MCCovered
  Ignored <- MCIgnored
  MaxAttempts = 2
  MaxChanges = 3
  MaxFaults = 1
CHECK_DEADLOCK FALSE
VIEW MCView
INVARIANTS
  GateCurrent
  ProjectionCurrent
  OnlyContention
PROPERTIES
  CompletesWhole
