SPECIFICATION Spec
CONSTANTS
  w1 = w1
  w2 = w2
  image = image
  policy = policy
  None = None
  Workers <- MCWorkers
  Steps <- MCSteps
  Needs <- Chain
  PolicyStep = policy
  Decisions = {"blocked", "auto_approved"}
  MaxStepAttempts = 2
  MaxBuilds = 2
  MaxCancels = 1
  MaxFaults = 1
VIEW MCView
CHECK_DEADLOCK FALSE
INVARIANTS
  CompletedHasPlan
  DependenciesFirst
  OneLiveBuild
  ApprovableIsEvident
PROPERTIES
  EndedByOwner
