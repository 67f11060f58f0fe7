SPECIFICATION Spec
CONSTANTS
  w1 = w1
  w2 = w2
  image = image
  policy = policy
  None = None
  Workers <- MCWorkers
  Steps <- MCSteps
  Needs <- Chain
  PolicyStep = policy
  Decisions = {"awaiting_approval"}
  MaxStepAttempts = 1
  MaxBuilds = 1
  MaxCancels = 0
  MaxFaults = 1
SYMMETRY Symmetric
CHECK_DEADLOCK FALSE
INVARIANTS
  CompletedIsNotFailed
