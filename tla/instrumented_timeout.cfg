SPECIFICATION IFairSpec
CONSTANTS
  c1 = c1
  c2 = c2
  Callers <- TwoCallers
  FailureThreshold = 2
  OpenWait = 1
  None = None
  MaxAttempts <- Retries
  HasTimeout <- TwoCallers
INVARIANTS
  AttemptBudget
PROPERTIES
  RequestEnds
