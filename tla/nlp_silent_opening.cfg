SPECIFICATION MCSpec
CONSTANTS
  Releases <- MCReleases
  Requests <- MCRequests
  Windows <- SilentOpening
  Typings <- MCTypings
  Chains <- MCChains
  CorefMode = "all"
  MaxSubwords = 7
  MarkerBudget = 16
  TextLength = 0
  TurnLength = 0
  MaxWords = 2
INVARIANTS
  MarkersOpenOwnTurns
CHECK_DEADLOCK FALSE
