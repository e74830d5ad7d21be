SPECIFICATION FairSpec
CONSTANTS
  c1 = c1
  c2 = c2
  c3 = c3
  Callers <- MCCallers
  FailureThreshold <- MCFailureThreshold
  OpenWait <- MCOpenWait
  None = None
INVARIANTS
  SingleProbe
PROPERTIES
  OpensOnConsecutiveFailures
  ImplementsProtocol
  BreakerRecovers
