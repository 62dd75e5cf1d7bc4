SPECIFICATION FairSpec
CONSTANTS
  r1 = r1
  r2 = r2
  Request <- MCRequest
  Faults <- EveryFault
PROPERTY FailureRestarted
