SPECIFICATION FairSpec
CONSTANTS
  r1 = r1
  r2 = r2
  Request <- MCRequest
  Faults <- EveryFault
INVARIANT TypeOK
INVARIANT GracefulExit
INVARIANT SchemaComplete
INVARIANT MigrationsApply
INVARIANT StopGoesOn
PROPERTY StopsOnSignal
PROPERTY FailureEnds
PROPERTY ComesUp
