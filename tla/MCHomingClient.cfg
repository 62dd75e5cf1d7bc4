SPECIFICATION FairSpec
CONSTANTS
  SleepTime = 5
  BackOff = 2
  StopWait = 1
  MaxExchange = 2
  Faults <- EveryFault
INVARIANT TypeOK
INVARIANT FreshReports
INVARIANT SilentAfterStop
INVARIANT StopsInTime
PROPERTY AcksSpaced
PROPERTY RowsSpaced
PROPERTY StopHeard
PROPERTY ReportsArrive
