SPECIFICATION Spec
CONSTANTS
  r1 = r1
  r2 = r2
  u1 = u1
  Prefetcher = Prefetcher
  Everything = Everything
  Last30 = Last30
  ThisMonth = Last30
  Unbounded = Unbounded
  Record <- MCRecord
  User <- MCUser
  Selection <- MCSelection
  UserSelection <- AllOnly
  Matching <- MCMatching
  ExplicitTo <- ZeroTo
  TTL = 1
  RoundPeriod = 3
  MaxLatency = 0
  LastSeen <- Four
  StartTime = 3
  MaxTime = 4
  Faults <- CacheFaults
INVARIANT NoForeignRows
INVARIANT AnswersAreSnapshots
PROPERTY ImplementsStaleView
