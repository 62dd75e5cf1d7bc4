SPECIFICATION Spec
CONSTANTS
  r1 = r1
  r2 = r2
  u1 = u1
  Prefetcher = Prefetcher
  Everything = Everything
  Last30 = Last30
  ThisMonth = Last30
  Unbounded = Unbounded
  Record <- NoRecord
  User <- MCUser
  Selection <- MCSelection
  UserSelection <- DefaultOnly
  Matching <- MCMatching
  ExplicitTo <- NoExplicitTo
  TTL = 3
  RoundPeriod = 6
  MaxLatency = 1
  LastSeen <- Three
  StartTime = 3
  MaxTime = 10
  Faults <- NoFaults
INVARIANT SummaryRefreshed
