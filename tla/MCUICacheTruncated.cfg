SPECIFICATION Spec
CONSTANTS
  r1 = r1
  r2 = r2
  u1 = u1
  Prefetcher = Prefetcher
  Everything = Everything
  Last30 = Last30
  ThisMonth = Last30
  Unbounded = Unbounded
  Record <- MCRecord
  User <- MCUser
  Selection <- MCSelection
  UserSelection <- DefaultOnly
  Matching <- MCMatching
  ExplicitTo <- NoExplicitTo
  TTL = 1
  RoundPeriod = 3
  MaxLatency = 1
  LastSeen <- Three
  StartTime = 2
  MaxTime = 3
  Faults <- TruncatingFaults
INVARIANT AnswersAreSnapshots
