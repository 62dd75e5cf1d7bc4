SPECIFICATION Spec
CONSTANTS
  i1 = i1
  i2 = i2
  i3 = i3
  t1 = t1
  t2 = t2
  Request <- MCRequest
  Instant <- MCInstant
  LastSeen <- MCLastSeen
  Faults <- CommitFaults
INVARIANT CreatedIsStored
