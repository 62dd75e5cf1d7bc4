SPECIFICATION FairSpec
CONSTANTS
  i1 = i1
  i2 = i2
  i3 = i3
  t1 = t1
  t2 = t2
  Request <- MCRequest
  Instant <- MCInstant
  LastSeen <- MCLastSeen
  Faults <- HandledFaults
INVARIANT TypeOK
INVARIANT RejectedNotStored
INVARIANT OneRowPerInstant
INVARIANT CreatedIsStored
INVARIANT WaitsEnd
PROPERTY ImplementsAtomicSave
PROPERTY Answered
