SPECIFICATION Spec
CONSTANTS
  a1 = a1
  a2 = a2
  a3 = a3
  se = se
  fr = fr
  AnyCountry = AnyCountry
  Absent = Absent
  Unbounded = Unbounded
  Address <- MCAddress
  Country <- MCCountry
  Limit = 1
  Span = 2
  RoundPeriod = 2
  Retention = 2
  MaxStamp = 3
  MaxTime = 4
  Explicit <- MCExplicit
INVARIANT TypeOK
INVARIANT WalkComplete
INVARIANT RepeatsPaid
INVARIANT TotalCounts
SYMMETRY MCSymmetry
CHECK_DEADLOCK FALSE
