SPECIFICATION ApiSpec
CONSTANTS
  Char <- MCChar
  Sep <- MCSep
  Text <- MCText
  Stamp <- MCStamp
  Absent = Absent
  Repeated = Repeated
  Garbled = Garbled
  Query <- MCQuery
  Format <- MCFormat
  DefaultFrom = 1
  DefaultTo = 3
INVARIANT TypeOK
INVARIANT KeyUnique
INVARIANT SharedAnswersAgree
INVARIANT StatusHonest
