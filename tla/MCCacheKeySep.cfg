SPECIFICATION Spec
CONSTANTS
  Char <- MCChar
  Sep <- MCSep
  Text <- AnyText
  Stamp <- MCStamp
INVARIANT KeyUnique
