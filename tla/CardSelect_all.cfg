SPECIFICATION Spec
CONSTANTS
  short1 = short1
  short2 = short2
  long1 = long1
  long2 = long2
  prefix = prefix
  Cards <- MCCards
  Double <- MCDouble
  Prefix <- MCPrefix
  None = None
  Garbled = Garbled
  MaxFaults = 2
INVARIANTS TypeOK IdentityIsWhole
PROPERTY AloneIsSelected
