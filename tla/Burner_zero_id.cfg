SPECIFICATION Spec
CONSTANTS
  Cards = {c1}
  NoCard = NoCard
  Blank = Blank
  Timeout <- ShortTimeout
  MaxWrites = 2
  Flashes = 1
  BufFrames = 1
  PassLag = 1
  ReadLag = 2
  MinAbsent = 2
PROPERTY NoZeroIdReported

