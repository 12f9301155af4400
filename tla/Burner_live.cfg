SPECIFICATION FairSpec
CONSTANTS
  Cards = {c1}
  NoCard = NoCard
  Blank = Blank
  Timeout <- ShortTimeout
  MaxWrites = 1
  Flashes = 1
  BufFrames = 1
  PassLag = 1
  ReadLag = 1
  MinAbsent = 2
PROPERTIES BurnIsReported BeepEnds

