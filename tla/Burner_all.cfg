SPECIFICATION Spec
CONSTANTS
  Cards = {c1, c2}
  NoCard = NoCard
  Blank = Blank
  Timeout <- ShortTimeout
  MaxWrites = 2
  Flashes = 1
  BufFrames = 1
  PassLag = 1
  ReadLag = 4
  MinAbsent = 2
INVARIANTS TypeOK SilentWhenStopped BeepHasTimer OnlyOwnIdentity
PROPERTIES BurnNeedsPowerCycle ReportMatchesHeard ListenFullWindow CycleSpec
SYMMETRY CardSymmetry
