SPECIFICATION Spec
CONSTANTS
  Pairs = 1
  NumOfVar = 2
  Slots = 4
  Blank = Blank
  None = None
  NoPage = NoPage
  a = a
  Data <- Values
  Addresses <- FirstPair
  Watched <- FirstPair
INVARIANTS TypeOK KnownGood CallsSucceed
PROPERTIES KeepsPromise
