SPECIFICATION Spec
CONSTANTS
  Pairs = 2
  NumOfVar = 2
  Slots = 3
  Blank = Blank
  None = None
  NoPage = NoPage
  a = a
  Data <- OneValue
  Addresses <- SecondPair
  Watched <- SecondPair
PROPERTY NothingForgotten
