SPECIFICATION FairSpec
CONSTANTS
  Requests <- OnlyQuoted
  Slots = 2
  SlotLen = 5
  MaxDamaged = 1
PROPERTIES RequestReceived ReceptionEnds
