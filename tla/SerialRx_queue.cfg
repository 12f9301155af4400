SPECIFICATION Spec
CONSTANTS
  Requests <- TwoDepths
  Slots = 2
  SlotLen = 4
  MaxDamaged = 2
INVARIANT TypeOK
PROPERTIES QueueSpec RestAfterPause
