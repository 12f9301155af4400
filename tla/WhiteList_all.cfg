SPECIFICATION Spec
VIEW WhatIsRead
CONSTANTS
  N = 3
  Bytes = {0, 1}
  Uids <- Ids
  Stack <- Ids
  None = None
INVARIANTS TypeOK SurvivesRestart NoDuplicates CountCoversUse
PROPERTY KeepsRecent
