SPECIFICATION Spec
CONSTANTS
  Periods = {p1, p2}
  Full = 4
  LastRetry = 6
  MaxStarts = 3
  MaxDips = 3
INVARIANTS TypeOK SuccessIsWhole FailureIsReal
PROPERTIES WearIsNeeded CallReturns
