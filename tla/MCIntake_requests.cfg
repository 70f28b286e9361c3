SPECIFICATION Spec
CONSTANTS
  r1 = r1
  r2 = r2
  Request = {r1, r2}
  Traffic <- MixedTraffic
  Limit <- Budgets
  Window = 2
  LastSecond = 2
  MaxImageBytes = 1
  MaxVideoBytes = 2
  MaxImageDimension = 3
  MaxImagePixels = 5
  Files <- SomeFiles
  Circumstances <- AnyCircumstance
INVARIANTS RecordIsBacked AcceptedIsStored StoredIsChecked LimitHolds RetryIsWorthIt
ACTION_CONSTRAINT Separately
CHECK_DEADLOCK FALSE
