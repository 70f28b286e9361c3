SPECIFICATION Spec
CONSTANTS
  r1 = r1
  r2 = r2
  Request = {r1, r2}
  Traffic <- TextAndImage
  Limit <- Budgets
  Window = 2
  LastSecond = 0
  MaxImageBytes = 1
  MaxVideoBytes = 2
  MaxImageDimension = 3
  MaxImagePixels = 5
  Files <- TwoFiles
  Circumstances <- CommitFirst
INVARIANT NoDanglingJob
CHECK_DEADLOCK FALSE
