SPECIFICATION FairQSpec
CONSTANTS
  Job = {j1}
  Consumer = {c1, c2}
  Mortal = {c1}
  None = None
  MaxRetries = 2
  MaxSlow = 0
  CrashGaps = TRUE
PROPERTY ReaperEmptiesDeadLists
CHECK_DEADLOCK FALSE
