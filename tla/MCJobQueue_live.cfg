SPECIFICATION FairQSpec
CONSTANTS
  Job = {j1}
  Consumer = {c1, c2, c3}
  Mortal = {c1, c2}
  None = None
  MaxRetries = 2
  MaxSlow = 1
  CrashGaps = FALSE
PROPERTIES ImplementsAtLeastOnce EventuallySettled ReaperEmptiesDeadLists
CHECK_DEADLOCK FALSE
