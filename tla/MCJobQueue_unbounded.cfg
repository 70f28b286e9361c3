SPECIFICATION QSpec
CONSTANTS
  Job = {j1}
  Consumer = {c1, c2, c3}
  Mortal = {c1, c2}
  None = None
  MaxRetries = 2
  MaxSlow = 0
  CrashGaps = FALSE
INVARIANT BoundedRetries
CHECK_DEADLOCK FALSE
