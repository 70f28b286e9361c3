SPECIFICATION WorkerSpec
CONSTANTS
  Job = {j1}
  Consumer = {c1, c2}
  Mortal = {}
  None = None
  MaxRetries = 2
  MaxSlow = 1
  CrashGaps = FALSE
INVARIANT NeverConcurrent
CHECK_DEADLOCK FALSE
