SPECIFICATION WorkerSpec
CONSTANTS
  Job = {j1}
  Consumer = {c1, c2, c3}
  Mortal = {c1, c2}
  None = None
  MaxRetries = 2
  MaxSlow = 1
  CrashGaps = TRUE
SYMMETRY Symmetry
INVARIANTS LockGuardsRun NoOverlap
CHECK_DEADLOCK FALSE
