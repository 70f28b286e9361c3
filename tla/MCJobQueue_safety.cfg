SPECIFICATION QSpec
CONSTANTS
  Job = {j1, j2}
  Consumer = {c1, c2, c3}
  Mortal = {c1, c2}
  None = None
  MaxRetries = 2
  MaxSlow = 1
  CrashGaps = TRUE
SYMMETRY Symmetry
INVARIANTS AttemptsCounted RetryBudgetHonoured InFlightIsRecoverable ReapsOnlyTheDead
CHECK_DEADLOCK FALSE
