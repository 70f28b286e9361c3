SPECIFICATION Spec
CONSTANTS
  Run = {r1, r2}
  Shapes <- TextShape
  Fragile <- FewStages
  Overlap = TRUE
INVARIANT FailureIsNotAVerdict
CHECK_DEADLOCK FALSE
