SPECIFICATION Spec
CONSTANTS
  Run = {r1}
  Shapes <- ImageShape
  Fragile <- FewStages
  Overlap = FALSE
INVARIANT DegradationIsRecorded
CHECK_DEADLOCK FALSE
