SPECIFICATION Spec
CONSTANTS
  Run = {r1}
  Shapes <- TextShape
  Fragile <- EveryStage
  Overlap = FALSE
INVARIANT TransientIsRetried
CHECK_DEADLOCK FALSE
