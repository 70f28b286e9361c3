SPECIFICATION Spec
CONSTANTS
  Run = {r1, r2}
  Shapes <- TextShape
  Fragile <- FewStages
  Overlap = FALSE
INVARIANT ResumedRunHasItsClaims
CHECK_DEADLOCK FALSE
