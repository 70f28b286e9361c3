SPECIFICATION Spec
CONSTANTS
  Run = {r1, r2, r3}
  Shapes <- EveryShape
  Fragile <- FewStages
  Overlap = FALSE
SYMMETRY Symmetry
INVARIANTS FailureIsNotAVerdict CompletedIsWhole DegradedIsCapped
PROPERTIES DoneStagesStay FollowsLifecycle
CHECK_DEADLOCK FALSE
