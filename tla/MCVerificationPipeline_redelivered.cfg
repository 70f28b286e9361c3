SPECIFICATION Spec
CONSTANTS
  Run = {r1, r2}
  Shapes <- UrlShape
  Fragile <- FewStages
  Overlap = FALSE
PROPERTY CompletedResultStays
CHECK_DEADLOCK FALSE
