SPECIFICATION Spec
CONSTANTS
  Report = {a, b, c}
  Publishers <- TwoPublishers
  Texts <- FewTexts
  Claims <- FewClaims
  MAX_FETCHES = 3
  MaxWork = 4
  MaxDocuments = 3
  MaxClaims = 3
SYMMETRY Symmetry
INVARIANTS RefutingIsNoHarder WeakestClaimDecides RestatingNeverRefutes
PROPERTIES CopiesAddNoOrigin SupportNeverHurts
CHECK_DEADLOCK FALSE
