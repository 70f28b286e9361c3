SPECIFICATION Spec
CONSTANTS
  Report = {a, b, c}
  Publishers <- TwoPublishers
  Texts <- FewTexts
  Claims <- FewClaims
  MAX_FETCHES = 1
  MaxWork = 5
  MaxDocuments = 3
  MaxClaims = 1
SYMMETRY Symmetry
INVARIANT FetchesAreCapped
CHECK_DEADLOCK FALSE
