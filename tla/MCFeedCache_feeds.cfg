SPECIFICATION Spec
CONSTANTS
    Feed = {"f1", "f2"}
    Page = {"p1", "p2", "p3"}
    Claim = {"c1", "c2"}
    Entries <- MCEntries
    Archive = {"p2"}
    FeedsOf <- MCFeedsOf
    Canonical <- MCCanonical
    TitleScore <- MCTitleScore
    BodyScore <- MCBodyScore
    TTL = 2
    MinTitle = 12
    MinScore = 12
    Limit = 3
    MaxFetches = 1
    MaxTime = 3
    MaxVerifications = 2
    MaxClaims = 2
INVARIANTS
    MostRelevantAreRead
    ResultsAreFresh
CHECK_DEADLOCK FALSE
