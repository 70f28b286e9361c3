SPECIFICATION FairSpec
CONSTANTS
    StageCount = 3
    MaxDeliveries = 2
    MaxErrors = 4
INVARIANTS
    CompletedAnswerIsWhole
    UnfinishedIsReplaced
PROPERTIES
    ProgressOnlyGrows
    OutcomeIsShown
ACTION_CONSTRAINT OneTroubleAtATime
CHECK_DEADLOCK FALSE
