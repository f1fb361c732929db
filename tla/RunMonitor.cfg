SPECIFICATION FairSpec
CONSTANTS
    MaxUploads = 1
    MaxTurns = 2
CHECK_DEADLOCK FALSE
INVARIANTS TypeOK
PROPERTIES ScreenResolves RetryPollEnds
