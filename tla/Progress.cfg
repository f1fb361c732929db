SPECIFICATION FairSpec
CONSTANTS
    Worker = {w1, w2}
    Client = {c1}
    NoStage = NoStage
    Stage <- MCStage
    Order <- MCOrder
    AwaitReview = "awaiting_human_review"
    Finalized = "finalized"
    Fallible <- MCFallible
    Blocking <- MCBlocking
    MaxRetries = 2
    Ops <- RetryOps
    LeaseCoversWork = TRUE
    MaxCalls = 2
    MaxFaults = 1
CHECK_DEADLOCK FALSE
PROPERTY Progress
