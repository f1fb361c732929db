SPECIFICATION Spec
CONSTANTS
    Worker = {w1}
    Client = {c1}
    NoStage = NoStage
    Stage <- MCStage
    Order <- MCOrder
    AwaitReview = "awaiting_human_review"
    Finalized = "finalized"
    Fallible <- MCFallible
    Blocking <- MCBlocking
    MaxRetries = 2
    Ops <- CancelOps
    LeaseCoversWork = TRUE
    MaxCalls = 1
    MaxFaults = 0
CHECK_DEADLOCK FALSE
PROPERTY CancelFinal
