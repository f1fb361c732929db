SPECIFICATION Spec
CONSTANTS
    Worker = {w1, w2}
    Client = {c1, c2}
    NoStage = NoStage
    Stage <- MCStage
    Order <- MCOrder
    AwaitReview = "awaiting_human_review"
    Finalized = "finalized"
    Fallible <- MCFallible
    Blocking <- MCBlocking
    MaxRetries = 2
    Ops <- AllOps
    LeaseCoversWork = FALSE
    MaxCalls = 2
    MaxFaults = 1
CHECK_DEADLOCK FALSE
SYMMETRY Symmetry
INVARIANTS TypeOK InputsReady HumanGate DecisionRecorded Exclusive
PROPERTIES CompletedStays DecisionFinal ImplementsPipeline
