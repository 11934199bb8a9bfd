SPECIFICATION PromptSpec
CONSTANTS
    MaxCalls = 3
    PoolSize = 2
    MaxPolls = 2
    MaxContracts = 2
    SignalSteps = 2
    Weight = {1, 2}
    Exposure = {}
    Pace = "prompt"
    Lossy = FALSE
INVARIANTS
    TypeOK
    NetWithinMax
    NoOrphanOrder
    OwnAnswer
    EarlyStopMeansFilled
    CancelOnlyAfterDeadline
PROPERTIES
    KeepsPromise
    PoolThreadReleased
