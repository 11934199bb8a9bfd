SPECIFICATION Spec
CONSTANTS
    MaxCalls = 2
    PoolSize = 2
    MaxPolls = 1
    MaxContracts = 1
    SignalSteps = 1
    Weight = {1}
    Exposure = {}
    Pace = "prompt"
    Lossy = FALSE
PROPERTY DiscontinueAfterFailedClose
