SPECIFICATION Spec
CONSTANTS
    MaxCalls = 1
    PoolSize = 2
    MaxPolls = 2
    MaxContracts = 1
    SignalSteps = 1
    Weight = {1}
    Exposure = {}
    Pace = "swift"
    Lossy = FALSE
PROPERTY NoCallbackAfterTimeout
