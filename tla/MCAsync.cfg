SPECIFICATION FairSpec
CONSTANTS
    MaxCalls = 2
    PoolSize = 2
    MaxPolls = 1
    MaxContracts = 1
    SignalSteps = 1
    Weight = {1}
    Exposure = {50, 100}
    Pace = "any"
    Lossy = TRUE
INVARIANTS
    OwnUntilTimeout ExposureAccounted
PROPERTIES
    TimelyTradeAnswerKept PassEnds
