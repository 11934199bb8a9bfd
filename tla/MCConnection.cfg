SPECIFICATION FairSpec
CONSTANTS
    PoolSize = 2
    MaxWarmUp = 1
    Enough = 1
    MaxFailures = 2
    MaxTasks = 2
INVARIANTS
    TypeOK
PROPERTIES
    Recovers
    TradingStarts
    HealthyKept
