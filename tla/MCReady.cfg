SPECIFICATION Spec
CONSTANTS
    PoolSize = 2
    MaxWarmUp = 2
    Enough = 1
    MaxFailures = 1
    MaxTasks = 2
PROPERTY OpensOnlyWhenReady
