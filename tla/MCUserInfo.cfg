SPECIFICATION Spec
CONSTANTS
    MaxCalls = 4
    PoolSize = 2
INVARIANTS
    TypeOK OwnInfo FrameAlive
PROPERTIES
    TimelyInfoKept
CHECK_DEADLOCK FALSE
