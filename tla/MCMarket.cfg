SPECIFICATION Spec
CONSTANTS
    Capacity = 3
    Fast = 1
    Slow = 2
    Period = 3
    Sd = 1
    Unit = 2
    Price = {2, 4, 7}
    MaxTime = 4
    MaxLate = 2
INVARIANTS
    TypeOK
    Contiguous
    PositionHasStop
    CrossNotMissed
    BackfillRestores
