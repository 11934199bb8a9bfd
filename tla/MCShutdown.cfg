SPECIFICATION FairSpec
CONSTANTS
    Thread = {t1, t2}
    Function = {"open", "OHLC"}
    MaxPushed = 3
    MaxReconnects = 1
INVARIANTS
    TypeOK WorkConserving QueueServed
PROPERTIES
    PushedRuns QuitEnds
