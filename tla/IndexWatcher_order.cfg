CONSTANTS
    FileCount = 2
    PoolWorkers = 1
    MaxChanges = 3
    MaxMishaps = 1
SPECIFICATION IndexFairSpec
CHECK_DEADLOCK FALSE
INVARIANTS
    WatcherCatchesUp
