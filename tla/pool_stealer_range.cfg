CONSTANTS
    NumWorkers = 3
    STEAL_ATTEMPTS = 1
    Task = {t1, t2}
    Root = t1
    NoTask = none
    HwThreads = 2
SPECIFICATION PoolSpec
INVARIANT StealerIdInRange
CHECK_DEADLOCK FALSE
