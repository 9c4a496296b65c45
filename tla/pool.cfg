CONSTANTS
    NumWorkers = 2
    STEAL_ATTEMPTS = 1
    Task = {t1, t2, t3, t4}
    Root = t1
    NoTask = none
    HwThreads = 2
SPECIFICATION PoolFairSpec
PROPERTY EveryTaskHandled
PROPERTY DestructorReturns
INVARIANT PoolTypeOK
INVARIANT NoTaskLost
INVARIANT NoTaskTwice
INVARIANT SleepersOweNothing
INVARIANT RoundReachesAll
INVARIANT JoinedIsDrained
