CONSTANTS
    TaskCounts <- MCTaskCounts
    ThreadCounts <- MCThreadCounts
    MayThrow <- MCMayThrow
    MayHang <- MCMayHang
    AsyncMayThrow = TRUE
SPECIFICATION FairSpec
INVARIANTS
    TypeOK
    AtMostThreads
    EveryTaskAccounted
    EveryFutureBusy
    NoWorkerOutlives
    SerialKeepsOrder
PROPERTIES
    CallEnds
    StuckTakesOneThread
    ImplementsTaskPool
CHECK_DEADLOCK FALSE
