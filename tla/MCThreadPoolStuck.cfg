SPECIFICATION MCSpec
CONSTANTS
    Threads = {t1, t2, t3, t4}
    CORE_POOL_SIZE = 1
    MaxTasks = 4
    MaxSpawnFailures = 0
    TimeoutsFire = TRUE
PROPERTY AcceptLoopProceeds
