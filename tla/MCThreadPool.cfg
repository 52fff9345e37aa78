SPECIFICATION MCSpec
CONSTANTS
    Threads = {t1, t2, t3, t4}
    CORE_POOL_SIZE = 2
    MaxTasks = 4
    MaxSpawnFailures = 1
    TimeoutsFire = TRUE
 
PROPERTIES ImplementsService BusyPoolProceeds
