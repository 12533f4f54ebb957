SPECIFICATION Spec
CONSTANTS
    Tasks = {t1, t2, t3, t4}
    Uncloneable = {t4}
    Drainers = {d1}
    Size = 2
    MaxQueueDepth = 1
    None = none
SYMMETRY PoolSymmetry
INVARIANTS
    TypeOK
    QueuedOnlyWhenSaturated
    PendingIsQueuedOrRunning
    OneTaskPerThread
CHECK_DEADLOCK FALSE
