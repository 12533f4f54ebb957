SPECIFICATION Spec
CONSTANTS
    Tasks = {t1, t2, t3, t4}
    Uncloneable = {t3, t4}
    Drainers = {d1}
    Size = 1
    MaxQueueDepth = 2
    None = none
PROPERTIES
    EveryCallSettles
    DrainCompletes
CHECK_DEADLOCK FALSE
