SPECIFICATION Spec
CONSTANTS
    Callers = {c1, c2, c3, c4, c5}
    MaxConcurrent = 2
    MaxQueue = 2
INVARIANTS
    TypeOK
    CountIsPermitsOut
    QueuedOnlyWhenSaturated
    QueueIsPendingCallers
PROPERTIES
    FifoAdmission
    EveryWaiterLeaves
