SPECIFICATION Spec
CONSTANT
    Conns = {k1, k2, k3}
INVARIANTS
    TypeOK
    CleanExitCutsNothing
    PoolOutlivesItsUsers
PROPERTIES
    GuardFollowsListener
    DrainNeedsNoDeadline
    SignalEndsProcess
CHECK_DEADLOCK FALSE
