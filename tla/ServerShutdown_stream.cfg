SPECIFICATION Spec
CONSTANT
    Conns = {k1, k2}
INVARIANT
    DrainMeetsNoStream
CHECK_DEADLOCK FALSE
