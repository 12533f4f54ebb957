SPECIFICATION Spec
CONSTANTS
    Workers = {a, b}
    MaxEntries = 3
    MaxLen = 2
    Undecodable = {3}
    BatchSize = 2
    ClaimBatchSize = 2
    HandlerTimeout = 1
    MinIdle = 2
    MaxDeliveries = 2
    MaxFaults = 1
    None = None
    a = a
    b = b
INVARIANTS
    TypeOK
    NothingLost
    SharedRunNeedsStall
    ParkedOnlyAtCeiling
PROPERTIES
    EveryPendingEntryLeaves
