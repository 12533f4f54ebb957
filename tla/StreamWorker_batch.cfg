SPECIFICATION Spec
CONSTANTS
    Workers = {a, b}
    MaxEntries = 2
    MaxLen = 2
    Undecodable = {}
    BatchSize = 2
    ClaimBatchSize = 2
    HandlerTimeout = 1
    MinIdle = 2
    MaxDeliveries = 2
    MaxFaults = 0
    None = None
    a = a
    b = b
SYMMETRY WorkerSymmetry
INVARIANTS
    NoConcurrentRuns
