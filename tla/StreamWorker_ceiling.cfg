SPECIFICATION Spec
CONSTANTS
    Workers = {a, b}
    MaxEntries = 1
    MaxLen = 1
    Undecodable = {}
    BatchSize = 2
    ClaimBatchSize = 2
    HandlerTimeout = 1
    MinIdle = 3
    MaxDeliveries = 2
    MaxFaults = 2
    None = None
    a = a
    b = b
SYMMETRY WorkerSymmetry
INVARIANTS
    ParkedInsteadOfRun
