SPECIFICATION PgSpec
CONSTANTS
    r1 = r1
    r2 = r2
    r3 = r3
    Requests <- MCRequests
    PrintOf <- MCPrintOf
    None = none
    Lease = 1
    Retention = 2
    MaxTime = 4
    ClaimAttempts = 2
SYMMETRY RetrySymmetry
INVARIANTS
    PgTypeOK
    NoOverlapUnderClaim
    ReplayIsRecordedResponse
    ContentionMeansChurn
PROPERTIES
    ImplementsProtocol
    NoRerunWithinRetention
CHECK_DEADLOCK FALSE
