SPECIFICATION Spec
CONSTANTS
    Callers = {c1, c2, c3}
    BucketMs = 2
    BucketCount = 2
    RateNum = 1
    RateDen = 2
    MinimumThroughput = 2
    OpenMs = 3
    JitterWindow = 2
    HalfOpenProbes = 2
    HalfOpenSuccessThreshold = 2
    MaxTime = 7
    MaxPerSlice = 2
SYMMETRY CallerSymmetry
INVARIANTS
    TypeOK
    ProbeBudgetExact
    WindowIsRecentHistory
PROPERTIES
    StragglersDecideNothing
    PauseIsKept
    ClosedOpensOnEvidence
