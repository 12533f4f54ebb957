SPECIFICATION Spec
CONSTANTS
    Callers = {c1, c2, c3}
    BucketMs = 2
    BucketCount = 2
    RateNum = 1
    RateDen = 2
    MinimumThroughput = 1
    OpenMs = 2
    JitterWindow = 1
    HalfOpenProbes = 2
    HalfOpenSuccessThreshold = 1
    MaxTime = 6
    MaxPerSlice = 2
SYMMETRY CallerSymmetry
PROPERTIES
    SiblingProbeDrivesNothing
