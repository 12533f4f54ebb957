SPECIFICATION Spec
CONSTANTS
    Messages = {m1, m2}
    Relays = {a, b}
    Stoppable = {a}
    BatchSize = 2
    MaxBatches = 2
    MaxAttempts = 2
    MaxFaults = 1
INVARIANTS
    TypeOK
    ClaimsAreDisjoint
    FateMatchesHistory
    DuplicatesAreExplained
PROPERTIES
    EveryMessageSettles
