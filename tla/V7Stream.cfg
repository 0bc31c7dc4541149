SPECIFICATION Spec
CONSTANTS
    Steps = 4
    SeedSpan = 2
    StepSize = 2
    ClampWindow = 3
    DriftWindow = 1
    StreamLast = 4
    Cap = 5
    MaxBatch = 8
    Supplied = {0, 1, 2, 3, 4, 5, 6}
    Counts <- MCCounts
    MaxLog = 3
CONSTRAINT LogBound
INVARIANTS
    TypeOK
    StreamNearNewest
    StrictlyIncreasing
    EmbeddedNearSupplied
    StepsAccounted
    CapacityBeforeExhaustion
PROPERTY OrderedWithinTenSeconds
