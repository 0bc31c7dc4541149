SPECIFICATION Spec
CONSTANTS
    Steps = 4
    SeedSpan = 2
    StepSize = 2
    ClampWindow = 3
    DriftWindow = 1
    StreamLast = 4
    Cap = 5
    MaxBatch = 8
    Supplied = {0, 5}
    Counts = {0, 1, 2, 3, 5, 9}
    ChunkSize = 9
INVARIANTS
    TailsIntact
    DestinationExact
    SeedApart
    NeverTraps
