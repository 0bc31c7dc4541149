SPECIFICATION DoorsSpec
CONSTANTS
    Steps = 2
    SeedSpan = 2
    StepSize = 1
    ClampWindow = 1
    DriftWindow = 1
    StreamLast = 1
    Cap = 2
    MaxBatch = 2
    Supplied <- AllSupplied
    Counts <- AllCounts
    Width32 = 4
    Width64 = 16
    Ticks = 2
    UuidSize = 2
    Clocks <- AllClocks
    Instants <- AllInstants
    Sizes <- AllSizes
    Lengths <- AllLengths
    MaxLog = 3
CONSTRAINT Fresh
INVARIANTS
    ErrorsExact
    AllOrNothing
