SPECIFICATION Spec
CONSTANTS
    Steps = 5
    SeedSpan = 1
    StepSize = 1
    ClampWindow = 1
    DriftWindow = 1
    StreamLast = 2
    Cap = 3
    MaxBatch = 5
    Supplied = {0, 1, 2, 3, 4}
    Counts = {3, 5, 6}
    g1 = g1
    g2 = g2
    s1 = s1
    s2 = s2
    Procs = {g1, g2}
    Primary = Primary
    Spares = {s1, s2}
    NoProc = NoProc
    PageItems = 2
    HostPages = 4
    Builds = {"pool", "tinygo"}
    Kinds = {"v7", "v4", "stateless", "one-off"}
    Counted = {"v7", "v4", "stateless", "one-off"}
    MaxCalls = 3
SYMMETRY Symmetry
INVARIANTS
    TypeOK
    Exclusive
    WordStable
    OwnResult
    RealTimeOrder
PROPERTY
    ImplementsStream
CHECK_DEADLOCK FALSE
