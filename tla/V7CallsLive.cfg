SPECIFICATION FairSpec
CONSTANTS
    Steps = 5
    SeedSpan = 1
    StepSize = 1
    ClampWindow = 1
    DriftWindow = 1
    StreamLast = 1
    Cap = 2
    MaxBatch = 5
    Supplied = {1, 3}
    Counts = {3}
    g1 = g1
    g2 = g2
    s1 = s1
    s2 = s2
    Procs = {g1, g2}
    Primary = Primary
    Spares = {s1}
    NoProc = NoProc
    PageItems = 2
    HostPages = 3
    Builds = {"pool", "tinygo"}
    Kinds = {"v7", "v4", "stateless"}
    Counted = {"v7"}
    MaxCalls = 2
PROPERTY EveryCallReturns
