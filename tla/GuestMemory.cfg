SPECIFICATION Spec
CONSTANTS
    PageSize = 16
    WasmPages = 16
    MaxInt = 127
    MaxInt32 = 127
    NameOffset = 4
    UuidSize = 2
    MaxBatch = 32
    Primary = Primary
    s1 = s1
    Spares = {s1}
    Names <- AllNames
    Counts <- AllCounts
INVARIANTS
    NameLimitExact
    BatchFits
    NothingRetained
