SPECIFICATION Spec
CONSTANTS
    CapBits <- MCCap
    Values <- MCValues
    MaxTrail = 2
CHECK_DEADLOCK FALSE
INVARIANTS
    Reversible
    InspectsAlike
    SortsByCreation
    GuardsAgree
    CapExact
