SPECIFICATION MintSpec
CONSTANT MaxCalls = 3
INVARIANTS
    LaidOut
CHECK_DEADLOCK FALSE
