SPECIFICATION FairSpec
CONSTANTS
    BufSize = 3
    KeyBudget = 6
    KeyLifetime = 2
    Draws = {0, 2, 4, 8}
    MaxKeys = 3
    MaxTime = 3
INVARIANTS
    TypeOK
    NoByteTwice
    PureKeystream
    SuccessIsWhole
    BufferIsTail
PROPERTIES
    RetiredNeverServed
    BufferedWithinSuccessor
    DrawReturns
