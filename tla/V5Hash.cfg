SPECIFICATION Spec
CONSTANTS
    Block = 8
    NsSize = 2
    LenSize = 5
    Radix = 4
    ByteBits = 2
    Lengths <- AllLengths
INVARIANTS
    FedAsPadded
    UuidFromDigest
