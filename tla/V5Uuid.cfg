SPECIFICATION UuidSpec
CONSTANTS
    Block = 64
    NsSize = 16
    LenSize = 8
    Radix = 256
    ByteBits = 8
    Lengths <- MCLengths
    NsBytes <- Dns
    Text <- Www
INVARIANTS
    UuidAsRfc
