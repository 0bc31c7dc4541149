------------------------------- MODULE V5Uuid --------------------------------
(***************************************************************************)
(* A whole version 5 call (go/internal/core/core.go, Xuuid_new_v5 and fn6):*)
(* V5Hash cuts and pads the message, Sha1 compresses each block as it is   *)
(* handed over, and the digest left in memory becomes the UUID.  V5Hash's  *)
(* symbolic bytes are given values here.                                   *)
(*                                                                         *)
(* The digest is compared with SHA-1 as FIPS 180-4 states it, computed     *)
(* beside it in the variable fips from the padded message: by the          *)
(* standard's alternate method (6.1.3: a queue of sixteen schedule words)  *)
(* with the standard's own forms of the mixing functions.                  *)
(***************************************************************************)
EXTENDS V5Hash

CONSTANTS
    NsBytes,   \* the namespace
    Text       \* a name of n bytes is the first n of this, repeated

(* SHA-1's block.                                                         *)
ASSUME BlockAssumption == Block = 64

VARIABLES
    phase, chain, held, todo, schedule, work,   \* Sha1
    handed,                                     \* blocks handed to it
    fips                                        \* history: the standard's computation

S == INSTANCE Sha1 WITH
        phase <- phase, chain <- chain, held <- held,
        todo <- todo, schedule <- schedule, work <- work

shaVars == <<phase, chain, held, todo, schedule, work>>
uuidVars == <<vars, shaVars, handed, fips>>

ByteOf(cell) ==
    CASE cell[1] = "num"  -> cell[2]
      [] cell[1] = "ns"   -> NsBytes[cell[2] + 1]
      [] cell[1] = "name" -> Text[(cell[2] % Len(Text)) + 1]

BitOf(v, b) == (v \div (2 ^ b)) % 2 = 1

(* A block as sixteen words loaded from memory, least significant octet    *)
(* first.                                                                  *)
WordsOf(block) ==
    [j \in 1 .. 16 |->
        { b \in S!Bits : BitOf(ByteOf(block[(4 * (j - 1)) + (b \div 8)]), b % 8) }]

-----------------------------------------------------------------------------
(* SHA-1 as FIPS 180-4 states it, round by round: h the hash so far, block *)
(* the block it is in, t the round, W the queue, v the working words.      *)

Not(x) == S!Bits \ x
Ch(x, y, z)  == S!Xor(S!And(x, y), S!And(Not(x), z))
Maj(x, y, z) == S!Xor(S!Xor(S!And(x, y), S!And(x, z)), S!And(y, z))
Par(x, y, z) == S!Xor(S!Xor(x, y), z)

(* Block j of the padded message of a name of n bytes, as sixteen words    *)
(* whose most significant octet comes first.                               *)
MessageWords(n, j) ==
    [s \in 0 .. 15 |->
        { b \in S!Bits :
            BitOf(ByteOf(PaddedByte(n, ((j - 1) * Block) + (4 * s) + 3 - (b \div 8))), b % 8) }]

FipsStart(n) == [h |-> S!H0, block |-> 1, t |-> 0, W |-> MessageWords(n, 1), v |-> S!H0]

(* The queue in round q.t: after the sixteenth its word gives way to one   *)
(* made of it and of three others.                                         *)
FipsQueue(q) ==
    LET s == q.t % 16
    IN  IF q.t < 16 THEN q.W
        ELSE [q.W EXCEPT ![s] =
                 S!RotateLeft(S!Xor(S!Xor(q.W[(s + 13) % 16], q.W[(s + 8) % 16]),
                                    S!Xor(q.W[(s + 2) % 16], q.W[s])), 1)]

FipsMix(t, x, y, z) ==
    IF t < 20 THEN Ch(x, y, z) ELSE IF t \in 40 .. 59 THEN Maj(x, y, z) ELSE Par(x, y, z)
FipsConst(t) ==
    IF t < 20 THEN S!K0 ELSE IF t < 40 THEN S!K1 ELSE IF t < 60 THEN S!K2 ELSE S!K3

FipsRound(q) ==
    LET W == FipsQueue(q)
        f == FipsMix(q.t, q.v[2], q.v[3], q.v[4])
        T == S!Add(S!Add(S!Add(S!Add(S!RotateLeft(q.v[1], 5), f), q.v[5]), FipsConst(q.t)),
                   W[q.t % 16])
    IN  [q EXCEPT !.t = @ + 1, !.W = W,
                  !.v = <<T, q.v[1], S!RotateLeft(q.v[2], 30), q.v[3], q.v[4]>>]

FipsBlockDone(n, q) ==
    LET h == [i \in 1 .. 5 |-> S!Add(q.h[i], q.v[i])]
    IN  [h |-> h, block |-> q.block + 1, t |-> 0, v |-> h,
         W |-> IF q.block < Padded(n) THEN MessageWords(n, q.block + 1) ELSE q.W]

-----------------------------------------------------------------------------
Waiting == phase = "idle" /\ handed = Len(fed)

Start ==
    /\ Waiting /\ Begin
    /\ chain' = S!H0 /\ handed' = 0 /\ fips' = FipsStart(len')
    /\ UNCHANGED <<phase, held, todo, schedule, work>>

(* The call goes on when the compression has returned.                     *)
Continue ==
    /\ Waiting
    /\ CopyHead \/ CompressBlocks \/ Mark \/ LastBlock \/ WriteUuid
    /\ UNCHANGED <<shaVars, handed, fips>>

(* The buffer is compressed by itself, the name's whole blocks together.   *)
HandOver ==
    LET k == IF handed = 0 THEN 1 ELSE Len(fed) - handed
    IN  /\ handed < Len(fed)
        /\ S!Call([j \in 1 .. k |-> WordsOf(fed[handed + j])])
        /\ handed' = handed + k
        /\ UNCHANGED <<vars, fips>>

Compress ==
    /\ S!Step
    /\ fips' = IF phase = "store" THEN fips
               ELSE IF fips.t < 80 THEN FipsRound(fips)
               ELSE FipsBlockDone(len, fips)
    /\ UNCHANGED <<vars, handed>>

UuidInit == Init /\ S!Init /\ handed = 0 /\ fips = FipsStart(0)
UuidNext == Start \/ Continue \/ HandOver \/ Compress
UuidSpec == UuidInit /\ [][UuidNext]_uuidVars

(* The octets the caller reads: a bit of the digest in memory, or one of   *)
(* the bits that replace it, in the places V5Hash puts them.               *)
OctetBit(o, b) ==
    \E d \in out[o][b] : d = One \/ d[2] \in chain[d[1] + 1]

-----------------------------------------------------------------------------
(***************************************************************************)
(* Properties.                                                             *)
(***************************************************************************)

(* The UUID is SHA-1's first sixteen octets of namespace and name, for     *)
(* every length of the name, with the version and variant set (RFC 9562,   *)
(* 5.5).                                                                   *)
UuidAsRfc ==
    out # NoUuid =>
        /\ fips.block = Padded(len) + 1
        /\ \A o \in 0 .. 15, b \in 0 .. 7 :
              OctetBit(o, b) <=>
                  CASE o = 6 /\ b \in 4 .. 7 -> b \in {4, 6}
                    [] o = 8 /\ b \in 6 .. 7 -> b = 7
                    [] OTHER -> (8 * (3 - (o % 4))) + b \in fips.h[(o \div 4) + 1]
=============================================================================
