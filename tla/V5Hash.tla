------------------------------- MODULE V5Hash -------------------------------
(***************************************************************************)
(* Version 5 of the core (go/internal/core/core.go, Xuuid_new_v5): how the *)
(* namespace and the name are cut into the blocks SHA-1 compresses, how    *)
(* the last ones are padded, and how the digest becomes a UUID.            *)
(*                                                                         *)
(* Only one block of the message is ever assembled, in a buffer on the     *)
(* guest's stack that earlier calls have left full of their own bytes; the *)
(* name's whole blocks are compressed where they lie.  A byte says where   *)
(* it came from, so the blocks fed to the compression can be compared with *)
(* the padding of FIPS 180-4 byte by byte.  The compression itself is in   *)
(* Sha1, the two together in V5Uuid; here it is the sequence of blocks it  *)
(* was given.                                                              *)
(***************************************************************************)
EXTENDS Integers, Sequences

CONSTANTS
    Block,      \* bytes to a block                       (64)
    NsSize,     \* bytes of a namespace                   (16)
    LenSize,    \* bytes of the message length            (8)
    Radix,      \* values of a byte                       (256)
    ByteBits,   \* bits in a byte                         (8)
    Lengths     \* lengths of the names callers pass      (up to MaxV5Name)

ASSUME SizesAssumption ==
    /\ Block \in Nat /\ NsSize \in Nat \ {0} /\ LenSize \in Nat
    /\ LenSize >= 5 /\ LenSize < Block /\ NsSize < Block
    /\ Radix \in Nat \ {0} /\ ByteBits \in Nat \ {0} /\ Radix % ByteBits = 0

(* A message is shorter than 2^32 bytes.                                   *)
ASSUME LengthsAssumption ==
    /\ Lengths \subseteq Nat
    /\ \A n \in Lengths : ((n + NsSize) \div (Radix * Radix)) \div Radix < Radix

Places == 0 .. Block - 1
Junk == <<"junk", 0>>
Num(v) == <<"num", v>>
Ns(i) == <<"ns", i>>
Name(i) == <<"name", i>>

VARIABLES
    at,      \* the next step of the call
    len,     \* the name's length
    buf,     \* the block buffer on the guest's stack
    used,    \* bytes of the message's tail in it
    fed,     \* the blocks compressed so far
    out      \* the UUID written

vars == <<at, len, buf, used, fed, out>>

Goes(from, to) == at = from /\ at' = to

Zeros == [p \in Places |-> Num(0)]

(* Bytes from .. from + n - 1 of the name, at place p of the buffer b.     *)
Copied(b, p, from, n) ==
    [q \in Places |-> IF q \in p .. p + n - 1 THEN Name(from + q - p) ELSE b[q]]

(* The k blocks of the name that begin at its byte from.                   *)
NameBlocks(from, k) ==
    [j \in 1 .. k |-> [p \in Places |-> Name(from + ((j - 1) * Block) + p)]]

-----------------------------------------------------------------------------
(* The bit length of a message of t bytes, t kept in 32 bits: byte j of    *)
(* it, counted from the last.                                              *)

(* Mutant: the length is taken as 32 bits. *)
LengthByteWord(t, j) ==
    CASE j = 0 -> (t % (Radix \div ByteBits)) * ByteBits
      [] j = 1 -> (t \div (Radix \div ByteBits)) % Radix
      [] j = 2 -> (t \div ((Radix \div ByteBits) * Radix)) % Radix
      [] j = 3 -> (t \div ((Radix \div ByteBits) * Radix * Radix)) % Radix
      [] OTHER -> 0
LengthByte(t, j) ==
    CASE j = 0 -> (t % (Radix \div ByteBits)) * ByteBits
      [] j = 1 -> (t \div (Radix \div ByteBits)) % Radix
      [] j = 2 -> (t \div ((Radix \div ByteBits) * Radix)) % Radix
      [] j = 3 -> (t \div ((Radix \div ByteBits) * Radix * Radix)) % Radix
      [] j = 4 -> ((t \div ((Radix \div ByteBits) * Radix * Radix)) \div Radix) % ByteBits
      [] OTHER -> 0

MessageSize(n) == n + NsSize

-----------------------------------------------------------------------------
(* The digest's words become the UUID's octets.  A word is 32 bits, each   *)
(* the set of digest bits XORed into it; <<w, b>> is bit b of word w, and  *)
(* One a bit that is set.                                                 *)

One == <<-1, 0>>
Word(w) == [b \in 0 .. 31 |-> {<<w, b>>}]
Xor(x, y) == [b \in 0 .. 31 |-> (x[b] \cup y[b]) \ (x[b] \cap y[b])]
RotateRight(x, k) == [b \in 0 .. 31 |-> x[(b + k) % 32]]
ShiftRight(x, k) == [b \in 0 .. 31 |-> IF b + k <= 31 THEN x[b + k] ELSE {}]
Keep(x, bits) == [b \in 0 .. 31 |-> IF b \in bits THEN x[b] ELSE {}]
SetBits(x, bits) == [b \in 0 .. 31 |-> IF b \in bits THEN {One} ELSE x[b]]

(* Mutant: the byte swap rotates the other way. *)
SwapBytesBack(x) ==
    Xor(ShiftRight(Keep(Xor(x, RotateRight(x, 16)), (8 .. 15) \cup (24 .. 31)), 8),
        RotateRight(x, 24))
(* A word the stack holds, as a big-endian store leaves it.                *)
SwapBytes(x) ==
    Xor(ShiftRight(Keep(Xor(x, RotateRight(x, 16)), (8 .. 15) \cup (24 .. 31)), 8),
        RotateRight(x, 8))

(* The version is stamped on word 1, the variant on word 2.                *)
Marked(w) ==
    CASE w = 1 -> SetBits(Keep(Word(1), (0 .. 31) \ (12 .. 15)), {12, 14})
      [] w = 2 -> SetBits(Keep(Word(2), 0 .. 29), {31})
      [] OTHER -> Word(w)

(* Octet o as eight bits: words are stored least significant octet first.  *)
Octets ==
    [o \in 0 .. 15 |-> [b \in 0 .. 7 |-> SwapBytes(Marked(o \div 4))[(8 * (o % 4)) + b]]]

NoUuid == <<>>

-----------------------------------------------------------------------------
Init ==
    /\ at = "idle" /\ len = 0
    /\ buf = [p \in Places |-> Junk]
    /\ used = 0 /\ fed = <<>> /\ out = NoUuid

(* The namespace, and zeros where the name will go.                        *)
Begin ==
    /\ Goes("idle", "head")
    /\ \E n \in Lengths : len' = n
    /\ buf' = [p \in Places |-> IF p < NsSize THEN Ns(p) ELSE Num(0)]
    /\ used' = 0 /\ fed' = <<>> /\ out' = NoUuid

(* As much of the name as the first block holds.                           *)
HeadSize == IF len < Block - NsSize THEN len ELSE Block - NsSize

CopyHead ==
    /\ Goes("head", IF HeadSize + NsSize = Block THEN "blocks" ELSE "mark")
    /\ buf' = Copied(buf, NsSize, 0, HeadSize)
    /\ used' = HeadSize + NsSize
    /\ UNCHANGED <<len, fed, out>>

(* The full first block and every whole block after it are compressed; the *)
(* name's tail is copied into the cleared buffer.  The name is shorter     *)
(* than 2^31, so masking its rest to whole blocks loses no sign.           *)
CompressBlocks ==
    LET rest == len - HeadSize
        tail == rest % Block
    IN  /\ Goes("blocks", "mark")
        /\ fed' = fed \o <<buf>> \o NameBlocks(HeadSize, rest \div Block)
        /\ buf' = Copied(Zeros, 0, HeadSize + (rest - tail), tail)
        /\ used' = tail
        /\ UNCHANGED <<len, out>>

(* Mutant: a tail that leaves just too little room is not seen. *)
NoRoomOffByOne(u) == u > Block - LenSize
(* The mark's place is past where the length goes.                         *)
NoRoom(u) == u >= Block - LenSize

(* The mark after the message; the block goes off now when the length no   *)
(* longer fits behind it, and the buffer is cleared up to the length.      *)
Mark ==
    LET marked == [buf EXCEPT ![used] = Num(128)]
    IN  /\ Goes("mark", "length")
        /\ IF NoRoom(used)
           THEN /\ fed' = Append(fed, marked)
                /\ buf' = [p \in Places |-> IF p < Block - LenSize THEN Num(0) ELSE marked[p]]
           ELSE buf' = marked /\ UNCHANGED fed
        /\ UNCHANGED <<len, used, out>>

(* The length, and the last block.                                         *)
LastBlock ==
    LET filled == [p \in Places |->
                      IF p >= Block - LenSize
                      THEN Num(LengthByte(MessageSize(len), Block - 1 - p))
                      ELSE buf[p]]
    IN  /\ Goes("length", "digest")
        /\ buf' = filled
        /\ fed' = Append(fed, filled)
        /\ UNCHANGED <<len, used, out>>

(* The UUID is written and the frame left as it is for the next call.      *)
WriteUuid ==
    /\ Goes("digest", "idle")
    /\ out' = Octets
    /\ UNCHANGED <<len, buf, used, fed>>

Next ==
    \/ Begin \/ CopyHead \/ CompressBlocks \/ Mark \/ LastBlock \/ WriteUuid

Spec == Init /\ [][Next]_vars

-----------------------------------------------------------------------------
(***************************************************************************)
(* Properties.                                                             *)
(***************************************************************************)

(* FIPS 180-4, 5.1.1: the message, one bit, zeros, and the bit length in   *)
(* the last bytes of the least number of blocks.                           *)
Padded(n) == (n + NsSize + 1 + LenSize + Block - 1) \div Block

(* The bit length of a message of total bytes, j bytes further up.         *)
Shifted(total) ==
    LET shifted[j \in 0 .. LenSize - 1] ==
            IF j = 0 THEN total * ByteBits ELSE shifted[j - 1] \div Radix
    IN  shifted

PaddedByte(n, p) ==
    LET total == n + NsSize
        size  == Padded(n) * Block
    IN  IF p < NsSize THEN Ns(p)
        ELSE IF p < total THEN Name(p - NsSize)
        ELSE IF p = total THEN Num(128)
        ELSE IF p < size - LenSize THEN Num(0)
        ELSE Num(Shifted(total)[size - 1 - p] % Radix)

(* The blocks compressed are those of the padded message, in order, and    *)
(* when the UUID is made all of them: it depends on the namespace and the  *)
(* name alone, whatever length the name has and whatever an earlier call   *)
(* left on the stack.  (uuidgen.go, NewV5: the same pair always produces   *)
(* the same UUID.)                                                         *)
FedAsPadded ==
    /\ Len(fed) <= Padded(len)
    /\ \A j \in 1 .. Len(fed) : \A p \in Places :
          fed[j][p] = PaddedByte(len, ((j - 1) * Block) + p)
    /\ at = "digest" => Len(fed) = Padded(len)

(* The UUID is the digest's first sixteen octets, most significant first,  *)
(* with six bits replaced: version 5 and the RFC variant.                  *)
UuidFromDigest ==
    out # NoUuid =>
        \A o \in 0 .. 15, b \in 0 .. 7 :
            out[o][b] =
                CASE o = 6 /\ b \in {4, 6}   -> {One}
                  [] o = 6 /\ b \in {5, 7}   -> {}
                  [] o = 8 /\ b = 7          -> {One}
                  [] o = 8 /\ b = 6          -> {}
                  [] OTHER -> {<<o \div 4, (8 * (3 - (o % 4))) + b>>}
=============================================================================
