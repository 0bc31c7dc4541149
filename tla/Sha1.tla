-------------------------------- MODULE Sha1 ---------------------------------
(***************************************************************************)
(* The compression function of SHA-1 in the translated core                *)
(* (go/internal/core/core.go, fn6): blocks of sixteen words are loaded     *)
(* least significant octet first, swapped, expanded into eighty and mixed  *)
(* into five chained words.                                                *)
(*                                                                         *)
(* The code is one loop over the blocks with the eighty rounds written     *)
(* out, its registers renamed from round to round and the schedule's words *)
(* computed where they are first needed.  Here a round is a step: it makes *)
(* its schedule word and turns the five working words, with the code's own *)
(* forms of the three mixing functions.  A word is the set of its bits     *)
(* that are one.                                                           *)
(***************************************************************************)
EXTENDS Integers, Sequences

VARIABLES
    phase,     \* "idle", "rounds" or "store"
    chain,     \* the five words in memory, between calls
    held,      \* the same in registers, while blocks are left
    todo,      \* blocks still to compress
    schedule,  \* schedule words of the current block, so far
    work       \* the five working words

Bits == 0 .. 31
Words == SUBSET Bits

Xor(x, y) == (x \cup y) \ (x \cap y)
And(x, y) == x \cap y

(* Into which bits of a sum of words something is carried: two ones below, *)
(* and none of the bits between stops it.  What leaves bit 31 is lost.     *)
Carried(x, y) ==
    { b \in Bits : \E a \in 0 .. b - 1 :
                      a \in x \cap y /\ a + 1 .. b - 1 \subseteq x \cup y }
Add(x, y) == Xor(Xor(x, y), Carried(x, y))

RotateLeft(x, k) == { b \in Bits : (b + 32 - k) % 32 \in x }
RotateRight(x, k) == RotateLeft(x, 32 - k)
ShiftRight(x, k) == { b \in Bits : b + k \in x }

(* A loaded word, most significant octet first.                            *)
SwapBytes(x) ==
    Xor(ShiftRight(And(Xor(x, RotateRight(x, 16)), (8 .. 15) \cup (24 .. 31)), 8),
        RotateRight(x, 8))

(* The bits that are one of a number, counted from bit first of the word.  *)
BitsOf(v, width, first) ==
    { b \in first .. first + width - 1 : (v \div (2 ^ (b - first))) % 2 = 1 }
(* A constant of the code, in halves of sixteen bits.                      *)
Const(high, low) == BitsOf(high, 16, 16) \cup BitsOf(low, 16, 0)

(* The initial value, from the module's data at 65536.                     *)
H0 == << Const(26437,  8961),      \* 67452301
         Const(61389, 43913),      \* efcdab89
         Const(39098, 56574),      \* 98badcfe
         Const( 4146, 21622),      \* 10325476
         Const(50130, 57840) >>    \* c3d2e1f0

K0 == Const(23170, 31129)          \* 5a827999
K1 == Const(28377, 60321)          \* 6ed9eba1
K2 == Const(36635, 48348)          \* 8f1bbcdc
K3 == Const(51810, 49622)          \* ca62c1d6

NoWords == <<>>

-----------------------------------------------------------------------------
Init ==
    /\ phase = "idle" /\ chain = H0
    /\ held = NoWords /\ todo = <<>> /\ schedule = NoWords /\ work = NoWords

(* A call with no blocks returns at once.                                  *)
Call(blocks) ==
    /\ phase = "idle" /\ blocks # <<>>
    /\ phase' = "rounds"
    /\ held' = chain /\ work' = chain
    /\ todo' = blocks /\ schedule' = NoWords
    /\ UNCHANGED chain

(* Mutant: the expanded words are not rotated. *)
NextWordUnrotated ==
    LET t == Len(schedule) + 1
    IN  IF t <= 16
        THEN SwapBytes(Head(todo)[t])
        ELSE Xor(Xor(schedule[t - 3], schedule[t - 8]), Xor(schedule[t - 14], schedule[t - 16]))
(* The schedule word of the next round.                                    *)
NextWord ==
    LET t == Len(schedule) + 1
    IN  IF t <= 16
        THEN SwapBytes(Head(todo)[t])
        ELSE RotateLeft(Xor(Xor(schedule[t - 3], schedule[t - 8]),
                            Xor(schedule[t - 14], schedule[t - 16])), 1)

(* A round with the mixed word f and the constant k.                       *)
Round(f, k) ==
    /\ phase = "rounds"
    /\ schedule' = Append(schedule, NextWord)
    /\ work' = << Add(Add(Add(work[5], f), Add(RotateLeft(work[1], 5), NextWord)), k),
                  work[1], RotateLeft(work[2], 30), work[3], work[4] >>
    /\ UNCHANGED <<phase, chain, held, todo>>

(* b chooses between c and d ...                                           *)
Choose ==
    /\ Len(schedule) < 20
    /\ Round(Xor(And(Xor(work[3], work[4]), work[2]), work[4]), K0)

(* ... their parity ...                                                    *)
Parity ==
    /\ Len(schedule) \in 20 .. 39
    /\ Round(Xor(Xor(work[2], work[3]), work[4]), K1)

(* ... their majority ...                                                  *)
Majority ==
    /\ Len(schedule) \in 40 .. 59
    /\ Round(Xor(And(Xor(work[3], work[4]), work[2]), And(work[3], work[4])), K2)

(* ... and their parity again.                                             *)
ParityAgain ==
    /\ Len(schedule) \in 60 .. 79
    /\ Round(Xor(Xor(work[2], work[3]), work[4]), K3)

(* The block's words are added to the chained ones; on to the next block.  *)
FeedForward ==
    /\ phase = "rounds" /\ Len(schedule) = 80
    /\ held' = [i \in 1 .. 5 |-> Add(held[i], work[i])] /\ work' = held'
    /\ todo' = Tail(todo) /\ schedule' = NoWords
    /\ phase' = IF Tail(todo) = <<>> THEN "store" ELSE "rounds"
    /\ UNCHANGED chain

Store ==
    /\ phase = "store" /\ phase' = "idle"
    /\ chain' = held
    /\ held' = NoWords /\ work' = NoWords
    /\ UNCHANGED <<todo, schedule>>

Step ==
    \/ Choose \/ Parity \/ Majority \/ ParityAgain
    \/ FeedForward \/ Store
=============================================================================
