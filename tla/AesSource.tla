----------------------------- MODULE AesSource ------------------------------
(***************************************************************************)
(* The AES-256-CTR random source of an instance (go/random_aes.go): a      *)
(* keystream buffer rekeyed once a second and once every KeyBudget bytes.  *)
(*                                                                         *)
(* A keystream byte is <<key, position>>, keys numbered from 1 in the      *)
(* order they are read.  A cell of the buffer or of a destination is the   *)
(* set of bytes XORed into it: a cell that was not cleared before          *)
(* generation, or was generated over twice, holds more than one.           *)
(*                                                                         *)
(* One draw runs at a time: the goroutine that holds the instance makes    *)
(* it.  The clock may move between any two steps of a draw.                *)
(***************************************************************************)
EXTENDS Integers, Sequences, FiniteSets

CONSTANTS
    BufSize,     \* bytes buffered                      (512)
    KeyBudget,   \* bytes generated under one key       (2^20)
    KeyLifetime, \* how long a key serves               (one second)
    Draws,       \* the lengths callers ask for
    MaxKeys,     \* keys read in one behaviour
    MaxTime      \* the last tick of the clock

ASSUME SourceAssumption ==
    /\ BufSize \in Nat \ {0} /\ KeyBudget \in Nat /\ BufSize <= KeyBudget
    /\ KeyLifetime \in Nat \ {0}
    /\ Draws \subseteq Nat /\ MaxKeys \in Nat /\ MaxTime \in Nat

VARIABLES
    now,
    key,       \* the current key, 0 when stream is nil
    keyedAt, generated, buf, off,
    at,        \* the next step of the draw, "idle" between draws
    dst, got,  \* the destination, and how many of its bytes are written
    target, next, end, \* generate: over dst or buf, from cell next to cell end
    code,      \* what the last draw returned
    keys, born, entered, retired, handed  \* history, see Init

source == <<key, keyedAt, generated, buf, off>>
vars == <<now, key, keyedAt, generated, buf, off, at, dst, got, target, next, end,
          code, keys, born, entered, retired, handed>>

WasiEIO == 29
NoKey == 0

Empty(n) == [i \in 1 .. n |-> {}]
(* What a caller's destination holds before the draw.                      *)
Dirty(n) == [i \in 1 .. n |-> {<<NoKey, 0>>}]

Lesser(a, b) == IF a < b THEN a ELSE b

Init ==
    /\ now = 0
    /\ key = NoKey /\ keyedAt = 0 /\ generated = 0
    /\ buf = Empty(BufSize) /\ off = BufSize
    /\ at = "idle" /\ dst = <<>> /\ got = 0
    /\ target = "dst" /\ next = 1 /\ end = 0
    /\ code = 0
    /\ keys = 0          \* keys read so far
    /\ born = <<>>       \* when each of them began to serve
    /\ entered = 0       \* when the draw checked the key's age
    /\ retired = 0       \* keys up to this one were given up whole
    /\ handed = {}       \* bytes written into earlier destinations

Tick == now < MaxTime /\ now' = now + 1
        /\ UNCHANGED <<source, at, dst, got, target, next, end, code, keys, born, entered,
                       retired, handed>>

-----------------------------------------------------------------------------
(***************************************************************************)
(* rekey.                                                                  *)
(***************************************************************************)

(* Mutant: the buffer survives a rekey. *)
RekeyKeepsBuffer ==
    /\ keys < MaxKeys /\ keys' = keys + 1
    /\ key' = keys + 1 /\ keyedAt' = now /\ born' = Append(born, now)
    /\ generated' = 0 /\ UNCHANGED off
(* The buffer is discarded and the counter starts again under a new key.   *)
Rekey ==
    /\ keys < MaxKeys /\ keys' = keys + 1
    /\ key' = keys + 1 /\ keyedAt' = now /\ born' = Append(born, now)
    /\ generated' = 0 /\ off' = BufSize

(* Mutant: a failed read leaves what the buffer held. *)
RekeyFailsKeepsBuffer ==
    /\ key' = NoKey /\ generated' = 0 /\ UNCHANGED off
    /\ UNCHANGED <<keyedAt, keys, born>>
    /\ retired' = keys
(* The key cannot be read: the source is left without one.                 *)
RekeyFails ==
    /\ key' = NoKey /\ generated' = 0 /\ off' = BufSize
    /\ UNCHANGED <<keyedAt, keys, born>>
    /\ retired' = keys

-----------------------------------------------------------------------------
(***************************************************************************)
(* fill.                                                                   *)
(***************************************************************************)

BytesIn(cells, n) == UNION { cells[i] : i \in 1 .. n }

(* The draw returns; what it wrote counts as handed out even if it failed. *)
Returns(c) ==
    /\ at' = "idle" /\ code' = c
    /\ handed' = handed \cup BytesIn(dst', got')
    /\ UNCHANGED <<target, next, end>>

(* fill is called; a draw of nothing asks nothing of the source.           *)
Fill ==
    /\ at = "idle"
    /\ \E n \in Draws \ {0} : dst' = Dirty(n)
    /\ got' = 0 /\ code' = 0 /\ at' = "entry"
    /\ UNCHANGED <<now, source, target, next, end, keys, born, entered, retired, handed>>

(* Mutant: only a missing key is replaced at the entry. *)
ExpiredNever == key = NoKey
Expired == key = NoKey \/ now - keyedAt >= KeyLifetime

EntryFresh ==
    /\ at = "entry" /\ ~Expired
    /\ at' = "serve" /\ entered' = now
    /\ UNCHANGED <<now, source, dst, got, target, next, end, code, keys, born, retired, handed>>

EntryRekey ==
    /\ at = "entry" /\ Expired
    /\ Rekey /\ retired' = keys
    /\ at' = "serve" /\ entered' = now
    /\ UNCHANGED <<now, buf, dst, got, target, next, end, code, handed>>

(* Mutant: the draw waits for a key instead of failing. *)
EntryFailsRetried ==
    /\ at = "entry" /\ Expired
    /\ RekeyFails
    /\ UNCHANGED <<now, buf, at, dst, got, target, next, end, code, entered, handed>>
EntryFails ==
    /\ at = "entry" /\ Expired
    /\ RekeyFails
    /\ UNCHANGED <<now, buf, dst, got, entered>>
    /\ Returns(WasiEIO)

(* Mutant: the buffer's served bytes are not marked as served. *)
ServedNone(n) == off
Served(n) == off + n

(* How much of the draw the buffer serves.                                 *)
Drained == Lesser(Len(dst), BufSize - off)

(* Mutant: the buffer is refilled over what it held. *)
RefillUncleared == buf
(* What a refill generates over.                                           *)
RefillOver == Empty(BufSize)

(* The buffer's remainder first.  Then, for what is left: at least a       *)
(* buffer's worth is generated in place, over cleared cells; less is taken *)
(* from a refill of the cleared buffer.                                    *)
Serve ==
    LET n == Drained
        left == Len(dst) - n
    IN  /\ at = "serve"
        /\ off' = Served(n)
        /\ got' = n
        /\ dst' = [i \in 1 .. Len(dst) |->
                      IF i <= n THEN buf[off + i] ELSE IF left >= BufSize THEN {} ELSE dst[i]]
        /\ buf' = IF left > 0 /\ left < BufSize THEN RefillOver ELSE buf
        /\ IF left = 0
           THEN Returns(0)
           ELSE /\ at' = "generate"
                /\ target' = IF left >= BufSize THEN "dst" ELSE "buf"
                /\ next' = IF left >= BufSize THEN n + 1 ELSE 1
                /\ end' = IF left >= BufSize THEN Len(dst) ELSE BufSize
                /\ UNCHANGED <<code, handed>>
        /\ UNCHANGED <<now, key, keyedAt, generated, keys, born, entered, retired>>

-----------------------------------------------------------------------------
(***************************************************************************)
(* generate: chunks under the byte budget.                                 *)
(***************************************************************************)

(* n more keystream bytes of the current key, XORed over cells from next.  *)
Xored(cells, n) ==
    [i \in 1 .. Len(cells) |->
        IF i >= next /\ i < next + n THEN cells[i] \cup {<<key, generated + (i - next)>>}
        ELSE cells[i]]

(* Mutant: the budget is looked at only before a generation, not in it. *)
ChunkUncut == end - next + 1
(* A generation that would cross the budget is cut at it.                  *)
Chunk == Lesser(end - next + 1, KeyBudget - generated)

Generate ==
    /\ at = "generate" /\ next <= end /\ generated < KeyBudget
    /\ IF target = "dst"
       THEN dst' = Xored(dst, Chunk) /\ got' = got + Chunk /\ UNCHANGED buf
       ELSE buf' = Xored(buf, Chunk) /\ UNCHANGED <<dst, got>>
    /\ generated' = generated + Chunk
    /\ next' = next + Chunk
    /\ UNCHANGED <<now, key, keyedAt, off, at, target, end, code, keys, born, entered,
                   retired, handed>>

BudgetRekey ==
    /\ at = "generate" /\ next <= end /\ generated >= KeyBudget
    /\ Rekey
    /\ UNCHANGED <<now, buf, at, dst, got, target, next, end, code, entered, retired, handed>>

(* Mutant: a generation cut short by a failed rekey passes for a whole one. *)
BudgetFailsSilently ==
    /\ at = "generate" /\ next <= end /\ generated >= KeyBudget
    /\ RekeyFails
    /\ UNCHANGED <<now, buf, dst, got, entered>>
    /\ Returns(0)
BudgetFails ==
    /\ at = "generate" /\ next <= end /\ generated >= KeyBudget
    /\ RekeyFails
    /\ UNCHANGED <<now, buf, dst, got, entered>>
    /\ Returns(WasiEIO)

DirectDone ==
    /\ at = "generate" /\ next > end /\ target = "dst"
    /\ UNCHANGED <<now, source, dst, got, keys, born, entered, retired>>
    /\ Returns(0)

(* The destination's rest comes from the head of the refilled buffer.      *)
RefillDone ==
    /\ at = "generate" /\ next > end /\ target = "buf"
    /\ off' = Len(dst) - got
    /\ dst' = [i \in 1 .. Len(dst) |-> IF i <= got THEN dst[i] ELSE buf[i - got]]
    /\ got' = Len(dst)
    /\ Returns(0)
    /\ UNCHANGED <<now, key, keyedAt, generated, buf, keys, born, entered, retired>>

Next ==
    \/ Tick
    \/ Fill \/ EntryFresh \/ EntryRekey \/ EntryFails
    \/ Serve
    \/ Generate \/ BudgetRekey \/ BudgetFails \/ DirectDone \/ RefillDone

Spec == Init /\ [][Next]_vars

(* The code of a draw runs on: only the entropy source and the clock are   *)
(* the environment's.                                                      *)
DrawStep ==
    \/ EntryFresh \/ EntryRekey \/ EntryFails \/ Serve
    \/ Generate \/ BudgetRekey \/ BudgetFails \/ DirectDone \/ RefillDone
FairSpec == Spec /\ WF_vars(DrawStep)

-----------------------------------------------------------------------------
(***************************************************************************)
(* Properties.                                                             *)
(***************************************************************************)

(* Type invariant.                                                         *)
TypeOK ==
    /\ now \in 0 .. MaxTime
    /\ key \in 0 .. keys /\ keys \in 0 .. MaxKeys /\ Len(born) = keys
    /\ generated \in 0 .. KeyBudget
    /\ Len(buf) = BufSize /\ off \in 0 .. BufSize
    /\ at \in {"idle", "entry", "serve", "generate"}
    /\ got \in 0 .. Len(dst)
    /\ code \in {0, WasiEIO}

(* No byte of keystream is written into two places of any destinations,    *)
(* of one draw or of two, whether the draws succeed or fail: no caller's   *)
(* randomness repeats or reveals another's.                                *)
NoByteTwice ==
    at # "idle" =>
        /\ BytesIn(dst, got) \cap handed = {}
        /\ Cardinality(BytesIn(dst, got)) = got

(* Every written cell is exactly one byte of keystream: not zero, not two  *)
(* bytes XORed, not keystream XORed with what the destination held.        *)
PureKeystream ==
    \A i \in 1 .. got : \E k \in 1 .. keys, p \in 0 .. KeyBudget - 1 : dst[i] = {<<k, p>>}

(* A draw that returns 0 wrote all it was asked for.                       *)
SuccessIsWhole == at = "idle" /\ code = 0 => got = Len(dst)

(* The unserved buffer is always the tail of what was generated: it ends   *)
(* at the current key's last byte and goes back at most into the key       *)
(* before it, which had spent its budget.  A source without a key has no   *)
(* buffer.                                                                 *)
BufferIsTail ==
    at = "idle" =>
        IF key = NoKey THEN off = BufSize
        ELSE \A i \in off + 1 .. BufSize :
                LET back == BufSize - i
                IN  buf[i] = IF back < generated
                             THEN {<<key, generated - 1 - back>>}
                             ELSE {<<key - 1, KeyBudget - 1 - (back - generated)>>}

(* Once a key was given up at a draw's entry for its age, or because the   *)
(* next could not be read, no byte of it or of any key before it is ever   *)
(* written again.                                                          *)
RetiredNeverServed ==
    [][ \A i \in 1 .. got' : i > got \/ got' < got =>
            \A b \in dst'[i] : b[1] > retired' ]_vars

(* A key's bytes are served within its own lifetime or, when a refill      *)
(* straddled the budget and left them in the buffer, within that of the    *)
(* key read next: the draw's age check bounds the age of what it serves    *)
(* from the buffer by that one key.                                        *)
BufferedWithinSuccessor ==
    [][ at = "serve" => \A i \in 1 .. got' : \A b \in dst'[i] :
            entered - born[Lesser(b[1] + 1, keys)] < KeyLifetime ]_vars

(* Every draw returns, however often the budget is crossed in it.          *)
DrawReturns == at # "idle" ~> at = "idle"

(* random_aes.go says of the age check at a draw's entry that buffered     *)
(* keystream never outlives its key's second.                              *)
BufferedWithinLifetime ==
    [][ at = "serve" => \A i \in 1 .. got' : \A b \in dst'[i] :
            entered - born[b[1]] < KeyLifetime ]_vars
=============================================================================
