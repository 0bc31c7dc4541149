------------------------------- MODULE V7Word -------------------------------
(***************************************************************************)
(* The arithmetic of the version 7 stream: how the core's 64-bit word is   *)
(* read and rewritten, what a reservation of it is, and which timestamp    *)
(* and counter each UUID of a reservation carries                          *)
(* (go/internal/core/core.go, Xuuid_new_v7 and Xuuid_new_v7_batch).        *)
(*                                                                         *)
(* The word is  h * 2^20 + l :  h is the stream's millisecond plus one (0  *)
(* when nothing was ever reserved) and l the last step reserved in that    *)
(* millisecond.  A step stands for StepSize UUIDs: a single call takes one *)
(* step, a batch of n takes StepsFor(n).                                   *)
(***************************************************************************)
EXTENDS Integers

CONSTANTS
    Steps,        \* steps a millisecond holds                 (2^20)
    SeedSpan,     \* a re-seeded millisecond starts below this (2^19)
    StepSize,     \* UUIDs to a step                           (64)
    ClampWindow,  \* how far behind a call is still clamped    (11000)
    DriftWindow,  \* how far ahead a split may go              (1000)
    StreamLast,   \* last millisecond the word can hold        (2^44 - 2)
    Cap,          \* last millisecond minted                   (253402300799999)
    MaxBatch,     \* largest batch                             (2^26)
    Supplied,     \* the timestamps callers pass, uint64
    Counts        \* the batch sizes callers pass, uint32

ASSUME SizesAssumption ==
    /\ Steps \in Nat /\ SeedSpan \in Nat \ {0} /\ SeedSpan <= Steps
    /\ StepSize \in Nat \ {0}
    /\ MaxBatch = Steps * StepSize

ASSUME TimesAssumption ==
    /\ ClampWindow \in Nat /\ DriftWindow \in Nat /\ DriftWindow <= ClampWindow
    /\ StreamLast \in Nat /\ Cap \in Nat /\ StreamLast < Cap

ASSUME CallersAssumption == Supplied \subseteq Nat /\ Counts \subseteq Nat

(* Return codes of the two guest functions. *)
Ok == 0
RandomFailed == 1
TimeRefused == 2
Unaddressable == 3
CountRefused == 4
Exhausted == 6

-----------------------------------------------------------------------------
(* Calls, and the steps and UUIDs they are given. *)

(* A batch of n takes ceiling(n / StepSize) steps; a single call is one.   *)
StepsFor(n) == (n + StepSize - 1) \div StepSize

(* bits: the random low bits of a single's counter; a batch's low bits are *)
(* the item's index.                                                       *)
SingleCalls == [op : {"single"}, ts : Supplied, n : {1}, bits : 0 .. StepSize - 1]
BatchCalls  == [op : {"batch"}, ts : Supplied, n : Counts, bits : {0}]
Calls == SingleCalls \cup BatchCalls

(* The checks made before randomness is drawn.                             *)
Admitted(c) == c.ts <= Cap /\ c.n > 0 /\ c.n <= MaxBatch

(* What a call that mints is stamped from: steps first, first + 1, ...     *)
(* counted in millisecond ms; steps past the millisecond's last one belong *)
(* to ms + 1.                                                              *)
Reservation(c, ms, first) ==
    [op |-> c.op, ts |-> c.ts, n |-> c.n, bits |-> c.bits, ms |-> ms, first |-> first]

(* A step counted from the start of ms, as a millisecond and a step in it. *)
Place(ms, step) == IF step >= Steps THEN <<ms + 1, step - Steps>> ELSE <<ms, step>>

(* The timestamp and the counter of UUID i of a reservation.               *)
Id(r, i) ==
    LET p == Place(r.ms, r.first + i \div StepSize)
    IN  <<p[1], (p[2] * StepSize) + r.bits + (i % StepSize)>>

(* Order of the stream: by millisecond, then by step (or by counter).      *)
Before(p, q) == p[1] < q[1] \/ (p[1] = q[1] /\ p[2] < q[2])

FirstStep(r) == Place(r.ms, r.first)
LastStep(r)  == Place(r.ms, r.first + StepsFor(r.n) - 1)

-----------------------------------------------------------------------------
(* The cases of a reservation, in the order the code meets them. *)

(* The 19 random bits of a single, or a 32-bit draw scaled to 0 .. m for a *)
(* batch, m keeping the whole block inside the millisecond it enters.      *)
Seeds(k) ==
    LET room == IF k <= Steps THEN Steps - k ELSE 0
    IN  0 .. (IF room < SeedSpan - 1 THEN room ELSE SeedSpan - 1)

(* Mutant: an equal timestamp re-seeds too. *)
AdvancesOnEqual(h, ts) == h = 0 \/ h - 1 <= ts
(* The stream has never been used or is behind ts: ts moves it forward.    *)
Advances(h, ts) == h = 0 \/ h - 1 < ts

(* Mutant: the window's last millisecond is left out. *)
FarBehindOffByOne(h, ts) == ~Advances(h, ts) /\ (h - 1) - ts >= ClampWindow
(* Mutant: no window, everything older is clamped. *)
FarBehindNever(h, ts) == FALSE
(* More than the window behind the stream.                                 *)
FarBehind(h, ts) == ~Advances(h, ts) /\ (h - 1) - ts > ClampWindow

(* The call is minted at its own timestamp, outside the stream.            *)
OutOfStream(h, ts) == ts > StreamLast \/ FarBehind(h, ts)

(* Mutant: a millisecond's last step is never used. *)
FitsShort(l, k) == k < (Steps - 1) - l
(* k more steps fit in the stream's millisecond.                           *)
Fits(l, k) == k <= (Steps - 1) - l

(* Mutant: no drift window. *)
MaySplitUnbounded(h, ts) == h # StreamLast + 1
(* Mutant: the word's last millisecond is split too. *)
MaySplitPastLast(h, ts) == h - ts <= DriftWindow
(* A millisecond out of steps may be followed by the next one: the word    *)
(* can hold it, and it is within the drift window of the caller's time.    *)
MaySplit(h, ts) == h # StreamLast + 1 /\ h - ts <= DriftWindow

(* The three ways the word is rewritten, and where the reservation starts. *)

(* A new millisecond, from a fresh seed.                                   *)
AdvanceTo(ts, k, seed) ==
    [hi |-> ts + 1, low |-> (k + seed - 1) % Steps, ms |-> ts, first |-> seed]

(* The next steps of the stream's own millisecond.                         *)
ExtendTo(h, l, k) == [hi |-> h, low |-> l + k, ms |-> h - 1, first |-> l + 1]

(* Mutant: the next millisecond starts one step late. *)
SplitToLate(h, l, k) ==
    [hi |-> h + 1, low |-> (l + k + 1) % Steps, ms |-> h - 1, first |-> l + 1]
(* What does not fit goes on into the next millisecond, from its step 0.   *)
SplitTo(h, l, k) ==
    [hi |-> h + 1, low |-> (l + k) % Steps, ms |-> h - 1, first |-> l + 1]
=============================================================================
