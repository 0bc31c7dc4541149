----------------------------- MODULE BatchStamp -----------------------------
(***************************************************************************)
(* How a version 7 batch becomes bytes (go/internal/core/core.go,          *)
(* Xuuid_new_v7_batch, and newV7Batch's copy in go/core.go).  The core     *)
(* draws six random bytes per UUID, and four for the seed, packed at the   *)
(* front of the region the UUIDs will fill, in chunks of the random        *)
(* source's largest read; then it stamps the sixteen-byte UUIDs over that  *)
(* same region from the last one down, each store next to random bytes not *)
(* yet read.                                                               *)
(*                                                                         *)
(* A byte is a cell that says where it came from.  The region is the       *)
(* scratch of the primary instance, which no call clears: it starts as     *)
(* junk.  V7Calls takes the whole of this as its steps Draw, Stamp and     *)
(* CopyOut.                                                                *)
(***************************************************************************)
EXTENDS V7Word

CONSTANT ChunkSize   \* bytes asked of the random source at once (65536)

ASSUME ChunkAssumption == ChunkSize \in Nat \ {0}

IdSize   == 16
TailSize == 6    \* random bytes of a UUID
SeedSize == 4
WordSize == 8    \* bytes loaded to get at a tail, two of them dropped

VARIABLES
    n,           \* UUIDs of the batch
    mem,         \* the scratch, IdSize * n bytes of it
    at,          \* "idle" before the first batch, "draw", "stamp", "copy", "returned"
    cursor,      \* random bytes drawn
    seed,        \* where the four bytes of the seed were read from
    res,         \* the reservation the UUIDs are stamped from
    done,        \* UUIDs stamped
    cached,      \* the millisecond whose six bytes the loop keeps
    rc, dst      \* what the caller gets: the code, and its destination

vars == <<n, mem, at, cursor, seed, res, done, cached, rc, dst>>

Junk         == <<"junk", 0, 0>>
Random(b)    == <<"random", b, 0>>
MsByte(ms, q)     == <<"ms", ms, q>>
CounterByte(c, q) == <<"counter", c, q>>
Untouched    == <<"untouched", 0, 0>>

NoMs == -1

Filled(count, cell) == [b \in 0 .. (IdSize * count) - 1 |-> cell]

Call(count) == [op |-> "batch", ts |-> 0, n |-> count, bits |-> 0]

Init ==
    /\ n = 1 /\ mem = Filled(1, Junk) /\ dst = Filled(1, Untouched)
    /\ at = "idle" /\ cursor = 0 /\ seed = {} /\ done = 0 /\ cached = NoMs
    /\ res = Reservation(Call(1), 0, 0)
    /\ rc = Ok

-----------------------------------------------------------------------------
(* newV7Batch has grown the scratch; the core has passed its checks.       *)
Begin ==
    /\ at \in {"idle", "returned"} /\ at' = "draw"
    /\ \E count \in Counts :
          /\ count > 0 /\ count <= MaxBatch
          /\ n' = count /\ mem' = Filled(count, Junk) /\ dst' = Filled(count, Untouched)
    /\ cursor' = 0 /\ done' = 0 /\ cached' = NoMs /\ seed' = {} /\ rc' = Ok
    /\ UNCHANGED res

(* Mutant: the seed is not drawn. *)
DrawSizeUnseeded(count) == TailSize * count
DrawSize(count) == (TailSize * count) + SeedSize
Chunk == LET left == DrawSize(n) - cursor IN IF left < ChunkSize THEN left ELSE ChunkSize

DrawnTo(end) ==
    mem' = [b \in DOMAIN mem |-> IF b >= cursor /\ b < end THEN Random(b) ELSE mem[b]]

Draw ==
    /\ at = "draw" /\ cursor < DrawSize(n)
    /\ DrawnTo(cursor + Chunk)
    /\ cursor' = cursor + Chunk
    /\ UNCHANGED <<n, at, seed, res, done, cached, rc, dst>>

(* A failing source may have written any part of its chunk.                *)
DrawFails ==
    /\ at = "draw" /\ cursor < DrawSize(n)
    /\ \E k \in 0 .. Chunk : DrawnTo(cursor + k)
    /\ rc' = RandomFailed /\ at' = "copy"
    /\ UNCHANGED <<n, cursor, seed, res, done, cached, dst>>

Cells(from, size) == { mem[b] : b \in from .. from + size - 1 }

(* The seed is read from behind the tails, and steps are reserved (module  *)
(* V7Stream): any that start in a millisecond the stream can be in.        *)
Reserve ==
    /\ at = "draw" /\ cursor = DrawSize(n)
    /\ seed' = Cells(TailSize * n, SeedSize)
    /\ at' = "stamp"
    /\ \E ms \in Supplied, first \in 0 .. Steps :
          res' = Reservation(Call(n), ms, first)
    /\ UNCHANGED <<n, mem, cursor, done, cached, rc, dst>>

Exhaust ==
    /\ at = "draw" /\ cursor = DrawSize(n)
    /\ seed' = Cells(TailSize * n, SeedSize)
    /\ rc' = Exhausted /\ at' = "copy"
    /\ UNCHANGED <<n, mem, cursor, res, done, cached, dst>>

-----------------------------------------------------------------------------
(* The loop. *)

(* Mutant: the UUIDs are stamped from the first one up. *)
ItemForward == done
(* The UUID stamped next: the last one of those left.                      *)
Item == (n - 1) - done

(* Mutant: the load's end is held against what was drawn, short of a UUID. *)
InBoundsShort(i) == (TailSize * i) + WordSize <= TailSize * n
(* The load of UUID i's tail and the store of UUID i stay in the region.   *)
InBounds(i) ==
    /\ (TailSize * i) + WordSize <= IdSize * n
    /\ (IdSize * i) + IdSize <= IdSize * n

(* Mutant: the millisecond's bytes are worked out once for the batch. *)
RecomputedOnce(ms) == cached = NoMs
(* The millisecond's bytes are worked out again when it changes.           *)
Recomputed(ms) == ms # cached

TimeBytesOf(ms) == IF Recomputed(ms) THEN ms ELSE cached

(* Byte q of UUID i: 0-5 the millisecond, 6-9 the counter around version   *)
(* and variant, 10-15 the tail.                                            *)
StampedByte(i, q) ==
    IF q < 6 THEN MsByte(TimeBytesOf(Id(res, i)[1]), q)
    ELSE IF q < IdSize - TailSize THEN CounterByte(Id(res, i)[2], q)
    ELSE mem[(TailSize * i) + (q - (IdSize - TailSize))]

Stamp ==
    /\ at = "stamp" /\ done < n /\ InBounds(Item)
    /\ mem' = [b \in DOMAIN mem |->
                  IF b >= IdSize * Item /\ b < (IdSize * Item) + IdSize
                  THEN StampedByte(Item, b - (IdSize * Item)) ELSE mem[b]]
    /\ cached' = TimeBytesOf(Id(res, Item)[1])
    /\ done' = done + 1
    /\ UNCHANGED <<n, at, cursor, seed, res, rc, dst>>

Stamped ==
    /\ at = "stamp" /\ done = n
    /\ at' = "copy"
    /\ UNCHANGED <<n, mem, cursor, seed, res, done, cached, rc, dst>>

(* newV7Batch copies the scratch out on success only.                      *)
CopyOut ==
    /\ at = "copy" /\ at' = "returned"
    /\ dst' = IF rc = Ok THEN mem ELSE dst
    /\ UNCHANGED <<n, mem, cursor, seed, res, done, cached, rc>>

Next ==
    \/ Begin \/ Draw \/ DrawFails \/ Reserve \/ Exhaust
    \/ Stamp \/ Stamped \/ CopyOut

Spec == Init /\ [][Next]_vars

-----------------------------------------------------------------------------
(***************************************************************************)
(* Properties.                                                             *)
(***************************************************************************)

CellSet == {"junk", "random", "ms", "counter", "untouched"} \X Nat \X Nat

(* Type invariant.                                                         *)
TypeOK ==
    /\ n \in 1 .. MaxBatch
    /\ mem \in [0 .. (IdSize * n) - 1 -> CellSet]
    /\ dst \in [0 .. (IdSize * n) - 1 -> CellSet]
    /\ at \in {"idle", "draw", "stamp", "copy", "returned"}
    /\ cursor \in 0 .. DrawSize(n)
    /\ done \in 0 .. n
    /\ cached \in Nat \cup {NoMs}
    /\ rc \in {Ok, RandomFailed, Exhausted}

(* The tails of the UUIDs still to be stamped are as they were drawn: no   *)
(* store of a UUID reaches a tail that is read after it.                   *)
TailsIntact ==
    at = "stamp" =>
        \A j \in 0 .. (n - done) - 1 : \A q \in 0 .. TailSize - 1 :
            mem[(TailSize * j) + q] = Random((TailSize * j) + q)

(* What byte q of UUID i must be.                                          *)
Wanted(r, i, q) ==
    IF q < 6 THEN MsByte(Id(r, i)[1], q)
    ELSE IF q < 10 THEN CounterByte(Id(r, i)[2], q)
    ELSE Random((6 * i) + (q - 10))

(* A batch that succeeds hands out, for every UUID, its own timestamp, its *)
(* own counter and its own six random bytes, no byte of them shared with   *)
(* another UUID, with the seed or with an earlier call; one that fails     *)
(* leaves the destination alone.  (uuidgen.go, FillV7At.)                  *)
DestinationExact ==
    at = "returned" =>
        \A i \in 0 .. n - 1 : \A q \in 0 .. IdSize - 1 :
            dst[(IdSize * i) + q] = IF rc = Ok THEN Wanted(res, i, q) ELSE Untouched

(* The seed is made of four drawn bytes that end up in no UUID.            *)
SeedApart ==
    at = "stamp" => seed = { Random(b) : b \in TailSize * n .. (TailSize * n) + SeedSize - 1 }

(* The loop's bounds checks, which would panic, never fail.                *)
NeverTraps == at = "stamp" /\ done < n => InBounds(Item)
=============================================================================
