-------------------------- MODULE BatchStampProofs --------------------------
(***************************************************************************)
(* Proofs about BatchStamp, for batches of every size, chunks of every     *)
(* size and every reservation.                                             *)
(***************************************************************************)
EXTENDS BatchStamp, TLAPS

(* What a reservation looks like here.                                     *)
ResOK ==
    /\ res.ms \in Nat /\ res.first \in Nat /\ res.bits = 0

(* What was drawn so far is where it was drawn to.                         *)
DrawnSoFar ==
    at = "draw" => \A b \in 0 .. cursor - 1 : mem[b] = Random(b)

(* The UUIDs stamped so far, and after the loop all of them.               *)
StampedSoFar ==
    at = "stamp" \/ (at = "copy" /\ rc = Ok) =>
        \A i \in n - done .. n - 1 : \A q \in 0 .. IdSize - 1 :
            mem[(IdSize * i) + q] = Wanted(res, i, q)

(* Where the code and the loop's count stand at each point.                *)
Points ==
    /\ at \in {"draw", "stamp"} => rc = Ok
    /\ at = "draw" => done = 0 /\ cached = NoMs
    /\ at = "copy" /\ rc = Ok => done = n
    /\ at # "returned" => \A b \in 0 .. (IdSize * n) - 1 : dst[b] = Untouched

(* The inductive invariant.                                                *)
StampInv ==
    /\ TypeOK /\ ResOK /\ DrawnSoFar /\ StampedSoFar /\ Points
    /\ TailsIntact /\ SeedApart /\ DestinationExact

USE DEF IdSize, TailSize, SeedSize, WordSize

-----------------------------------------------------------------------------
(* The timestamp and the counter of a UUID are numbers.                    *)
LEMMA IdNat ==
    ASSUME NEW r, r.ms \in Nat, r.first \in Nat, r.bits = 0, NEW i \in Nat
    PROVE  Id(r, i)[1] \in Nat /\ Id(r, i)[2] \in Nat
<1> DEFINE d == i \div StepSize
<1> DEFINE m == i % StepSize
<1> DEFINE p == Place(r.ms, r.first + d)
<1>1. StepSize \in Nat \ {0} /\ Steps \in Nat
      BY SizesAssumption
<1>2. d \in Nat /\ m \in Nat
      BY <1>1
<1>3. p[1] \in Nat /\ p[2] \in Nat
      BY <1>1, <1>2 DEF Place
<1>4. Id(r, i) = <<p[1], (p[2] * StepSize) + r.bits + m>>
      BY DEF Id
<1>5. (p[2] * StepSize) \in Nat
      BY <1>1, <1>3
<1>6. (p[2] * StepSize) + r.bits + m \in Nat
      BY <1>2, <1>5
<1> HIDE DEF p, d, m
<1> QED BY <1>3, <1>4, <1>6

(* The kept bytes of a millisecond are its bytes.                          *)
LEMMA TimeExact == ASSUME NEW ms PROVE TimeBytesOf(ms) = ms
BY DEF TimeBytesOf, Recomputed

(* A byte stamped while the tails are intact is the wanted one.            *)
LEMMA StampedWanted ==
    ASSUME TypeOK, TailsIntact, at = "stamp", done < n, NEW q \in 0 .. 15
    PROVE  StampedByte(Item, q) = Wanted(res, Item, q)
<1>1. Item \in 0 .. (n - done) - 1 /\ Item \in Nat
      BY DEF TypeOK, Item
<1>2. CASE q < 10
      BY <1>2, TimeExact DEF StampedByte, Wanted
<1>3. CASE q >= 10
      <2>1. q - 10 \in 0 .. 5
            BY <1>3
      <2>2. mem[(6 * Item) + (q - 10)] = Random((6 * Item) + (q - 10))
            BY <1>1, <2>1 DEF TailsIntact
      <2> QED BY <1>3, <2>2 DEF StampedByte, Wanted
<1> QED BY <1>2, <1>3

LEMMA WantedCell ==
    ASSUME ResOK, NEW i \in Nat, NEW q \in 0 .. 15
    PROVE  Wanted(res, i, q) \in CellSet
<1>1. Id(res, i)[1] \in Nat /\ Id(res, i)[2] \in Nat
      BY IdNat DEF ResOK
<1> QED BY <1>1 DEF Wanted, CellSet, MsByte, CounterByte, Random

-----------------------------------------------------------------------------
LEMMA InitInv == Init => StampInv
<1> SUFFICES ASSUME Init PROVE StampInv
    OBVIOUS
<1>1. 1 \in 1 .. MaxBatch /\ MaxBatch \in Nat
      BY SizesAssumption
<1> QED BY <1>1 DEF Init, StampInv, TypeOK, ResOK, DrawnSoFar, StampedSoFar, Points,
        TailsIntact, SeedApart, DestinationExact, Filled, CellSet, Junk, Untouched, NoMs,
        Reservation, Call, DrawSize, Ok

LEMMA BeginInv == StampInv /\ Begin => StampInv'
<1> SUFFICES ASSUME StampInv, Begin PROVE StampInv'
    OBVIOUS
<1>1. PICK count \in Counts :
         /\ count > 0 /\ count <= MaxBatch
         /\ n' = count /\ mem' = Filled(count, Junk) /\ dst' = Filled(count, Untouched)
      BY DEF Begin
<1>2. count \in Nat /\ MaxBatch \in Nat
      BY CallersAssumption, SizesAssumption
<1>3. TypeOK'
      BY <1>1, <1>2 DEF Begin, TypeOK, Filled, CellSet, Junk, Untouched, NoMs, DrawSize, Ok
<1>4. Points'
      BY <1>1, <1>2 DEF Begin, Points, Filled, Ok
<1> QED BY <1>3, <1>4 DEF Begin, StampInv, ResOK, DrawnSoFar, StampedSoFar, TailsIntact,
        SeedApart, DestinationExact

(* What a draw up to end leaves in the scratch.                            *)
LEMMA DrawnCells ==
    ASSUME TypeOK, DrawnSoFar, at = "draw", NEW end \in Nat, DrawnTo(end),
           cursor <= end
    PROVE  /\ mem' \in [0 .. (IdSize * n) - 1 -> CellSet]
           /\ end <= DrawSize(n) => \A b \in 0 .. end - 1 : mem'[b] = Random(b)
<1>1. DOMAIN mem = 0 .. (16 * n) - 1 /\ n \in Nat \ {0} /\ cursor \in Nat
      BY SizesAssumption DEF TypeOK, DrawSize
<1>2. \A b \in 0 .. (16 * n) - 1 : Random(b) \in CellSet
      BY DEF Random, CellSet
<1>3. mem' \in [0 .. (IdSize * n) - 1 -> CellSet]
      BY <1>1, <1>2 DEF DrawnTo, TypeOK
<1>4. ASSUME end <= DrawSize(n), NEW b \in 0 .. end - 1
      PROVE  mem'[b] = Random(b)
      <2>1. b \in 0 .. (16 * n) - 1
            BY <1>1, <1>4 DEF DrawSize
      <2> QED BY <1>1, <1>4, <2>1 DEF DrawnTo, DrawnSoFar
<1> QED BY <1>3, <1>4

(* A chunk is not longer than what is left to draw.                        *)
LEMMA ChunkFits ==
    ASSUME TypeOK, cursor < DrawSize(n)
    PROVE  Chunk \in Nat /\ cursor + Chunk <= DrawSize(n) /\ cursor \in Nat /\ DrawSize(n) \in Nat
<1>1. cursor \in Nat /\ DrawSize(n) \in Nat
      BY SizesAssumption DEF TypeOK, DrawSize
<1> QED BY <1>1, ChunkAssumption DEF Chunk

LEMMA DrawInv == StampInv /\ Draw => StampInv'
<1> SUFFICES ASSUME StampInv, Draw PROVE StampInv'
    OBVIOUS
<1> USE DEF StampInv
<1>1. Chunk \in Nat /\ cursor + Chunk <= DrawSize(n) /\ cursor \in Nat /\ DrawSize(n) \in Nat
      BY ChunkFits DEF Draw
<1>2. /\ mem' \in [0 .. (IdSize * n) - 1 -> CellSet]
      /\ \A b \in 0 .. (cursor + Chunk) - 1 : mem'[b] = Random(b)
      BY <1>1, DrawnCells DEF Draw
<1>3. TypeOK'
      BY <1>1, <1>2 DEF Draw, TypeOK, DrawSize
<1>4. DrawnSoFar'
      BY <1>2 DEF Draw, DrawnSoFar
<1>5. Points'
      BY DEF Draw, Points
<1> QED BY <1>3, <1>4, <1>5 DEF Draw, ResOK, StampedSoFar, TailsIntact, SeedApart,
        DestinationExact

LEMMA DrawFailsInv == StampInv /\ DrawFails => StampInv'
<1> SUFFICES ASSUME StampInv, DrawFails PROVE StampInv'
    OBVIOUS
<1> USE DEF StampInv
<1>1. PICK k \in 0 .. Chunk : DrawnTo(cursor + k)
      BY DEF DrawFails
<1>2. Chunk \in Nat /\ cursor \in Nat
      BY ChunkFits DEF DrawFails
<1>3. mem' \in [0 .. (IdSize * n) - 1 -> CellSet]
      BY <1>1, <1>2, DrawnCells DEF DrawFails
<1>4. TypeOK'
      BY <1>3 DEF DrawFails, TypeOK
<1> QED BY <1>4 DEF DrawFails, ResOK, DrawnSoFar, StampedSoFar, Points, TailsIntact,
        SeedApart, DestinationExact, RandomFailed, Ok

(* The four bytes behind the tails, once everything is drawn.              *)
LEMMA SeedDrawn ==
    ASSUME TypeOK, DrawnSoFar, at = "draw", cursor = DrawSize(n)
    PROVE  Cells(6 * n, 4) = { Random(b) : b \in 6 * n .. (6 * n) + 4 - 1 }
<1>1. n \in Nat
      BY SizesAssumption DEF TypeOK
<1>2. \A b \in 6 * n .. (6 * n) + 4 - 1 : mem[b] = Random(b)
      BY <1>1 DEF DrawnSoFar, DrawSize
<1> QED BY <1>2 DEF Cells

LEMMA ReserveInv == StampInv /\ Reserve => StampInv'
<1> SUFFICES ASSUME StampInv, Reserve PROVE StampInv'
    OBVIOUS
<1> USE DEF StampInv
<1>1. ResOK'
      BY CallersAssumption, SizesAssumption DEF Reserve, ResOK, Reservation, Call
<1>2. TypeOK'
      BY DEF Reserve, TypeOK
<1>3. SeedApart'
      BY SeedDrawn DEF Reserve, SeedApart
<1>4. TailsIntact'
      <2>1. SUFFICES ASSUME NEW j \in 0 .. (n - done) - 1, NEW q \in 0 .. 5
                     PROVE  mem[(6 * j) + q] = Random((6 * j) + q)
            BY DEF Reserve, TailsIntact
      <2>2. done = 0 /\ n \in Nat
            BY SizesAssumption DEF Reserve, Points, TypeOK
      <2>3. (6 * j) + q \in 0 .. cursor - 1
            BY <2>2 DEF Reserve, DrawSize
      <2> QED BY <2>3 DEF Reserve, DrawnSoFar
<1>5. StampedSoFar' /\ Points'
      <2>1. done = 0 /\ n \in Nat /\ rc = Ok
            BY SizesAssumption DEF Reserve, Points, TypeOK
      <2> QED BY <2>1 DEF Reserve, StampedSoFar, Points
<1> QED BY <1>1, <1>2, <1>3, <1>4, <1>5 DEF Reserve, DrawnSoFar, DestinationExact

LEMMA ExhaustInv == StampInv /\ Exhaust => StampInv'
BY DEF StampInv, Exhaust, TypeOK, ResOK, DrawnSoFar, StampedSoFar, Points, TailsIntact,
       SeedApart, DestinationExact, Exhausted, Ok

LEMMA StampStepInv == StampInv /\ Stamp => StampInv'
<1> SUFFICES ASSUME StampInv, Stamp PROVE StampInv'
    OBVIOUS
<1> USE DEF StampInv
<1>1. /\ n \in Nat \ {0} /\ done \in Nat /\ done < n
      /\ Item = (n - 1) - done /\ Item \in 0 .. n - 1
      /\ DOMAIN mem = 0 .. (16 * n) - 1
      BY SizesAssumption DEF Stamp, TypeOK, Item
<1> DEFINE It == Item
<1> HIDE DEF It
<1>2. It \in Nat /\ It = (n - 1) - done
      BY <1>1 DEF It
<1>3. \A q \in 0 .. 15 : StampedByte(It, q) = Wanted(res, It, q)
      BY StampedWanted DEF Stamp, It
<1>4. \A q \in 0 .. 15 : Wanted(res, It, q) \in CellSet
      BY <1>2, WantedCell
<1>5. mem' = [b \in 0 .. (16 * n) - 1 |->
                 IF b >= 16 * It /\ b < (16 * It) + 16
                 THEN StampedByte(It, b - (16 * It)) ELSE mem[b]]
      BY <1>1 DEF Stamp, It
<1>6. TypeOK'
      <2>1. \A b \in 0 .. (16 * n) - 1 :
               b >= 16 * It /\ b < (16 * It) + 16 =>
                  StampedByte(It, b - (16 * It)) \in CellSet
            <3>1. SUFFICES ASSUME NEW b \in 0 .. (16 * n) - 1,
                                  b >= 16 * It, b < (16 * It) + 16
                           PROVE  StampedByte(It, b - (16 * It)) \in CellSet
                  OBVIOUS
            <3>2. b - (16 * It) \in 0 .. 15
                  BY <1>1, <1>2, <3>1
            <3> QED BY <1>3, <1>4, <3>2
      <2>2. mem' \in [0 .. (16 * n) - 1 -> CellSet]
            BY <1>5, <2>1 DEF TypeOK
      <2>3. Id(res, It)[1] \in Nat
            BY <1>2, IdNat DEF ResOK
      <2>4. cached' \in Nat \cup {NoMs}
            BY <2>3, TimeExact DEF Stamp, It
      <2> QED BY <1>1, <2>2, <2>4 DEF Stamp, TypeOK
<1>7. TailsIntact'
      <2>1. SUFFICES ASSUME NEW j \in 0 .. (n - (done + 1)) - 1, NEW q \in 0 .. 5
                     PROVE  mem'[(6 * j) + q] = Random((6 * j) + q)
            <3>1. n' = n /\ done' = done + 1
                  BY DEF Stamp
            <3> QED BY <3>1 DEF TailsIntact
      <2>2. /\ (6 * j) + q \in 0 .. (16 * n) - 1
            /\ (6 * j) + q < 16 * It
            BY <1>1, <1>2
      <2>3. mem'[(6 * j) + q] = mem[(6 * j) + q]
            BY <1>2, <1>5, <2>2
      <2>4. j \in 0 .. (n - done) - 1
            BY <1>1
      <2> QED BY <2>3, <2>4 DEF Stamp, TailsIntact
<1>8. StampedSoFar'
      <2>1. SUFFICES ASSUME NEW i \in n - (done + 1) .. n - 1, NEW q \in 0 .. 15
                     PROVE  mem'[(16 * i) + q] = Wanted(res, i, q)
            BY DEF Stamp, StampedSoFar
      <2>2. i \in Nat /\ (16 * i) + q \in 0 .. (16 * n) - 1
            BY <1>1
      <2>3. CASE i = It
            <3> DEFINE b == (16 * i) + q
            <3>1. b >= 16 * It /\ b < (16 * It) + 16 /\ b - (16 * It) = q
                  BY <1>2, <2>3
            <3>2. mem'[b] = StampedByte(It, b - (16 * It))
                  <4> HIDE DEF b
                  <4> QED BY <1>5, <2>2, <3>1 DEF b
            <3>3. mem'[(16 * i) + q] = StampedByte(It, q)
                  BY <3>1, <3>2
            <3> QED BY <1>3, <2>3, <3>3
      <2>4. CASE i # It
            <3>1. i \in n - done .. n - 1 /\ (16 * i) + q >= (16 * It) + 16
                  BY <1>1, <1>2, <2>4
            <3>2. mem'[(16 * i) + q] = mem[(16 * i) + q]
                  BY <1>2, <1>5, <2>2, <3>1
            <3> QED BY <3>1, <3>2 DEF Stamp, StampedSoFar
      <2> QED BY <2>3, <2>4
<1> QED BY <1>6, <1>7, <1>8 DEF Stamp, ResOK, DrawnSoFar, Points, SeedApart,
        DestinationExact

LEMMA StampedInv == StampInv /\ Stamped => StampInv'
BY DEF StampInv, Stamped, TypeOK, ResOK, DrawnSoFar, StampedSoFar, Points, TailsIntact,
       SeedApart, DestinationExact

LEMMA CopyOutInv == StampInv /\ CopyOut => StampInv'
<1> SUFFICES ASSUME StampInv, CopyOut PROVE StampInv'
    OBVIOUS
<1> USE DEF StampInv
<1>1. n \in Nat
      BY SizesAssumption DEF TypeOK
<1>2. DestinationExact'
      <2>1. SUFFICES ASSUME NEW i \in 0 .. n - 1, NEW q \in 0 .. 15
                     PROVE  dst'[(16 * i) + q] = IF rc = Ok THEN Wanted(res, i, q) ELSE Untouched
            BY DEF CopyOut, DestinationExact
      <2>2. CASE rc = Ok
            <3>1. i \in n - done .. n - 1
                  BY <1>1, <2>2 DEF CopyOut, Points
            <3> QED BY <2>2, <3>1 DEF CopyOut, StampedSoFar
      <2>3. CASE rc # Ok
            <3>1. (16 * i) + q \in 0 .. (16 * n) - 1
                  BY <1>1
            <3> QED BY <2>3, <3>1 DEF CopyOut, Points
      <2> QED BY <2>2, <2>3
<1>3. TypeOK'
      BY DEF CopyOut, TypeOK
<1> QED BY <1>2, <1>3 DEF CopyOut, ResOK, DrawnSoFar, StampedSoFar, Points, TailsIntact,
        SeedApart

-----------------------------------------------------------------------------
(* StampInv holds of every behaviour.                                      *)
THEOREM StampInvariant == Spec => []StampInv
<1>1. StampInv /\ [Next]_vars => StampInv'
      <2> SUFFICES ASSUME StampInv, [Next]_vars PROVE StampInv'
          OBVIOUS
      <2>1. CASE UNCHANGED vars
            BY <2>1 DEF vars, StampInv, TypeOK, ResOK, DrawnSoFar, StampedSoFar, Points,
                        TailsIntact, SeedApart, DestinationExact, Item
      <2> QED BY <2>1, BeginInv, DrawInv, DrawFailsInv, ReserveInv, ExhaustInv,
                 StampStepInv, StampedInv, CopyOutInv DEF Next
<1> QED BY InitInv, <1>1, PTL DEF Spec

(* For a batch of any size and whatever steps it was given, the caller's   *)
(* destination holds exactly the UUIDs of its reservation, each with its   *)
(* own six fresh random bytes, or is left alone when the call fails.       *)
THEOREM DestinationCorrect == Spec => []DestinationExact
<1>1. StampInv => DestinationExact
      BY DEF StampInv
<1> QED BY StampInvariant, <1>1, PTL

(* No store of the backward loop reaches random bytes not yet read.        *)
THEOREM TailsSafe == Spec => []TailsIntact
<1>1. StampInv => TailsIntact
      BY DEF StampInv
<1> QED BY StampInvariant, <1>1, PTL

(* The seed's bytes end up in no UUID.                                     *)
THEOREM SeedSafe == Spec => []SeedApart
<1>1. StampInv => SeedApart
      BY DEF StampInv
<1> QED BY StampInvariant, <1>1, PTL

(* The loop's bounds checks never fail, so a batch never panics.           *)
THEOREM LoopInBounds == Spec => []NeverTraps
<1>1. StampInv => NeverTraps
      BY SizesAssumption DEF StampInv, TypeOK, NeverTraps, InBounds, Item
<1> QED BY StampInvariant, <1>1, PTL
=============================================================================
