--------------------------- MODULE V7StreamProofs ---------------------------
(***************************************************************************)
(* Proofs about V7Stream, for every width of the word, every window and    *)
(* every set of callers.                                                   *)
(*                                                                         *)
(* The three reserving actions have one thing in common, stated as         *)
(* Reserved(r): a sound reservation r that starts after the old word, ends *)
(* on the new one and stays near the caller's time.  One lemma per action  *)
(* establishes it; everything else is proved from it.                      *)
(***************************************************************************)
EXTENDS V7Stream, TLAPS

-----------------------------------------------------------------------------
(* Arithmetic of steps and counters. *)

(* Multiplication by a natural preserves order.                            *)
LEMMA MulMono ==
    ASSUME NEW a \in Nat, NEW b \in Nat, NEW c \in Nat, a <= b
    PROVE  c * a <= c * b
  BY SMTT(20)

(* What \div and % mean.                                                   *)
LEMMA DivMod ==
    ASSUME NEW x \in Nat, NEW b \in Nat \ {0}
    PROVE  /\ x \div b \in Nat /\ x % b \in 0 .. b - 1
           /\ x = b * (x \div b) + (x % b)
  BY SMTT(20)

(* The mask of a sum below two milliseconds takes at most one of them off. *)
LEMMA MaskOnce ==
    ASSUME NEW b \in Nat \ {0}, NEW x \in Nat, x < 2 * b
    PROVE  x % b = IF x < b THEN x ELSE x - b
  BY SMTT(20)

(* Enough steps for n UUIDs, and less than a step to spare.                *)
LEMMA StepsForCovers ==
    ASSUME NEW n \in 1 .. MaxBatch
    PROVE  /\ StepsFor(n) \in Nat
           /\ n <= StepSize * StepsFor(n)
           /\ StepSize * StepsFor(n) <= n + StepSize - 1
  <1>1. StepSize \in Nat \ {0} /\ n \in Nat /\ n >= 1
    BY SizesAssumption, SMTT(20)
  <1>2. PICK x \in Nat : x = n + StepSize - 1
    BY <1>1
  <1>3. StepsFor(n) = x \div StepSize
    BY <1>2 DEF StepsFor
  <1>4. /\ x \div StepSize \in Nat /\ x % StepSize \in 0 .. StepSize - 1
        /\ x = StepSize * (x \div StepSize) + (x % StepSize)
    BY <1>1, DivMod
  <1> QED BY <1>1, <1>2, <1>3, <1>4

(* A batch of at most MaxBatch takes between one step and a millisecond.   *)
LEMMA StepsForRange ==
    ASSUME NEW n \in 1 .. MaxBatch
    PROVE  StepsFor(n) \in 1 .. Steps
  <1>1. StepSize \in Nat \ {0} /\ Steps \in Nat /\ n \in Nat /\ n >= 1
    BY SizesAssumption, SMTT(20)
  <1>2. n <= StepSize * Steps
    BY <1>1, SizesAssumption
  <1>3. PICK q \in Nat : /\ q = StepsFor(n) /\ n <= StepSize * q
                        /\ StepSize * q <= n + StepSize - 1
    BY StepsForCovers
  <1>4. q # 0
    <2>1. StepSize * 0 = 0
      BY <1>1
    <2> QED BY <1>1, <1>3, <2>1
  <1>5. ~(Steps + 1 <= q)
    <2>1. SUFFICES ASSUME Steps + 1 <= q PROVE FALSE
      OBVIOUS
    <2>2. StepSize * (Steps + 1) <= StepSize * q
      BY <1>1, <2>1, MulMono
    <2>3. StepSize * (Steps + 1) = (StepSize * Steps) + StepSize
      BY <1>1
    <2>4. StepSize * Steps \in Nat /\ StepSize * q \in Nat
      BY <1>1
    <2> QED BY <1>1, <1>2, <1>3, <2>2, <2>3, <2>4
  <1> QED BY <1>1, <1>3, <1>4, <1>5

(* UUID i of a batch of n falls in one of the batch's steps.               *)
LEMMA ItemStep ==
    ASSUME NEW n \in 1 .. MaxBatch, NEW i \in 0 .. n - 1
    PROVE  i \div StepSize \in 0 .. StepsFor(n) - 1
  <1>1. StepSize \in Nat \ {0} /\ n \in Nat /\ i \in Nat /\ i < n
    BY SizesAssumption, SMTT(20)
  <1>2. PICK q \in Nat : q = StepsFor(n) /\ n <= StepSize * q
    BY StepsForCovers
  <1>3. PICK a \in Nat : a = i \div StepSize /\ StepSize * a <= i
    <2>1. /\ i \div StepSize \in Nat /\ i % StepSize \in 0 .. StepSize - 1
          /\ i = StepSize * (i \div StepSize) + (i % StepSize)
      BY <1>1, DivMod
    <2> QED BY <1>1, <2>1
  <1>4. ~(q <= a)
    <2>1. SUFFICES ASSUME q <= a PROVE FALSE
      OBVIOUS
    <2>2. StepSize * q <= StepSize * a
      BY <1>1, <2>1, MulMono
    <2>3. StepSize * q \in Nat /\ StepSize * a \in Nat
      BY <1>1
    <2> QED BY <1>1, <1>2, <1>3, <2>2, <2>3
  <1> QED BY <1>2, <1>3, <1>4

(* Low bits below StepSize never make up for a step.                       *)
LEMMA CounterMono ==
    ASSUME NEW p \in Nat, NEW q \in Nat, p < q,
           NEW b \in 0 .. StepSize - 1, NEW d \in Nat
    PROVE  (p * StepSize) + b < (q * StepSize) + d
  <1>1. StepSize \in Nat \ {0}
    BY SizesAssumption
  <1>2. StepSize * (p + 1) <= StepSize * q
    BY <1>1, MulMono
  <1>3. StepSize * (p + 1) = (p * StepSize) + StepSize /\ StepSize * q = q * StepSize
    BY <1>1
  <1>4. p * StepSize \in Nat /\ q * StepSize \in Nat
    BY <1>1
  <1> QED BY <1>1, <1>2, <1>3, <1>4

-----------------------------------------------------------------------------
(* The inductive invariant. *)

(* A reservation the core can make: it fits the counter, spans at most two *)
(* milliseconds, and only a single has random low bits.                    *)
Sound(r) ==
    /\ r \in Reservations
    /\ r.n \in 1 .. MaxBatch
    /\ r.bits \in 0 .. StepSize - 1 /\ (r.bits = 0 \/ r.n = 1)
    /\ r.first + StepsFor(r.n) <= 2 * Steps

(* Its milliseconds are near the caller's.                                 *)
NearCaller(r) ==
    /\ r.ts <= r.ms /\ r.ms <= r.ts + ClampWindow
    /\ r.first + StepsFor(r.n) > Steps => r.ms + 1 <= r.ts + DriftWindow

(* An unused stream has seen no timestamp.                                 *)
UnusedIsFresh == hi = 0 => newest = 0 /\ log = <<>>

LogSound == \A i \in 1 .. Len(log) : Sound(log[i]) /\ NearCaller(log[i])

(* The word is the last step of the last reservation ...                   *)
LogMeetsWord ==
    hi > 0 => Len(log) > 0 /\ LastStep(log[Len(log)]) = <<StreamMs, low>>

(* ... and no reservation went past it.                                    *)
LogBehindWord == \A i \in 1 .. Len(log) : ~Before(<<StreamMs, low>>, LastStep(log[i]))

(* Reservations are disjoint and in order.                                 *)
LogOrdered ==
    \A j \in 1 .. Len(log) : \A i \in 1 .. j - 1 :
        Before(LastStep(log[i]), FirstStep(log[j]))

StreamInv ==
    /\ TypeOK
    /\ StreamNearNewest
    /\ UnusedIsFresh
    /\ LogSound
    /\ LogMeetsWord
    /\ LogBehindWord
    /\ LogOrdered
    /\ StepsAccounted

(* What the three reserving actions have in common.                        *)
Reserved(r) ==
    /\ log' = Append(log, r)
    /\ last' = Outcome(r.op, r.ts, Ok, "stream", r)
    /\ Sound(r) /\ NearCaller(r)
    /\ hi' \in 1 .. StreamLast + 1 /\ low' \in 0 .. Steps - 1
    /\ newest' \in 0 .. StreamLast
    /\ newest' <= hi' - 1 /\ hi' - 1 <= newest' + DriftWindow
    /\ hi > 0 => Before(<<StreamMs, low>>, FirstStep(r))
    /\ hi > 0 => \/ FirstStep(r) = Place(StreamMs, low + 1)
                 \/ /\ FirstStep(r)[1] > StreamMs
                    /\ FirstStep(r)[1] = r.ts /\ FirstStep(r)[2] < SeedSpan
    /\ hi = 0 => FirstStep(r)[1] = r.ts /\ FirstStep(r)[2] < SeedSpan
    /\ LastStep(r) = <<hi' - 1, low'>>

(* The calls have the types their fields name.                             *)
LEMMA CallTypes ==
    ASSUME NEW c \in Calls
    PROVE  /\ c.op \in {"single", "batch"} /\ c.ts \in Nat /\ c.n \in Nat
           /\ c.bits \in 0 .. StepSize - 1 /\ (c.bits = 0 \/ c.n = 1)
  <1>1. StepSize \in Nat \ {0} /\ Supplied \subseteq Nat /\ Counts \subseteq Nat
    BY SizesAssumption, CallersAssumption
  <1>2. CASE c \in SingleCalls
    <2>1. c.op = "single" /\ c.ts \in Supplied /\ c.n = 1 /\ c.bits \in 0 .. StepSize - 1
      BY <1>2 DEF SingleCalls
    <2>2. c.ts \in Nat
      BY <1>1, <2>1
    <2> QED BY <2>1, <2>2
  <1>3. CASE c \in BatchCalls
    <2>1. 0 \in 0 .. StepSize - 1
      BY <1>1
    <2> QED BY <1>1, <1>3, <2>1 DEF BatchCalls
  <1> QED BY <1>2, <1>3 DEF Calls

(* The constants, as the steps below use them.                             *)
LEMMA SizeFacts ==
    /\ Steps \in Nat /\ Steps >= 1 /\ SeedSpan \in Nat /\ SeedSpan <= Steps
    /\ StepSize \in Nat /\ StepSize >= 1
    /\ ClampWindow \in Nat /\ DriftWindow \in Nat /\ DriftWindow <= ClampWindow
    /\ StreamLast \in Nat
  BY SizesAssumption, TimesAssumption, SMTT(20)

(* A seed leaves room for the whole block in the millisecond it enters.    *)
LEMMA SeedFits ==
    ASSUME NEW k \in 1 .. Steps, NEW seed \in Seeds(k)
    PROVE  seed \in Nat /\ seed < SeedSpan /\ seed + k <= Steps
  BY SizeFacts, SizesAssumption DEF Seeds

(* Place, on the two sides of the last step.                               *)
LEMMA PlaceCases ==
    ASSUME NEW ms \in Int, NEW s \in Nat
    PROVE  /\ s < Steps => Place(ms, s) = <<ms, s>>
           /\ s >= Steps => Place(ms, s) = <<ms + 1, s - Steps>>
  BY SizeFacts DEF Place

LEMMA AdvanceReserves ==
    ASSUME StreamInv, NEW c \in Calls, Advance(c)
    PROVE  \E r : Reserved(r)
  <1> DEFINE k == StepsFor(c.n)
  <1>1. PICK seed \in Seeds(k) :
            Reserve(c, AdvanceTo(c.ts, k, seed))
    BY DEF Advance
  <1>2. c.n \in 1 .. MaxBatch /\ c.ts \in 0 .. StreamLast /\ (hi = 0 \/ StreamMs < c.ts)
    BY CallTypes, SizeFacts DEF Advance, InStream, Admitted, OutOfStream, Advances, StreamMs
  <1>3. k \in 1 .. Steps
    BY <1>2, StepsForRange
  <1>4. seed \in Nat /\ seed < SeedSpan /\ seed + k <= Steps
    BY <1>3, SeedFits
  <1>5. (k + seed - 1) % Steps = k + seed - 1
    <2>1. PICK x \in Nat : x = k + seed - 1 /\ x < Steps
      BY <1>3, <1>4, SizeFacts
    <2> QED BY <2>1, MaskOnce, SizeFacts
  <1> DEFINE r == Reservation(c, c.ts, seed)
  <1>6. FirstStep(r) = <<c.ts, seed>> /\ LastStep(r) = <<c.ts, seed + k - 1>>
    <2>1. seed \in Nat /\ seed + k - 1 \in Nat /\ seed < Steps /\ seed + k - 1 < Steps
      BY <1>3, <1>4, SizeFacts
    <2>2. r.ms = c.ts /\ r.first = seed /\ r.n = c.n
      BY DEF Reservation
    <2> QED BY <1>2, <2>1, <2>2, PlaceCases DEF FirstStep, LastStep
  <1>7. Sound(r) /\ NearCaller(r)
    BY <1>2, <1>3, <1>4, CallTypes, SizeFacts
    DEF Reservation, Sound, NearCaller, Reservations
  <1>8. newest' = IF c.ts > newest THEN c.ts ELSE newest
    BY <1>1 DEF Reserve
  <1>9. newest' = c.ts
    BY <1>2, <1>8, SizeFacts DEF StreamInv, TypeOK, StreamNearNewest, UnusedIsFresh, StreamMs
  <1>10. hi' = c.ts + 1 /\ low' = k + seed - 1
    BY <1>1, <1>5 DEF Reserve, AdvanceTo
  <1>11. hi > 0 => Before(<<StreamMs, low>>, FirstStep(r))
    BY <1>2, <1>6 DEF Before
  <1>12. log' = Append(log, r) /\ last' = Outcome(r.op, r.ts, Ok, "stream", r)
    BY <1>1 DEF Reserve, Reservation, AdvanceTo
  <1>13. /\ FirstStep(r)[1] = r.ts /\ FirstStep(r)[2] < SeedSpan
         /\ hi > 0 => FirstStep(r)[1] > StreamMs
    <2>1. r.ts = c.ts
      BY DEF Reservation
    <2> HIDE DEF r
    <2> QED BY <1>2, <1>4, <1>6, <2>1, SizeFacts DEF StreamInv, TypeOK, StreamMs
  <1> HIDE DEF r
  <1>14. /\ hi' \in 1 .. StreamLast + 1 /\ low' \in 0 .. Steps - 1
         /\ newest' \in 0 .. StreamLast
         /\ newest' <= hi' - 1 /\ hi' - 1 <= newest' + DriftWindow
         /\ LastStep(r) = <<hi' - 1, low'>>
    <2>1. low' \in 0 .. Steps - 1
      BY <1>3, <1>4, <1>10, SizeFacts
    <2>2. LastStep(r) = <<hi' - 1, low'>>
      <3>1. hi' - 1 = c.ts /\ low' = seed + k - 1
        BY <1>2, <1>3, <1>4, <1>10
      <3> QED BY <1>6, <3>1
    <2> QED BY <1>2, <1>9, <1>10, <2>1, <2>2, SizeFacts
  <1>15. Reserved(r)
    BY <1>7, <1>11, <1>12, <1>13, <1>14 DEF Reserved
  <1> QED BY <1>15

(* A single's or a batch's next steps in the millisecond the stream is in. *)
LEMMA ExtendReserves ==
    ASSUME StreamInv, NEW c \in Calls, Extend(c)
    PROVE  \E r : Reserved(r)
  <1> DEFINE k == StepsFor(c.n)
             r == Reservation(c, StreamMs, low + 1)
  <1>1. Reserve(c, ExtendTo(hi, low, k))
    BY DEF Extend
  <1>2. /\ c.n \in 1 .. MaxBatch /\ c.ts \in 0 .. StreamLast
        /\ hi \in 1 .. StreamLast + 1 /\ c.ts <= hi - 1 /\ (hi - 1) - c.ts <= ClampWindow
        /\ low \in 0 .. Steps - 1
    BY CallTypes, SizeFacts
    DEF Extend, InStream, Admitted, OutOfStream, Advances, FarBehind, StreamMs,
        StreamInv, TypeOK
  <1>3. k \in 1 .. Steps
    BY <1>2, StepsForRange
  <1>4. low + k <= Steps - 1
    BY <1>2, <1>3, SizeFacts DEF Extend, Fits
  <1>5. r.ms = StreamMs /\ r.first = low + 1 /\ r.n = c.n /\ r.ts = c.ts /\ r.op = c.op
    BY DEF Reservation
  <1>6. FirstStep(r) = <<hi - 1, low + 1>> /\ LastStep(r) = <<hi - 1, low + k>>
    <2>1. low + 1 \in Nat /\ low + 1 + k - 1 \in Nat /\ low + 1 < Steps
          /\ low + 1 + k - 1 < Steps /\ low + 1 + k - 1 = low + k /\ hi - 1 \in Int
      BY <1>2, <1>3, <1>4, SizeFacts
    <2> HIDE DEF r, k
    <2>2. Place(hi - 1, low + 1) = <<hi - 1, low + 1>>
      BY <2>1, PlaceCases
    <2>3. Place(hi - 1, low + 1 + k - 1) = <<hi - 1, low + k>>
      BY <2>1, PlaceCases
    <2> QED BY <1>5, <2>2, <2>3 DEF FirstStep, LastStep, StreamMs, k
  <1>7. Sound(r) /\ NearCaller(r)
    BY <1>2, <1>3, <1>4, CallTypes, SizeFacts
    DEF Reservation, Sound, NearCaller, Reservations, StreamMs
  <1>8. newest' = (IF c.ts > newest THEN c.ts ELSE newest) /\ hi' = hi /\ low' = low + k
        /\ log' = Append(log, r) /\ last' = Outcome(c.op, c.ts, Ok, "stream", r)
    BY <1>1 DEF Reserve, ExtendTo, StreamMs
  <1>9. /\ newest' \in 0 .. StreamLast
        /\ newest' <= hi - 1 /\ hi - 1 <= newest' + DriftWindow
    BY <1>2, <1>8, SizeFacts DEF StreamInv, TypeOK, StreamNearNewest, StreamMs
  <1>10. FirstStep(r) = Place(StreamMs, low + 1)
    BY <1>5 DEF FirstStep
  <1>11. Before(<<StreamMs, low>>, FirstStep(r))
    BY <1>2, <1>6 DEF Before, StreamMs
  <1> HIDE DEF r
  <1>12. Reserved(r)
    BY <1>2, <1>3, <1>4, <1>5, <1>6, <1>7, <1>8, <1>9, <1>10, <1>11, SizeFacts
    DEF Reserved
  <1> QED BY <1>12

(* A split: the head fills the millisecond, the tail begins the next one.  *)
LEMMA SplitReserves ==
    ASSUME StreamInv, NEW c \in Calls, Split(c)
    PROVE  \E r : Reserved(r)
  <1> DEFINE k == StepsFor(c.n)
             r == Reservation(c, StreamMs, low + 1)
  <1>1. Reserve(c, SplitTo(hi, low, k))
    BY DEF Split
  <1>2. /\ c.n \in 1 .. MaxBatch /\ c.ts \in 0 .. StreamLast
        /\ hi \in 1 .. StreamLast /\ c.ts <= hi - 1 /\ (hi - 1) - c.ts <= ClampWindow
        /\ hi - c.ts <= DriftWindow
        /\ low \in 0 .. Steps - 1
    BY CallTypes, SizeFacts
    DEF Split, InStream, Admitted, OutOfStream, Advances, FarBehind, MaySplit, StreamMs,
        StreamInv, TypeOK
  <1>3. k \in 1 .. Steps
    BY <1>2, StepsForRange
  <1>4. low + k >= Steps
    BY <1>2, <1>3, SizeFacts DEF Split, Fits
  <1>5. (low + k) % Steps = low + k - Steps
    <2>1. PICK x \in Nat : x = low + k /\ x < 2 * Steps /\ ~(x < Steps)
      BY <1>2, <1>3, <1>4, SizeFacts
    <2>2. x % Steps = x - Steps
      <3>1. Steps \in Nat \ {0}
        BY SizeFacts
      <3> QED BY <2>1, <3>1, MaskOnce
    <2> QED BY <1>2, <1>3, <2>1, <2>2, SizeFacts
  <1>6. r.ms = StreamMs /\ r.first = low + 1 /\ r.n = c.n /\ r.ts = c.ts /\ r.op = c.op
    BY DEF Reservation
  <1>7. LastStep(r) = <<hi, low + k - Steps>>
    <2>1. /\ low + 1 + k - 1 \in Nat /\ low + 1 + k - 1 >= Steps
          /\ low + 1 + k - 1 - Steps = low + k - Steps /\ hi - 1 \in Int /\ hi - 1 + 1 = hi
      BY <1>2, <1>3, <1>4, SizeFacts
    <2> HIDE DEF r, k
    <2>2. Place(hi - 1, low + 1 + k - 1) = <<hi, low + k - Steps>>
      <3> DEFINE s == low + 1 + k - 1
      <3>1. s \in Nat /\ s >= Steps /\ s - Steps = low + k - Steps
        BY <1>2, <1>3, <1>4, SizeFacts DEF k
      <3> HIDE DEF s
      <3>2. Place(hi - 1, s) = <<hi - 1 + 1, s - Steps>>
        BY <2>1, <3>1, PlaceCases
      <3> QED BY <2>1, <3>1, <3>2 DEF s
    <2> QED BY <1>6, <2>1, <2>2 DEF LastStep, StreamMs, k
  <1>8. Sound(r) /\ NearCaller(r)
    BY <1>2, <1>3, <1>4, CallTypes, SizeFacts
    DEF Reservation, Sound, NearCaller, Reservations, StreamMs
  <1>9. newest' = (IF c.ts > newest THEN c.ts ELSE newest)
        /\ hi' = hi + 1 /\ low' = low + k - Steps
        /\ log' = Append(log, r) /\ last' = Outcome(c.op, c.ts, Ok, "stream", r)
    BY <1>1, <1>5 DEF Reserve, SplitTo, StreamMs
  <1>10. /\ newest' \in 0 .. StreamLast
         /\ newest' <= hi /\ hi <= newest' + DriftWindow
    <2>1. /\ newest \in 0 .. StreamLast
          /\ newest <= hi - 1 /\ hi - 1 <= newest + DriftWindow
      BY <1>2 DEF StreamInv, TypeOK, StreamNearNewest, StreamMs
    <2>2. /\ DriftWindow \in Nat /\ hi \in Nat
          /\ c.ts \in 0 .. StreamLast /\ c.ts <= hi - 1 /\ hi - c.ts <= DriftWindow
      BY <1>2, SizeFacts
    <2> HIDE DEF r, k
    <2>3. CASE c.ts > newest
      <3>1. newest' = c.ts
        BY <1>9, <2>3
      <3> QED BY <2>2, <3>1
    <2>4. CASE ~(c.ts > newest)
      <3>1. newest' = newest
        BY <1>9, <2>4
      <3> QED BY <2>1, <2>2, <2>4, <3>1
    <2> QED BY <2>3, <2>4
  <1>11. FirstStep(r) = Place(StreamMs, low + 1)
    BY <1>6 DEF FirstStep
  <1>12. Before(<<StreamMs, low>>, Place(StreamMs, low + 1))
    BY <1>2, SizeFacts DEF Before, Place, StreamMs
  <1> HIDE DEF r
  <1>13. /\ hi' \in 1 .. StreamLast + 1 /\ low' \in 0 .. Steps - 1
         /\ newest' \in 0 .. StreamLast
         /\ newest' <= hi' - 1 /\ hi' - 1 <= newest' + DriftWindow
         /\ LastStep(r) = <<hi' - 1, low'>>
    <2>1. low' \in 0 .. Steps - 1
      <3> HIDE DEF k
      <3>1. low + k - Steps \in 0 .. Steps - 1
        BY <1>2, <1>3, <1>4, SizeFacts
      <3>2. low' = low + k - Steps
        BY <1>9
      <3> QED BY <3>1, <3>2
    <2>2. hi' - 1 = hi
      BY <1>2, <1>9
    <2>3. LastStep(r) = <<hi' - 1, low'>>
      BY <1>7, <1>9, <2>2
    <2> QED BY <1>2, <1>9, <1>10, <2>1, <2>2, <2>3, SizeFacts
  <1>14. Reserved(r)
    BY <1>2, <1>6, <1>8, <1>9, <1>11, <1>12, <1>13 DEF Reserved
  <1> QED BY <1>14

(* Every other action leaves the word and the history alone.               *)
LEMMA StepKinds ==
    ASSUME StreamInv, [Next]_vars
    PROVE  (\E r : Reserved(r)) \/ UNCHANGED <<hi, low, newest, log>>
  <1>1. CASE UNCHANGED vars
    BY <1>1 DEF vars
  <1>2. CASE Next
    <2>1. PICK c \in Calls :
              \/ RefuseTime(c) \/ EmptyBatch(c) \/ RefuseCount(c) \/ DrawFails(c)
              \/ MintOutside(c) \/ Exhaust(c)
              \/ Advance(c) \/ Extend(c) \/ Split(c)
      BY <1>2 DEF Next, Serve
    <2>2. CASE \/ RefuseTime(c) \/ EmptyBatch(c) \/ RefuseCount(c) \/ DrawFails(c)
               \/ Exhaust(c)
      BY <2>2 DEF RefuseTime, EmptyBatch, RefuseCount, DrawFails, Exhaust, Refuse
    <2>3. CASE MintOutside(c)
      BY <2>3 DEF MintOutside
    <2>4. CASE Advance(c)
      BY <2>4, AdvanceReserves
    <2>5. CASE Extend(c)
      BY <2>5, ExtendReserves
    <2>6. CASE Split(c)
      BY <2>6, SplitReserves
    <2> QED BY <2>1, <2>2, <2>3, <2>4, <2>5, <2>6
  <1> QED BY <1>1, <1>2

-----------------------------------------------------------------------------
(* A reservation preserves the invariant, one conjunct at a time. *)

(* What Append does to the history.                                        *)
LEMMA Appended ==
    ASSUME StreamInv, NEW r, Reserved(r)
    PROVE  /\ Len(log) \in Nat /\ Len(log') = Len(log) + 1
           /\ log'[Len(log) + 1] = r
           /\ \A i \in 1 .. Len(log) : log'[i] = log[i]
           /\ log' \in Seq(Reservations)
           /\ r \in Reservations
  <1>1. log \in Seq(Reservations) /\ r \in Reservations /\ log' = Append(log, r)
    BY DEF StreamInv, TypeOK, Reserved, Sound
  <1> QED BY <1>1

(* Positions: LastStep and FirstStep are pairs of numbers.                 *)
LEMMA StepPairs ==
    ASSUME NEW r, Sound(r)
    PROVE  /\ FirstStep(r) \in Int \X (0 .. Steps - 1) /\ LastStep(r) \in Int \X (0 .. Steps - 1)
           /\ ~Before(LastStep(r), FirstStep(r))
  <1>1. r.ms \in Nat /\ r.first \in Nat /\ r.first + StepsFor(r.n) <= 2 * Steps
        /\ StepsFor(r.n) \in 1 .. Steps
    BY StepsForRange DEF Sound, Reservations
  <1> QED BY <1>1, SizeFacts DEF FirstStep, LastStep, Place, Before

(* A step not after y is before whatever y is before.                      *)
LEMMA BeforeOnward ==
    ASSUME NEW x, x[1] \in Int, x[2] \in Int, NEW y, y[1] \in Int, y[2] \in Int,
           NEW z, z[1] \in Int, z[2] \in Int, ~Before(y, x), Before(y, z)
    PROVE  Before(x, z)
BY DEF Before

LEMMA ReservedInv ==
    ASSUME StreamInv, NEW r, Reserved(r)
    PROVE  StreamInv'
  <1> DEFINE n == Len(log)
  <1>1. /\ n \in Nat /\ Len(log') = n + 1 /\ log'[n + 1] = r
        /\ \A i \in 1 .. n : log'[i] = log[i]
        /\ log' \in Seq(Reservations)
    BY Appended
  <1>2. hi \in 0 .. StreamLast + 1 /\ low \in 0 .. Steps - 1 /\ StreamMs \in Int
    BY SizeFacts DEF StreamInv, TypeOK, StreamMs
  <1>3. /\ hi' \in 1 .. StreamLast + 1 /\ low' \in 0 .. Steps - 1
        /\ StreamMs' = hi' - 1 /\ LastStep(r) = <<StreamMs', low'>>
        /\ Sound(r) /\ NearCaller(r)
    BY DEF Reserved, StreamMs
  <1>4. hi > 0 => Before(<<StreamMs, low>>, FirstStep(r))
    BY DEF Reserved
  <1>5. n > 0 => hi > 0
    <2>1. hi = 0 => log = <<>>
      BY DEF StreamInv, UnusedIsFresh
    <2> QED BY <1>1, <1>2, <2>1
  <1>6. \A i \in 1 .. n : Before(LastStep(log[i]), FirstStep(r))
    <2>1. TAKE i \in 1 .. n
    <2>2. hi > 0
      BY <1>1, <1>5
    <2>3. Sound(log[i]) /\ ~Before(<<StreamMs, low>>, LastStep(log[i]))
      BY DEF StreamInv, LogSound, LogBehindWord
    <2>4. Before(<<StreamMs, low>>, FirstStep(r))
      BY <1>4, <2>2
    <2>5. /\ LastStep(log[i])[1] \in Int /\ LastStep(log[i])[2] \in Int
          /\ FirstStep(r)[1] \in Int /\ FirstStep(r)[2] \in Int
      BY <1>3, <2>3, StepPairs
    <2>6. <<StreamMs, low>>[1] \in Int /\ <<StreamMs, low>>[2] \in Int
      BY <1>2
    <2> QED BY <2>3, <2>4, <2>5, <2>6, BeforeOnward
  <1>7. TypeOK'
    BY <1>1, <1>3, SizeFacts DEF TypeOK, Reserved
  <1>8. StreamNearNewest' /\ UnusedIsFresh'
    <2>1. hi' # 0 /\ newest' <= StreamMs' /\ StreamMs' <= newest' + DriftWindow
      <3>1. newest' <= hi' - 1 /\ hi' - 1 <= newest' + DriftWindow
        BY DEF Reserved
      <3> QED BY <1>3, <3>1, SizeFacts
    <2> QED BY <2>1 DEF StreamNearNewest, UnusedIsFresh
  <1>9. LogSound'
    <2>1. \A i \in 1 .. n : Sound(log[i]) /\ NearCaller(log[i])
      BY DEF StreamInv, LogSound
    <2> QED BY <1>1, <1>3, <2>1 DEF LogSound
  <1>10. LogMeetsWord'
    BY <1>1, <1>3 DEF LogMeetsWord
  <1>11. LogBehindWord'
    <2>1. ~Before(LastStep(r), LastStep(r))
      <3>1. LastStep(r)[1] \in Int /\ LastStep(r)[2] \in Int
        BY <1>3, StepPairs, SizeFacts
      <3> QED BY <3>1 DEF Before
    <2>2. \A i \in 1 .. n : ~Before(LastStep(r), LastStep(log[i]))
      <3>1. TAKE i \in 1 .. n
      <3>2. Sound(log[i])
        BY DEF StreamInv, LogSound
      <3> QED BY <1>3, <1>6, <3>2, StepPairs DEF Before
    <2> QED BY <1>1, <1>3, <2>1, <2>2 DEF LogBehindWord
  <1>12. LogOrdered'
    <2>1. \A j \in 1 .. n : \A i \in 1 .. j - 1 : Before(LastStep(log[i]), FirstStep(log[j]))
      BY DEF StreamInv, LogOrdered
    <2>2. SUFFICES ASSUME NEW j \in 1 .. n + 1, NEW i \in 1 .. j - 1
                   PROVE  Before(LastStep(log'[i]), FirstStep(log'[j]))
      BY <1>1 DEF LogOrdered
    <2>3. i \in 1 .. n /\ log'[i] = log[i]
      BY <1>1
    <2>4. CASE j = n + 1
      BY <1>1, <1>6, <2>3, <2>4
    <2>5. CASE j \in 1 .. n
      BY <1>1, <2>1, <2>3, <2>5
    <2> QED BY <1>1, <2>4, <2>5
  <1>13. StepsAccounted'
    <2> DEFINE Follows(p, s) ==
            LET a == LastStep(p)
                b == FirstStep(s)
            IN  b = Place(a[1], a[2] + 1)
                \/ (b[1] > a[1] /\ b[1] = s.ts /\ b[2] < SeedSpan)
    <2>1. \A i \in 1 .. n - 1 : Follows(log[i], log[i + 1])
      BY DEF StreamInv, StepsAccounted
    <2>2. n > 0 => Follows(log[n], r)
      <3>1. SUFFICES ASSUME n > 0 PROVE Follows(log[n], r)
        OBVIOUS
      <3>2. LastStep(log[n]) = <<StreamMs, low>>
        BY <1>5, <3>1 DEF StreamInv, LogMeetsWord
      <3>3. \/ FirstStep(r) = Place(StreamMs, low + 1)
            \/ /\ FirstStep(r)[1] > StreamMs
               /\ FirstStep(r)[1] = r.ts /\ FirstStep(r)[2] < SeedSpan
        BY <1>5, <3>1 DEF Reserved
      <3> QED BY <3>2, <3>3
    <2>3. SUFFICES ASSUME NEW i \in 1 .. n
                   PROVE  Follows(log'[i], log'[i + 1])
      BY <1>1 DEF StepsAccounted
    <2>4. CASE i = n
      BY <1>1, <2>2, <2>4
    <2>5. CASE i \in 1 .. n - 1
      <3>1. i + 1 \in 1 .. n /\ i \in 1 .. n
        BY <1>1, <2>5
      <3>2. log'[i] = log[i] /\ log'[i + 1] = log[i + 1]
        BY <1>1, <3>1
      <3> QED BY <2>1, <2>5, <3>2
    <2> QED BY <1>1, <2>4, <2>5
  <1> QED BY <1>7, <1>8, <1>9, <1>10, <1>11, <1>12, <1>13 DEF StreamInv

LEMMA UnchangedInv ==
    ASSUME StreamInv, UNCHANGED <<hi, low, newest, log>>
    PROVE  StreamInv'
  BY DEF StreamInv, TypeOK, StreamNearNewest, UnusedIsFresh, LogSound, LogMeetsWord,
         LogBehindWord, LogOrdered, StepsAccounted, StreamMs

LEMMA InitInv == Init => StreamInv
  <1>1. SUFFICES ASSUME Init PROVE StreamInv
    OBVIOUS
  <1>2. hi = 0 /\ low = 0 /\ newest = 0 /\ log = <<>> /\ Len(log) = 0
    BY <1>1 DEF Init
  <1>3. TypeOK
    BY <1>2, SizeFacts DEF TypeOK
  <1> QED BY <1>2, <1>3
    DEF StreamInv, StreamNearNewest, UnusedIsFresh, LogSound, LogMeetsWord,
        LogBehindWord, LogOrdered, StepsAccounted

(* The invariant holds in every state of every behaviour.                  *)
THEOREM StreamInvariant == Spec => []StreamInv
  <1>1. StreamInv /\ [Next]_vars => StreamInv'
    BY StepKinds, ReservedInv, UnchangedInv
  <1> QED BY InitInv, <1>1, PTL DEF Spec

-----------------------------------------------------------------------------
(* The properties. *)

(* The word's fields keep their widths: hi never overflows 44 bits and low *)
(* never overflows 20, although the code adds to the packed word.          *)
THEOREM TypeCorrect == Spec => []TypeOK
  <1>1. StreamInv => TypeOK
    BY DEF StreamInv
  <1> QED BY <1>1, StreamInvariant, PTL

(* However many splits follow one another, the stream stays within the     *)
(* drift window of the newest timestamp it was moved by.                   *)
THEOREM NeverFarAhead == Spec => []StreamNearNewest
  <1>1. StreamInv => StreamNearNewest
    BY DEF StreamInv
  <1> QED BY <1>1, StreamInvariant, PTL

(* Between two values of a run the step difference is the steps consumed.  *)
THEOREM NoStepLost == Spec => []StepsAccounted
  <1>1. StreamInv => StepsAccounted
    BY DEF StreamInv
  <1> QED BY <1>1, StreamInvariant, PTL

(* A call within ClampWindow - DriftWindow of the newest reserved          *)
(* timestamp is never minted out of stream.                                *)
THEOREM OrderingWindow == Spec => OrderedWithinTenSeconds
  <1> DEFINE Kept == ( /\ last'.ts <= StreamLast
                       /\ last'.ts + (ClampWindow - DriftWindow) >= newest )
                     => last'.mode # "outside"
  <1>1. ASSUME StreamInv, Next PROVE Kept
    <2>1. PICK c \in Calls :
              \/ RefuseTime(c) \/ EmptyBatch(c) \/ RefuseCount(c) \/ DrawFails(c)
              \/ MintOutside(c) \/ Exhaust(c)
              \/ Advance(c) \/ Extend(c) \/ Split(c)
      BY <1>1 DEF Next, Serve
    <2>2. CASE \/ RefuseTime(c) \/ EmptyBatch(c) \/ RefuseCount(c) \/ DrawFails(c)
               \/ Exhaust(c)
      <3>1. last'.mode = "none"
        BY <2>2 DEF RefuseTime, EmptyBatch, RefuseCount, DrawFails, Exhaust, Refuse, Outcome
      <3> QED BY <3>1
    <2>3. CASE Advance(c) \/ Extend(c) \/ Split(c)
      <3>1. last'.mode = "stream"
        BY <2>3 DEF Advance, Extend, Split, Reserve, Outcome
      <3> QED BY <3>1
    <2>4. CASE MintOutside(c)
      <3>1. last'.ts = c.ts /\ OutOfStream(hi, c.ts)
        BY <2>4 DEF MintOutside, Outcome
      <3>2. c.ts \in Nat
        BY CallTypes
      <3>3. SUFFICES ASSUME c.ts <= StreamLast, c.ts + (ClampWindow - DriftWindow) >= newest
                     PROVE  FALSE
        BY <3>1
      <3>4. hi > 0 /\ StreamMs - c.ts > ClampWindow
        BY <1>1, <3>1, <3>2, <3>3, SizeFacts
        DEF OutOfStream, FarBehind, Advances, StreamInv, TypeOK, StreamMs
      <3>5. StreamMs <= newest + DriftWindow /\ newest \in Nat /\ StreamMs \in Int
        BY <1>1, <3>4, SizeFacts DEF StreamInv, StreamNearNewest, TypeOK, StreamMs
      <3> QED BY <3>2, <3>3, <3>4, <3>5, SizeFacts
    <2> QED BY <2>1, <2>2, <2>3, <2>4
  <1>2. StreamInv /\ [Next]_vars => [Kept]_vars
    BY <1>1
  <1> QED BY <1>2, StreamInvariant, PTL DEF Spec, OrderedWithinTenSeconds

(* Later steps are later places.                                           *)
LEMMA PlaceMono ==
    ASSUME NEW ms \in Int, NEW s \in Nat, NEW t \in Nat, s < t, t < 2 * Steps
    PROVE  Before(Place(ms, s), Place(ms, t))
  <1>1. CASE t < Steps
    BY <1>1, PlaceCases, SizeFacts DEF Before
  <1>2. CASE s < Steps /\ t >= Steps
    BY <1>2, PlaceCases, SizeFacts DEF Before
  <1>3. CASE s >= Steps
    <2>1. t >= Steps /\ s - Steps < t - Steps
      BY <1>3, SizeFacts
    <2>2. Place(ms, s) = <<ms + 1, s - Steps>> /\ Place(ms, t) = <<ms + 1, t - Steps>>
      BY <1>3, <2>1, PlaceCases
    <2> QED BY <2>1, <2>2 DEF Before
  <1> QED BY <1>1, <1>2, <1>3, SizeFacts

(* The step of UUID i of a sound reservation, and what its low bits are.   *)
LEMMA IdParts ==
    ASSUME NEW r, Sound(r), NEW i \in 0 .. r.n - 1
    PROVE  \E s \in Nat, b \in 0 .. StepSize - 1 :
             /\ s = r.first + i \div StepSize
             /\ b = r.bits + (i % StepSize)
             /\ r.first <= s /\ s <= r.first + StepsFor(r.n) - 1
             /\ Id(r, i) = <<Place(r.ms, s)[1], (Place(r.ms, s)[2] * StepSize) + b>>
  <1>1. /\ r.n \in 1 .. MaxBatch /\ r.first \in Nat /\ i \in Nat
        /\ r.bits \in 0 .. StepSize - 1 /\ (r.bits = 0 \/ r.n = 1)
    BY DEF Sound, Reservations
  <1>2. i \div StepSize \in 0 .. StepsFor(r.n) - 1 /\ StepsFor(r.n) \in Nat
    BY <1>1, ItemStep, StepsForRange
  <1>3. i % StepSize \in 0 .. StepSize - 1
    BY <1>1, SizeFacts, DivMod
  <1>4. r.bits + (i % StepSize) \in 0 .. StepSize - 1
    <2>1. CASE r.bits = 0
      BY <1>3, <2>1, SizeFacts
    <2>2. CASE r.n = 1
      <3>1. i = 0
        BY <1>1, <2>2
      <3>2. 0 % StepSize = 0
        BY SizeFacts, SMTT(20)
      <3> QED BY <1>1, <3>1, <3>2, SizeFacts
    <2> QED BY <1>1, <2>1, <2>2
  <1> DEFINE s == r.first + i \div StepSize
             b == r.bits + (i % StepSize)
  <1>5. s \in Nat /\ r.first <= s /\ s <= r.first + StepsFor(r.n) - 1
    BY <1>1, <1>2
  <1>6. Id(r, i) = <<Place(r.ms, s)[1], (Place(r.ms, s)[2] * StepSize) + b>>
    <2>1. Place(r.ms, s)[2] \in Int
      <3>1. r.ms \in Int
        BY DEF Sound, Reservations
      <3> HIDE DEF s
      <3> QED BY <1>5, <3>1, SizeFacts DEF Place
    <2>2. Id(r, i) = <<Place(r.ms, s)[1], (Place(r.ms, s)[2] * StepSize) + r.bits + (i % StepSize)>>
      BY DEF Id
    <2>3. Place(r.ms, s)[2] * StepSize \in Int
      BY <2>1, SizeFacts
    <2> HIDE DEF s
    <2> QED BY <1>1, <1>3, <2>2, <2>3, SizeFacts
  <1> HIDE DEF s
  <1>7. s \in Nat /\ b \in 0 .. StepSize - 1
    BY <1>4, <1>5
  <1> QED BY <1>5, <1>6, <1>7 DEF s

(* Counters in order when their steps are.                                 *)
LEMMA CountersBefore ==
    ASSUME NEW p \in Int \X (0 .. Steps - 1), NEW q \in Int \X (0 .. Steps - 1), Before(p, q),
           NEW b \in 0 .. StepSize - 1, NEW d \in 0 .. StepSize - 1
    PROVE  Before(<<p[1], (p[2] * StepSize) + b>>, <<q[1], (q[2] * StepSize) + d>>)
  <1>1. p[2] \in Nat /\ q[2] \in Nat /\ d \in Nat
    BY SizeFacts
  <1>2. CASE p[1] < q[1]
    BY <1>2 DEF Before
  <1>3. CASE p[1] = q[1] /\ p[2] < q[2]
    <2>1. (p[2] * StepSize) + b < (q[2] * StepSize) + d
      BY <1>1, <1>3, CounterMono
    <2> QED BY <1>3, <2>1 DEF Before
  <1> QED BY <1>2, <1>3 DEF Before

(* Places of a sound reservation's steps.                                  *)
LEMMA PlacesIn ==
    ASSUME NEW r, Sound(r), NEW s \in Nat,
           r.first <= s, s <= r.first + StepsFor(r.n) - 1
    PROVE  /\ Place(r.ms, s) \in Int \X (0 .. Steps - 1)
           /\ ~Before(Place(r.ms, s), FirstStep(r))
           /\ ~Before(LastStep(r), Place(r.ms, s))
  <1>1. r.ms \in Nat /\ r.first \in Nat /\ StepsFor(r.n) \in 1 .. Steps
        /\ r.first + StepsFor(r.n) <= 2 * Steps
    BY StepsForRange DEF Sound, Reservations
  <1>2. PICK f \in Nat : f = r.first
    BY <1>1
  <1>3. PICK l \in Nat : l = r.first + StepsFor(r.n) - 1
    BY <1>1
  <1>4. f <= s /\ s <= l /\ l < 2 * Steps
    BY <1>1, <1>2, <1>3, SizeFacts
  <1>5. \A x \in Nat : x < 2 * Steps => Place(r.ms, x) \in Int \X (0 .. Steps - 1)
    BY <1>1, SizeFacts DEF Place
  <1>6. \A p, q \in Int \X (0 .. Steps - 1) : p = q \/ Before(p, q) => ~Before(q, p)
    BY SizeFacts DEF Before
  <1>7. f = s \/ Before(Place(r.ms, f), Place(r.ms, s))
    BY <1>1, <1>4, PlaceMono, SizeFacts
  <1>8. s = l \/ Before(Place(r.ms, s), Place(r.ms, l))
    BY <1>1, <1>4, PlaceMono, SizeFacts
  <1>9. FirstStep(r) = Place(r.ms, f) /\ LastStep(r) = Place(r.ms, l)
    BY <1>2, <1>3 DEF FirstStep, LastStep
  <1>10. /\ Place(r.ms, f) \in Int \X (0 .. Steps - 1)
         /\ Place(r.ms, s) \in Int \X (0 .. Steps - 1)
         /\ Place(r.ms, l) \in Int \X (0 .. Steps - 1)
    BY <1>4, <1>5, SizeFacts
  <1>11. ~Before(Place(r.ms, s), FirstStep(r)) /\ ~Before(LastStep(r), Place(r.ms, s))
    BY <1>6, <1>7, <1>8, <1>9, <1>10
  <1> QED BY <1>10, <1>11

(* The UUIDs of one reservation are in order.                              *)
LEMMA IdsWithin ==
    ASSUME NEW r, Sound(r), NEW a \in 0 .. r.n - 1, NEW b \in 0 .. r.n - 1, a < b
    PROVE  Before(Id(r, a), Id(r, b))
  <1>1. PICK s \in Nat, d \in 0 .. StepSize - 1 :
             /\ s = r.first + a \div StepSize
             /\ d = r.bits + (a % StepSize)
             /\ r.first <= s /\ s <= r.first + StepsFor(r.n) - 1
             /\ Id(r, a) = <<Place(r.ms, s)[1], (Place(r.ms, s)[2] * StepSize) + d>>
    BY IdParts
  <1>2. PICK t \in Nat, e \in 0 .. StepSize - 1 :
             /\ t = r.first + b \div StepSize
             /\ e = r.bits + (b % StepSize)
             /\ r.first <= t /\ t <= r.first + StepsFor(r.n) - 1
             /\ Id(r, b) = <<Place(r.ms, t)[1], (Place(r.ms, t)[2] * StepSize) + e>>
    BY IdParts
  <1>3. /\ Place(r.ms, s) \in Int \X (0 .. Steps - 1)
        /\ Place(r.ms, t) \in Int \X (0 .. Steps - 1)
    BY <1>1, <1>2, PlacesIn
  <1>4. r.ms \in Int /\ r.first \in Nat /\ r.bits \in Nat /\ t < 2 * Steps
        /\ a \in Nat /\ b \in Nat /\ StepSize \in Nat \ {0}
    BY <1>2, StepsForRange, SizeFacts DEF Sound, Reservations
  <1>5. /\ a \div StepSize \in Nat /\ a % StepSize \in 0 .. StepSize - 1
        /\ a = StepSize * (a \div StepSize) + (a % StepSize)
    BY <1>4, DivMod
  <1>6. /\ b \div StepSize \in Nat /\ b % StepSize \in 0 .. StepSize - 1
        /\ b = StepSize * (b \div StepSize) + (b % StepSize)
    BY <1>4, DivMod
  <1>7. CASE a \div StepSize < b \div StepSize
    <2>1. s < t
      BY <1>1, <1>2, <1>4, <1>5, <1>6, <1>7
    <2>2. Before(Place(r.ms, s), Place(r.ms, t))
      BY <1>4, <2>1, PlaceMono
    <2> QED BY <1>1, <1>2, <1>3, <2>2, CountersBefore
  <1>8. CASE a \div StepSize = b \div StepSize
    <2>1. s = t /\ a % StepSize < b % StepSize
      <3>1. s = t /\ StepSize * (a \div StepSize) = StepSize * (b \div StepSize)
        BY <1>1, <1>2, <1>8
      <3>2. PICK m \in Nat : m = StepSize * (a \div StepSize)
        BY <1>4, <1>5
      <3>3. a = m + (a % StepSize) /\ b = m + (b % StepSize)
        BY <1>5, <1>6, <3>1, <3>2
      <3> QED BY <1>4, <1>5, <1>6, <3>1, <3>2, <3>3
    <2>2. d < e
      BY <1>1, <1>2, <1>4, <1>5, <1>6, <2>1
    <2>3. (Place(r.ms, s)[2] * StepSize) + d < (Place(r.ms, s)[2] * StepSize) + e
      BY <1>3, <2>2, SizeFacts
    <2> QED BY <1>1, <1>2, <2>1, <2>3 DEF Before
  <1>9. ~(b \div StepSize < a \div StepSize)
    <2>1. SUFFICES ASSUME b \div StepSize < a \div StepSize PROVE FALSE
      OBVIOUS
    <2>2. PICK x \in Nat : x = a \div StepSize
      BY <1>5
    <2>3. PICK y \in Nat : y = b \div StepSize
      BY <1>6
    <2>4. StepSize * (y + 1) <= StepSize * x /\ StepSize * (y + 1) = StepSize * y + StepSize
      BY <2>1, <2>2, <2>3, MulMono, SizeFacts
    <2>5. StepSize * x \in Nat /\ StepSize * y \in Nat
      BY SizeFacts
    <2> QED BY <1>4, <1>5, <1>6, <2>2, <2>3, <2>4, <2>5, SizeFacts
  <1> QED BY <1>5, <1>6, <1>7, <1>8, <1>9

(* The UUIDs of a later reservation come after those of an earlier one.    *)
LEMMA IdsAcross ==
    ASSUME NEW r, Sound(r), NEW q, Sound(q), Before(LastStep(r), FirstStep(q)),
           NEW a \in 0 .. r.n - 1, NEW b \in 0 .. q.n - 1
    PROVE  Before(Id(r, a), Id(q, b))
  <1>1. PICK s \in Nat, d \in 0 .. StepSize - 1 :
             /\ r.first <= s /\ s <= r.first + StepsFor(r.n) - 1
             /\ Id(r, a) = <<Place(r.ms, s)[1], (Place(r.ms, s)[2] * StepSize) + d>>
    BY IdParts
  <1>2. PICK t \in Nat, e \in 0 .. StepSize - 1 :
             /\ q.first <= t /\ t <= q.first + StepsFor(q.n) - 1
             /\ Id(q, b) = <<Place(q.ms, t)[1], (Place(q.ms, t)[2] * StepSize) + e>>
    BY IdParts
  <1>3. /\ Place(r.ms, s) \in Int \X (0 .. Steps - 1)
        /\ ~Before(LastStep(r), Place(r.ms, s))
    BY <1>1, PlacesIn
  <1>4. /\ Place(q.ms, t) \in Int \X (0 .. Steps - 1)
        /\ ~Before(Place(q.ms, t), FirstStep(q))
    BY <1>2, PlacesIn
  <1>5. LastStep(r) \in Int \X (0 .. Steps - 1) /\ FirstStep(q) \in Int \X (0 .. Steps - 1)
    BY StepPairs
  <1>6. \A u, v, w, x \in Int \X (0 .. Steps - 1) :
           ~Before(v, u) /\ Before(v, w) /\ ~Before(x, w) => Before(u, x)
    BY SizeFacts DEF Before
  <1>7. Before(Place(r.ms, s), Place(q.ms, t))
    BY <1>3, <1>4, <1>5, <1>6
  <1> QED BY <1>1, <1>2, <1>3, <1>4, <1>7, CountersBefore

(* No two UUIDs of the stream are equal, and each sorts after all those    *)
(* reserved before it.                                                     *)
THEOREM StreamOrdered == Spec => []StrictlyIncreasing
  <1>1. ASSUME StreamInv PROVE StrictlyIncreasing
    <2>1. \A i \in 1 .. Len(log) : Sound(log[i])
      BY <1>1 DEF StreamInv, LogSound
    <2>2. \A j \in 1 .. Len(log) : \A i \in 1 .. j - 1 :
             Before(LastStep(log[i]), FirstStep(log[j]))
      BY <1>1 DEF StreamInv, LogOrdered
    <2>3. Len(log) \in Nat
      BY <1>1 DEF StreamInv, TypeOK
    <2>4. \A j \in 1 .. Len(log) : \A a, b \in 0 .. log[j].n - 1 :
             a < b => Before(Id(log[j], a), Id(log[j], b))
      BY <2>1, IdsWithin
    <2>5. ASSUME NEW j \in 1 .. Len(log), NEW i \in 1 .. j - 1,
                 NEW a \in 0 .. log[i].n - 1, NEW b \in 0 .. log[j].n - 1
          PROVE  Before(Id(log[i], a), Id(log[j], b))
      <3>1. i \in 1 .. Len(log)
        BY <2>3
      <3>2. Sound(log[i]) /\ Sound(log[j]) /\ Before(LastStep(log[i]), FirstStep(log[j]))
        BY <2>1, <2>2, <3>1
      <3> QED BY <3>2, IdsAcross
    <2> QED BY <2>4, <2>5 DEF StrictlyIncreasing
  <1> QED BY <1>1, StreamInvariant, PTL

-----------------------------------------------------------------------------
(* What the last call minted. *)

LastInv ==
    /\ last.mode \in {"none", "stream", "outside"}
    /\ last.mode # "none" =>
          Sound(last.res) /\ NearCaller(last.res) /\ last.res.ts = last.ts
    /\ last.mode = "outside" =>
          last.res.ms = last.ts /\ last.res.first + StepsFor(last.res.n) <= Steps

(* A call minted outside the stream stays inside its own millisecond.      *)
LEMMA OutsideInv ==
    ASSUME NEW c \in Calls, MintOutside(c)
    PROVE  LastInv'
  <1> DEFINE k == StepsFor(c.n)
  <1>1. PICK seed \in Seeds(k) : last' = Outcome(c.op, c.ts, Ok, "outside", Reservation(c, c.ts, seed))
    BY DEF MintOutside
  <1>2. c.n \in 1 .. MaxBatch /\ c.ts \in Nat
    BY CallTypes DEF MintOutside, Admitted
  <1>3. k \in 1 .. Steps
    BY <1>2, StepsForRange
  <1>4. seed \in Nat /\ seed + k <= Steps
    BY <1>3, SeedFits
  <1> DEFINE r == Reservation(c, c.ts, seed)
  <1>5. Sound(r) /\ NearCaller(r)
    BY <1>2, <1>3, <1>4, CallTypes, SizeFacts
    DEF Reservation, Sound, NearCaller, Reservations
  <1>6. r.ms = c.ts /\ r.ts = c.ts /\ r.first + StepsFor(r.n) <= Steps
    BY <1>4 DEF Reservation
  <1>7. last'.mode = "outside" /\ last'.ts = c.ts /\ last'.res = r
    BY <1>1 DEF Outcome
  <1> HIDE DEF r
  <1> QED BY <1>5, <1>6, <1>7 DEF LastInv

LEMMA LastStepInv == StreamInv /\ LastInv /\ [Next]_vars => LastInv'
  <1> SUFFICES ASSUME StreamInv, LastInv, [Next]_vars PROVE LastInv'
    OBVIOUS
  <1>1. CASE UNCHANGED vars
    BY <1>1 DEF vars, LastInv
  <1>2. CASE Next
    <2>1. PICK c \in Calls :
              \/ RefuseTime(c) \/ EmptyBatch(c) \/ RefuseCount(c) \/ DrawFails(c)
              \/ MintOutside(c) \/ Exhaust(c)
              \/ Advance(c) \/ Extend(c) \/ Split(c)
      BY <1>2 DEF Next, Serve
    <2>2. CASE \/ RefuseTime(c) \/ EmptyBatch(c) \/ RefuseCount(c) \/ DrawFails(c)
               \/ Exhaust(c)
      <3>1. last'.mode = "none"
        BY <2>2 DEF RefuseTime, EmptyBatch, RefuseCount, DrawFails, Exhaust, Refuse, Outcome
      <3> QED BY <3>1 DEF LastInv
    <2>3. CASE MintOutside(c)
      BY <2>3, OutsideInv
    <2>4. CASE Advance(c) \/ Extend(c) \/ Split(c)
      <3>1. PICK r : Reserved(r)
        BY <2>4, AdvanceReserves, ExtendReserves, SplitReserves
      <3>2. last'.mode = "stream" /\ last'.ts = r.ts /\ last'.res = r /\ Sound(r) /\ NearCaller(r)
        BY <3>1 DEF Reserved, Outcome
      <3> QED BY <3>2 DEF LastInv
    <2> QED BY <2>1, <2>2, <2>3, <2>4
  <1> QED BY <1>1, <1>2

(* The embedded timestamp is at most ClampWindow ahead of the supplied one *)
(* and never behind it; a split's tail at most DriftWindow ahead; out of   *)
(* the stream it is the supplied one.                                      *)
THEOREM EmbeddedBound == Spec => []EmbeddedNearSupplied
  <1>1. Init => LastInv
    BY DEF Init, LastInv, Outcome
  <1>2. Spec => []LastInv
    BY <1>1, LastStepInv, StreamInvariant, PTL DEF Spec
  <1>3. ASSUME LastInv PROVE EmbeddedNearSupplied
    <2>1. SUFFICES ASSUME last.mode # "none", NEW i \in 0 .. last.res.n - 1
                   PROVE  LET ms == Id(last.res, i)[1]
                              ts == last.ts
                          IN  /\ ts <= ms /\ ms <= ts + ClampWindow
                              /\ ms > last.res.ms => ms <= ts + DriftWindow
                              /\ last.mode = "outside" => ms = ts
      BY DEF EmbeddedNearSupplied
    <2> DEFINE r == last.res
    <2>2. Sound(r) /\ NearCaller(r) /\ r.ts = last.ts
      BY <1>3, <2>1 DEF LastInv
    <2>3. last.mode = "outside" => r.ms = last.ts /\ r.first + StepsFor(r.n) <= Steps
      BY <1>3 DEF LastInv
    <2> HIDE DEF r
    <2>4. i \in 0 .. r.n - 1
      BY DEF r
    <2>5. PICK s \in Nat, b \in 0 .. StepSize - 1 :
               /\ r.first <= s /\ s <= r.first + StepsFor(r.n) - 1
               /\ Id(r, i) = <<Place(r.ms, s)[1], (Place(r.ms, s)[2] * StepSize) + b>>
      BY <2>2, <2>4, IdParts
    <2>6. r.ms \in Nat /\ r.ts \in Nat /\ r.first \in Nat /\ StepsFor(r.n) \in 1 .. Steps
      BY <2>2, StepsForRange DEF Sound, Reservations
    <2>7. Id(r, i)[1] = IF s >= Steps THEN r.ms + 1 ELSE r.ms
      BY <2>5, <2>6 DEF Place
    <2>8. s >= Steps => r.first + StepsFor(r.n) > Steps
      BY <2>5, <2>6, SizeFacts
    <2>9. LET ms == Id(r, i)[1]
              ts == r.ts
          IN  /\ ts <= ms /\ ms <= ts + ClampWindow
              /\ ms > r.ms => ms <= ts + DriftWindow
      BY <2>2, <2>6, <2>7, <2>8, SizeFacts DEF NearCaller
    <2>10. last.mode = "outside" => Id(r, i)[1] = r.ts
      BY <2>2, <2>3, <2>6, <2>7, <2>8, SizeFacts
    <2> QED BY <2>2, <2>9, <2>10 DEF r
  <1> QED BY <1>2, <1>3, PTL

-----------------------------------------------------------------------------
(* Steps given out before a call is refused for exhaustion. *)

(* The stream's millisecond was entered by a caller's timestamp, from a    *)
(* seed; otherwise a split went on into it, from its step 0.               *)
Seeded ==
    \E i \in 1 .. Len(log) :
        /\ log[i].ts = StreamMs /\ FirstStep(log[i])[1] = StreamMs
        /\ i = 1 \/ LastStep(log[i - 1])[1] < StreamMs

(* From there to the word, every step was given out.                       *)
Filled ==
    hi > 0 => \A s \in (IF Seeded THEN SeedSpan - 1 ELSE 0) .. low : s \in StepsTaken(StreamMs)

(* A single is refused only after the millisecond's last step.             *)
RefusedWhenFull == (last.rc = Exhausted /\ last.op = "single") => hi > 0 /\ low = Steps - 1

CapacityInv == Filled /\ RefusedWhenFull

(* What a reservation took stays taken, and its own steps join.            *)
LEMMA TakenGrows ==
    ASSUME StreamInv, NEW r, Reserved(r), NEW ms, NEW s \in 0 .. Steps - 1,
           \/ s \in StepsTaken(ms)
           \/ ~Before(<<ms, s>>, FirstStep(r)) /\ ~Before(LastStep(r), <<ms, s>>)
    PROVE  s \in StepsTaken(ms)'
  <1> DEFINE n == Len(log)
  <1>1. /\ n \in Nat /\ Len(log') = n + 1 /\ log'[n + 1] = r
        /\ \A i \in 1 .. n : log'[i] = log[i]
    BY Appended
  <1> SUFFICES \E i \in 1 .. Len(log') :
                  /\ ~Before(<<ms, s>>, FirstStep(log'[i]))
                  /\ ~Before(LastStep(log'[i]), <<ms, s>>)
    BY DEF StepsTaken
  <1>2. CASE s \in StepsTaken(ms)
    <2>1. PICK i \in 1 .. n : /\ ~Before(<<ms, s>>, FirstStep(log[i]))
                              /\ ~Before(LastStep(log[i]), <<ms, s>>)
      BY <1>2 DEF StepsTaken
    <2> QED BY <1>1, <2>1
  <1>3. CASE ~Before(<<ms, s>>, FirstStep(r)) /\ ~Before(LastStep(r), <<ms, s>>)
    <2>1. n + 1 \in 1 .. Len(log')
      BY <1>1
    <2> QED BY <1>1, <1>3, <2>1
  <1> QED BY <1>2, <1>3

(* A reservation fills its last millisecond up to the word.                *)
LEMMA ReservedFills ==
    ASSUME StreamInv, Filled, NEW r, Reserved(r)
    PROVE  Filled'
  <1> DEFINE n == Len(log)
             f == FirstStep(r)
  <1>1. /\ n \in Nat /\ Len(log') = n + 1 /\ log'[n + 1] = r
        /\ \A i \in 1 .. n : log'[i] = log[i]
    BY Appended
  <1>2. /\ hi \in Nat /\ low \in Nat /\ low <= Steps - 1 /\ StreamMs = hi - 1
        /\ hi' \in Nat /\ low' \in Nat /\ low' <= Steps - 1
    BY SizeFacts DEF StreamInv, TypeOK, Reserved, StreamMs
  <1> PICK ms \in Int : ms = hi' - 1
    <2>1. hi' - 1 \in Int
      BY <1>2
    <2> WITNESS hi' - 1 \in Int
    <2> QED OBVIOUS
  <1>3. /\ f \in Int \X (0 .. Steps - 1) /\ ~Before(<<ms, low'>>, f)
        /\ LastStep(r) = <<ms, low'>> /\ StreamMs' = ms
    BY StepPairs DEF Reserved, StreamMs
  <1>4. f[1] \in Int /\ f[2] \in 0 .. Steps - 1 /\ f[1] <= ms
    BY <1>2, <1>3, SizeFacts DEF Before
  <1>5. hi > 0 => n > 0 /\ LastStep(log[n]) = <<StreamMs, low>>
    BY DEF StreamInv, LogMeetsWord
  <1>6. hi = 0 => n = 0
    BY DEF StreamInv, UnusedIsFresh
  <1> HIDE DEF n, f
  <1>7. ASSUME NEW s \in 0 .. low', f[1] < ms \/ f[2] <= s
        PROVE  s \in StepsTaken(ms)'
    <2>1. s \in 0 .. Steps - 1
      BY <1>2, SizeFacts
    <2>2. f[1] \in Int /\ f[2] \in Int /\ f[1] <= ms /\ s \in Int
      BY <1>4, <2>1, SizeFacts
    <2>3. ~Before(<<ms, s>>, f)
      BY <1>7, <2>2 DEF Before
    <2>4. s <= low' /\ low' \in Int
      BY <1>2
    <2>5. ~Before(<<ms, low'>>, <<ms, s>>)
      <3>1. \A a, b \in Int : b <= a => ~Before(<<ms, a>>, <<ms, b>>)
        BY DEF Before
      <3> QED BY <2>2, <2>4, <3>1
    <2> QED BY <1>3, <2>1, <2>3, <2>5, TakenGrows DEF f
  <1>8. SUFFICES ASSUME NEW s \in (IF Seeded' THEN SeedSpan - 1 ELSE 0) .. low'
                 PROVE  s \in StepsTaken(ms)'
    BY <1>3 DEF Filled, StepsTaken
  <1>9. s \in 0 .. low'
    BY <1>2, SizeFacts, SizesAssumption
  <1>10. CASE f[1] < ms \/ f[2] = 0
    BY <1>7, <1>9, <1>10
  <1>11. CASE f[1] = ms /\ f[1] = r.ts /\ f[2] < SeedSpan /\ (hi = 0 \/ f[1] > StreamMs)
    <2>1. n = 0 \/ LastStep(log'[n])[1] < ms
      <3>1. CASE hi > 0
        <4>1. log'[n] = log[n]
          BY <1>1, <1>5, <3>1
        <4>2. LastStep(log'[n]) = <<StreamMs, low>>
          BY <1>5, <3>1, <4>1
        <4>3. LastStep(log'[n])[1] = StreamMs
          BY <4>2
        <4>4. hi # 0
          BY <3>1
        <4> QED BY <1>11, <4>3, <4>4
      <3> QED BY <1>2, <1>6, <3>1
    <2>2. /\ n + 1 \in 1 .. Len(log') /\ (n + 1) - 1 = n
          /\ log'[n + 1].ts = ms /\ FirstStep(log'[n + 1])[1] = ms
      BY <1>1, <1>11 DEF f
    <2>3. Seeded'
      BY <1>3, <2>1, <2>2 DEF Seeded
    <2>4. f[2] <= s
      BY <1>4, <1>11, <2>3, SizeFacts
    <2> QED BY <1>7, <1>9, <2>4
  <1>12. CASE f = Place(StreamMs, low + 1) /\ hi > 0 /\ f[1] = ms /\ f[2] # 0
    <2>1. f = <<StreamMs, low + 1>>
      BY <1>2, <1>12, SizeFacts DEF Place
    <2>2. ms = StreamMs
      BY <1>12, <2>1
    <2>3. CASE s >= low + 1
      BY <1>7, <1>9, <2>1, <2>3
    <2>4. CASE s <= low
      <3>1. Seeded => Seeded'
        <4>1. SUFFICES ASSUME Seeded PROVE Seeded'
          OBVIOUS
        <4>2. PICK i \in 1 .. n : /\ log[i].ts = StreamMs /\ FirstStep(log[i])[1] = StreamMs
                                  /\ i = 1 \/ LastStep(log[i - 1])[1] < StreamMs
          BY <4>1 DEF Seeded, n
        <4>3. i \in 1 .. Len(log') /\ log'[i] = log[i] /\ (i = 1 \/ log'[i - 1] = log[i - 1])
          BY <1>1
        <4> QED BY <1>3, <2>2, <4>2, <4>3 DEF Seeded
      <3>2. Seeded' => Seeded
        <4>1. SUFFICES ASSUME Seeded' PROVE Seeded
          OBVIOUS
        <4>2. PICK i \in 1 .. n + 1 :
                  /\ log'[i].ts = StreamMs /\ FirstStep(log'[i])[1] = StreamMs
                  /\ i = 1 \/ LastStep(log'[i - 1])[1] < StreamMs
          BY <1>1, <1>3, <2>2, <4>1 DEF Seeded
        <4>3. i # n + 1
          <5>1. LastStep(log'[n])[1] = StreamMs /\ n > 0
            BY <1>1, <1>5, <1>12
          <5> QED BY <1>1, <1>2, <4>2, <5>1
        <4>4. i \in 1 .. n /\ log'[i] = log[i] /\ (i = 1 \/ log'[i - 1] = log[i - 1])
          BY <1>1, <4>2, <4>3
        <4> QED BY <4>2, <4>4 DEF Seeded, n
      <3>3. s \in (IF Seeded THEN SeedSpan - 1 ELSE 0) .. low
        BY <1>2, <1>9, <2>4, <3>1, <3>2, SizeFacts
      <3>4. s \in StepsTaken(StreamMs)
        BY <1>12, <3>3 DEF Filled
      <3>5. s \in 0 .. Steps - 1
        BY <1>2, <1>9, <2>4, SizeFacts
      <3>6. s \in StepsTaken(ms)
        BY <2>2, <3>4
      <3> QED BY <3>5, <3>6, TakenGrows
    <2> QED BY <1>2, <1>9, <2>3, <2>4
  <1>13. /\ hi > 0 => f = Place(StreamMs, low + 1)
                      \/ (f[1] > StreamMs /\ f[1] = r.ts /\ f[2] < SeedSpan)
         /\ hi = 0 => f[1] = r.ts /\ f[2] < SeedSpan
    BY DEF Reserved, f
  <1> QED BY <1>2, <1>4, <1>10, <1>11, <1>12, <1>13

(* A single takes one step.                                                *)
LEMMA SingleStep == ASSUME 1 <= MaxBatch PROVE StepsFor(1) = 1
  <1>1. PICK q \in 1 .. Steps : q = StepsFor(1) /\ StepSize * q <= 1 + StepSize - 1
    <2>1. 1 \in 1 .. MaxBatch
      BY SizeFacts, SizesAssumption
    <2> QED BY <2>1, StepsForRange, StepsForCovers
  <1>2. StepSize * 2 > StepSize /\ StepSize * 2 \in Nat /\ StepSize * q \in Nat
    BY <1>1, SizeFacts
  <1>3. q >= 2 => StepSize * 2 <= StepSize * q
    BY <1>1, SizeFacts, MulMono
  <1> QED BY <1>1, <1>2, <1>3, SizeFacts

LEMMA StepRefused ==
    ASSUME StreamInv, RefusedWhenFull, [Next]_vars
    PROVE  RefusedWhenFull'
  <1>1. CASE UNCHANGED vars
    BY <1>1 DEF vars, RefusedWhenFull
  <1>2. CASE Next
    <2>1. PICK c \in Calls :
              \/ RefuseTime(c) \/ EmptyBatch(c) \/ RefuseCount(c) \/ DrawFails(c)
              \/ MintOutside(c) \/ Exhaust(c)
              \/ Advance(c) \/ Extend(c) \/ Split(c)
      BY <1>2 DEF Next, Serve
    <2>2. CASE \/ RefuseTime(c) \/ EmptyBatch(c) \/ RefuseCount(c) \/ DrawFails(c)
               \/ MintOutside(c) \/ Advance(c) \/ Extend(c) \/ Split(c)
      <3>1. last'.rc \in {Ok, RandomFailed, TimeRefused, CountRefused}
        BY <2>2 DEF RefuseTime, EmptyBatch, RefuseCount, DrawFails, Refuse, MintOutside,
                    Advance, Extend, Split, Reserve, Outcome
      <3> QED BY <3>1 DEF RefusedWhenFull, Ok, RandomFailed, TimeRefused, CountRefused, Exhausted
    <2>3. CASE Exhaust(c)
      <3>1. /\ last'.op = c.op /\ hi' = hi /\ low' = low
            /\ ~Advances(hi, c.ts) /\ ~Fits(low, StepsFor(c.n)) /\ c.n <= MaxBatch
        BY <2>3 DEF Exhaust, Refuse, Outcome, InStream, Admitted
      <3>2. SUFFICES ASSUME c.op = "single" PROVE hi > 0 /\ low = Steps - 1
        BY <3>1 DEF RefusedWhenFull
      <3>3. c.n = 1
        BY <3>2 DEF Calls, SingleCalls, BatchCalls
      <3>4. StepsFor(c.n) = 1
        BY <3>1, <3>3, SingleStep
      <3>5. hi \in 0 .. StreamLast + 1 /\ low \in 0 .. Steps - 1
        BY DEF StreamInv, TypeOK
      <3> QED BY <3>1, <3>4, <3>5, SizeFacts DEF Advances, Fits
    <2> QED BY <2>1, <2>2, <2>3
  <1> QED BY <1>1, <1>2

(* A single is refused for exhaustion only once its millisecond has given  *)
(* out all its steps from the seed, or all of them after a split.          *)
THEOREM CapacityFirst == Spec => []CapacityBeforeExhaustion
  <1>1. Init => CapacityInv
    BY DEF Init, CapacityInv, Filled, RefusedWhenFull, Outcome, Ok, Exhausted
  <1>2. StreamInv /\ CapacityInv /\ [Next]_vars => CapacityInv'
    <2> SUFFICES ASSUME StreamInv, CapacityInv, [Next]_vars PROVE CapacityInv'
      OBVIOUS
    <2>1. ASSUME UNCHANGED <<hi, low, newest, log>> PROVE Filled'
      <3>1. StreamMs' = StreamMs /\ Seeded' = Seeded
            /\ StepsTaken(StreamMs)' = StepsTaken(StreamMs)
        BY <2>1 DEF StreamMs, Seeded, StepsTaken
      <3> QED BY <2>1, <3>1 DEF CapacityInv, Filled, StreamMs, Seeded, StepsTaken
    <2>2. Filled'
      BY <2>1, StepKinds, ReservedFills DEF CapacityInv
    <2> QED BY <2>2, StepRefused DEF CapacityInv
  <1>3. Spec => []CapacityInv
    BY <1>1, <1>2, StreamInvariant, PTL DEF Spec
  <1>4. CapacityInv => CapacityBeforeExhaustion
    BY DEF CapacityInv, Filled, RefusedWhenFull, CapacityBeforeExhaustion, Seeded
  <1> QED BY <1>3, <1>4, PTL
=============================================================================
