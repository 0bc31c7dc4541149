------------------------- MODULE GuestMemoryProofs --------------------------
(***************************************************************************)
(* Proofs about GuestMemory, for every page size, host and guest limit.    *)
(*                                                                         *)
(* The four invariants are inductive together: that a memory is as long as *)
(* its instance thinks (TypeOK) is what makes a growth by the missing      *)
(* pages never refused and never short.  The rest is the arithmetic of     *)
(* pages: PagesFor is the least number of them that holds the bytes.       *)
(***************************************************************************)
EXTENDS GuestMemory, TLAPS

LEMMA Monotone ==
    ASSUME NEW x \in Nat, NEW y \in Nat, NEW k \in Nat, x <= y
    PROVE  x * k <= y * k
OBVIOUS

LEMMA Cancels ==
    ASSUME NEW x \in Int, NEW y \in Int, NEW k \in Nat, x * k < y * k
    PROVE  x < y
<1>1. SUFFICES ASSUME y <= x PROVE FALSE
      OBVIOUS
<1>2. (x - y) * k >= 0
      BY <1>1
<1> QED BY <1>2

LEMMA WholePages ==
    ASSUME NEW k \in Nat, NEW s \in Nat \ {0}
    PROVE  (k * s) \div s = k
OBVIOUS

LEMMA Limits ==
    /\ PageSize \in Nat \ {0} /\ HostMaxPages \in Nat /\ HostMaxPages >= 3
    /\ NameOffset \in Nat /\ NameOffset <= PageSize
    /\ UuidSize \in Nat /\ MaxBatch \in Nat /\ MaxInt32 \in Nat
<1>1. MaxInt \div PageSize \in Nat
      BY MemoryAssumption
<1> QED BY <1>1, MemoryAssumption, BatchAssumption DEF HostMaxPages, Least, Own, Base

(* PagesFor holds the bytes, and one page less does not.                   *)
LEMMA PagesHold ==
    ASSUME NEW b \in Nat
    PROVE  /\ PagesFor(b) \in Nat
           /\ b <= PagesFor(b) * PageSize
           /\ b > 0 => (PagesFor(b) - 1) * PageSize < b
<1> DEFINE q == b \div PageSize
           m == b % PageSize
<1>1. q \in Nat /\ m \in Nat /\ m < PageSize /\ b = (q * PageSize) + m
      BY Limits
<1>2. CASE m = 0
      BY <1>1, <1>2, Limits DEF PagesFor
<1>3. CASE m # 0
  <2>1. PagesFor(b) = q + 1
        BY <1>3 DEF PagesFor
  <2>2. (q + 1) * PageSize = (q * PageSize) + PageSize
        BY <1>1, Limits
  <2> QED BY <2>1, <2>2, <1>1, <1>3, Limits
<1> QED BY <1>2, <1>3

(* Bytes that fit beside the module's own pages fit by pages.              *)
LEMMA FitsByBytes ==
    ASSUME NEW b \in Nat, b <= (HostMaxPages - Own) * PageSize
    PROVE  Fits(b)
<1> DEFINE p == PagesFor(b)
<1>0. HostMaxPages - Own \in Nat
      BY Limits DEF Own
<1>1. CASE b = 0
  <2>1. b \div PageSize = 0 /\ b % PageSize = 0
        BY <1>1, Limits
  <2> QED BY <2>1, <1>0, Limits DEF Fits, PagesFor, Own
<1>2. CASE b > 0
  <2>1. p \in Nat /\ (p - 1) * PageSize < b
        BY <1>2, PagesHold
  <2>2. p - 1 < HostMaxPages - Own
    <3> HIDE DEF p
    <3> DEFINE X == (p - 1) * PageSize
               Y == (HostMaxPages - Own) * PageSize
    <3>1. X \in Int /\ Y \in Int
          BY <2>1, <1>0, Limits
    <3>2. X < Y
      <4> HIDE DEF X, Y
      <4>1. X < b /\ b <= Y
            BY <2>1 DEF X, Y
      <4> QED BY <3>1, <4>1
    <3> QED BY <3>2, <2>1, <1>0, Cancels, Limits
  <2> QED BY <2>1, <2>2, Limits DEF Fits, Own
<1> QED BY <1>1, <1>2

(* A memory of whole pages takes whatever the host's pages leave room for. *)
LEMMA GrowAllowed ==
    ASSUME NEW k \in Nat, NEW d \in Nat, k + d <= HostMaxPages
    PROVE  /\ ~GrowRefused(k * PageSize, d)
           /\ Grown(k * PageSize, d) = (k + d) * PageSize
<1>1. (k * PageSize) \div PageSize = k
      BY WholePages, Limits
<1>2. (k * PageSize) + (d * PageSize) = (k + d) * PageSize
      BY Limits
<1> QED BY <1>1, <1>2, Limits DEF GrowRefused, Grown

MemoryInv == TypeOK /\ NameLimitExact /\ BatchFits /\ NothingRetained

LEMMA InitMemory == Init => MemoryInv
<1> SUFFICES ASSUME Init PROVE MemoryInv
    OBVIOUS
<1>1. TypeOK
  <2>1. Fresh \in Nat /\ 0 <= MaxBatch * UuidSize /\ MaxBatch * UuidSize \in Nat
        BY Limits DEF Fresh, Own
  <2> QED BY <2>1 DEF Init, TypeOK
<1>2. NameLimitExact /\ BatchFits /\ NothingRetained
      BY DEF Init, Call, NameLimitExact, BatchFits, NothingRetained
<1> QED BY <1>1, <1>2 DEF MemoryInv

(* A name within the limit, in bytes.                                      *)
LEMMA NameFits ==
    ASSUME NEW n \in Nat, n <= MaxV5Name
    PROVE  n + NameOffset <= (HostMaxPages - Own) * PageSize
<1>1. (HostMaxPages * PageSize) - (Own * PageSize) = (HostMaxPages - Own) * PageSize
      BY Limits DEF Own
<1>2. n <= (HostMaxPages * PageSize) - (Own * PageSize) - NameOffset
      BY MemoryAssumption, Limits DEF MaxV5Name, Least, Own
<1> QED BY <1>1, <1>2, Limits DEF Own

LEMMA MakePreserves ==
    ASSUME MemoryInv, NEW i \in Instances, Make(i)
    PROVE  MemoryInv'
<1>1. ~GrowRefused(Fresh, Base) /\ Grown(Fresh, Base) = (Own + Base) * PageSize
      BY GrowAllowed, Limits DEF Fresh, Own, Base
<1>2. /\ live' = live \cup {i} /\ largest' = largest
      /\ size' = [size EXCEPT ![i] = (Own + Base) * PageSize]
      /\ pages' = [pages EXCEPT ![i] = Base]
      /\ last' = Call("make", 0, "made")
      BY <1>1 DEF Make
<1>3. (Own + Base) * PageSize \in Nat /\ Own + Base <= HostMaxPages
      BY Limits DEF Own, Base
<1>4. TypeOK'
      BY <1>2, <1>3 DEF MemoryInv, TypeOK, Base
<1>5. NothingRetained'
      BY <1>2 DEF MemoryInv, TypeOK, NothingRetained, Base
<1>6. NameLimitExact' /\ BatchFits'
      BY <1>2 DEF NameLimitExact, BatchFits, Call
<1> QED BY <1>4, <1>5, <1>6 DEF MemoryInv

LEMMA LimitTyped == MaxV5Name \in Int
BY MemoryAssumption, Limits DEF MaxV5Name, Least, Own

(* A version 5 call leaves every memory as it was.                         *)
LEMMA AnswerPreserves ==
    ASSUME MemoryInv, NEW n \in Nat, UNCHANGED <<live, size, pages, largest>>,
           NEW w, last' = Call("v5", n, w), w = IF n <= MaxV5Name THEN "uuid" ELSE "too long"
    PROVE  MemoryInv'
<1>1. TypeOK' /\ NothingRetained'
      BY DEF MemoryInv, TypeOK, NothingRetained
<1>2. last'.op = "v5" /\ last'.n = n /\ last'.what = w
      BY Zenon DEF Call
<1>3. NameLimitExact' /\ BatchFits'
      BY <1>2 DEF NameLimitExact, BatchFits
<1> QED BY <1>1, <1>3 DEF MemoryInv

LEMMA LongAnswered ==
    ASSUME NEW n \in Nat, HashLong(n)
    PROVE  n <= MaxV5Name /\ last' = Call("v5", n, "uuid")
<1> DEFINE b == n + NameOffset
           p == PagesFor(b)
<1>0. n <= MaxV5Name
      BY Zenon DEF HashLong
<1>1. n <= MaxV5Name /\ b \in Nat
      BY <1>0, Limits
<1>2. Fits(b) /\ p \in Nat /\ b <= p * PageSize
      BY <1>1, NameFits, FitsByBytes, PagesHold
<1>3. ~GrowRefused(Fresh, p) /\ Grown(Fresh, p) = (Own + p) * PageSize
      BY <1>2, GrowAllowed, Limits DEF Fits, Fresh, Own
<1>4. (Own + p) * PageSize = (Own * PageSize) + (p * PageSize)
      BY <1>2, Limits DEF Own
<1>5. HashIn((Own + p) * PageSize, n) = "uuid"
  <2>1. Scratch + NameOffset + n <= (Own + p) * PageSize
        BY <1>1, <1>2, <1>4, Limits DEF Scratch, Own
  <2> QED BY <2>1 DEF HashIn
<1> QED BY <1>1, <1>2, <1>3, <1>5 DEF HashLong

LEMMA ShortAnswered ==
    ASSUME MemoryInv, NEW n \in Nat, NEW i \in Instances, HashShort(i, n)
    PROVE  n <= MaxV5Name /\ last' = Call("v5", n, "uuid")
<1>1. /\ n <= MaxV5Name /\ n + NameOffset <= Base * PageSize
      /\ pages[i] \in Nat /\ size[i] = (Own + pages[i]) * PageSize /\ pages[i] >= Base
      BY DEF HashShort, Short, MemoryInv, TypeOK
<1>2. Base * PageSize <= pages[i] * PageSize
      BY <1>1, Monotone, Limits DEF Base
<1>3. size[i] = (Own * PageSize) + (pages[i] * PageSize)
      BY <1>1, Limits DEF Own
<1>4. HashIn(size[i], n) = "uuid"
  <2>1. Scratch + NameOffset + n <= size[i]
        BY <1>1, <1>2, <1>3, Limits DEF Scratch, Own, Base
  <2> QED BY <2>1 DEF HashIn
<1> QED BY <1>1, <1>4 DEF HashShort

LEMMA BatchPreserves ==
    ASSUME MemoryInv, NEW n \in Nat, Batch(n)
    PROVE  MemoryInv'
<1> DEFINE b == n * UuidSize
           need == PagesFor(b)
           held == pages[Primary]
           delta == IF need <= held THEN 0 ELSE Missing(need, held)
           kept == IF need <= held THEN held ELSE need
<1>1. /\ Primary \in live /\ n > 0 /\ n <= MaxBatch
      /\ size[Primary] = (Own + held) * PageSize
      /\ held \in Nat /\ held >= Base /\ Own + held <= HostMaxPages
      /\ Primary \in Instances
      BY DEF Batch, MemoryInv, TypeOK, Instances
<1>2. /\ b \in Nat /\ b > 0 /\ b <= MaxBatch * UuidSize
      /\ b + (Own * PageSize) <= MaxInt32
      /\ b + (Own * PageSize) <= HostMaxPages * PageSize
  <2>1. b \in Nat /\ b <= MaxBatch * UuidSize
        BY <1>1, Monotone, Limits
  <2>2. UuidSize >= 1 /\ b > 0
        BY <1>1, MemoryAssumption
  <2>3. HostMaxPages * PageSize \in Nat /\ MaxBatch * UuidSize \in Nat /\ Own * PageSize \in Nat
        BY Limits DEF Own
  <2>4. /\ (MaxBatch * UuidSize) + (Own * PageSize) <= MaxInt32
        /\ (MaxBatch * UuidSize) + (Own * PageSize) <= HostMaxPages * PageSize
        BY <2>3, BatchAssumption, Limits DEF Least
  <2> QED BY <2>1, <2>2, <2>3, <2>4, Limits
<1>3. Fits(b) /\ need \in Nat /\ b <= need * PageSize /\ (need - 1) * PageSize < b
  <2>1. b <= (HostMaxPages - Own) * PageSize
    <3>1. (HostMaxPages - Own) * PageSize = (HostMaxPages * PageSize) - (Own * PageSize)
          BY Limits DEF Own
    <3> QED BY <3>1, <1>2, Limits DEF Own
  <2> QED BY <2>1, <1>2, FitsByBytes, PagesHold
<1>4. /\ delta \in Nat /\ Own + held + delta = Own + kept
      /\ kept \in Nat /\ kept >= Base /\ need <= kept /\ Own + kept <= HostMaxPages
      BY <1>1, <1>3, Limits DEF Missing, Fits, Own, Base
<1>5. ~GrowRefused(size[Primary], delta) /\ Grown(size[Primary], delta) = (Own + kept) * PageSize
  <2> HIDE DEF delta, kept, held
  <2>1. Own + held \in Nat /\ (Own + held) + delta <= HostMaxPages
        BY <1>1, <1>4, Limits DEF Own
  <2> QED BY <2>1, <1>1, <1>4, GrowAllowed
<1>6. /\ size' = [size EXCEPT ![Primary] = (Own + kept) * PageSize]
      /\ pages' = [pages EXCEPT ![Primary] = kept]
      /\ largest' = IF b > largest THEN b ELSE largest
      /\ last' = Call("batch", n, BatchIn((Own + kept) * PageSize, n))
      /\ live' = live
      BY <1>3, <1>5, <1>1 DEF Batch, MemoryInv, TypeOK
<1>7. (Own + kept) * PageSize \in Nat /\ (Own + kept) * PageSize = (Own * PageSize) + (kept * PageSize)
      BY <1>4, Limits DEF Own
<1>8. BatchIn((Own + kept) * PageSize, n) = "uuids"
  <2> HIDE DEF kept, need
  <2>1. need * PageSize <= kept * PageSize
        BY <1>3, <1>4, Monotone, Limits
  <2>2. Scratch + b <= (Own + kept) * PageSize /\ Scratch + b <= MaxInt32
        BY <2>1, <1>2, <1>3, <1>4, <1>7, Limits DEF Scratch, Own
  <2> QED BY <2>2 DEF BatchIn, Least
<1>9. TypeOK'
  <2> HIDE DEF kept, b
  <2>1. largest' \in 0 .. MaxBatch * UuidSize
        BY <1>6, <1>2 DEF MemoryInv, TypeOK
  <2>2. size' \in [Instances -> Nat] /\ pages' \in [Instances -> Nat] /\ live' \subseteq Instances
        BY <1>6, <1>7, <1>4 DEF MemoryInv, TypeOK
  <2>3. ASSUME NEW i \in live'
        PROVE  /\ size'[i] = (Own + pages'[i]) * PageSize /\ pages'[i] >= Base
               /\ Own + pages'[i] <= HostMaxPages
        BY <2>3, <1>6, <1>4 DEF MemoryInv, TypeOK
  <2> QED BY <2>1, <2>2, <2>3 DEF TypeOK
<1>10. NothingRetained'
  <2>1. ASSUME NEW i \in live', i # Primary
        PROVE  pages'[i] = Base
        BY <2>1, <1>6 DEF MemoryInv, TypeOK, NothingRetained
  <2>2. pages'[Primary] = Base \/ (pages'[Primary] - 1) * PageSize < largest'
    <3>1. pages'[Primary] = kept /\ b <= largest' /\ largest <= largest' /\ largest \in Nat
          BY <1>1, <1>2, <1>6 DEF MemoryInv, TypeOK
    <3>2. CASE need <= held
      <4>1. held = Base \/ (held - 1) * PageSize < largest
            BY <1>1 DEF MemoryInv, NothingRetained
      <4> QED BY <4>1, <3>1, <3>2, <1>1, <1>2, <1>6, Limits
    <3>3. CASE ~(need <= held)
          BY <3>1, <3>3, <1>1, <1>2, <1>3, <1>6, Limits
    <3> QED BY <3>2, <3>3
  <2> QED BY <2>1, <2>2 DEF NothingRetained
<1>11. NameLimitExact' /\ BatchFits'
       BY <1>6, <1>8 DEF NameLimitExact, BatchFits, Call
<1> QED BY <1>9, <1>10, <1>11 DEF MemoryInv

LEMMA StepMemory == MemoryInv /\ [Next]_vars => MemoryInv'
<1> SUFFICES ASSUME MemoryInv, [Next]_vars PROVE MemoryInv'
    OBVIOUS
<1>1. ASSUME NEW i \in Instances, Make(i) PROVE MemoryInv'
      BY <1>1, MakePreserves
<1>2. ASSUME NEW i \in Instances, Collect(i) PROVE MemoryInv'
      BY <1>2 DEF Collect, Call, MemoryInv, TypeOK, NameLimitExact, BatchFits, NothingRetained
<1>3. ASSUME NEW n \in Names, RefuseName(n) \/ HashLong(n) PROVE MemoryInv'
  <2>1. n \in Nat
        BY MemoryAssumption
  <2>2. CASE RefuseName(n)
    <3>1. n > MaxV5Name
          BY <2>2, Zenon DEF RefuseName
    <3>2. ~(n <= MaxV5Name)
          BY <2>1, <3>1, LimitTyped
    <3>3. last' = Call("v5", n, "too long") /\ UNCHANGED <<live, size, pages, largest>>
          BY <2>2, Zenon DEF RefuseName
    <3> QED BY <2>1, <3>1, <3>2, <3>3, AnswerPreserves
  <2>3. CASE HashLong(n)
    <3>1. UNCHANGED <<live, size, pages, largest>>
          BY <2>3 DEF HashLong
    <3> QED BY <2>1, <2>3, <3>1, LongAnswered, AnswerPreserves
  <2> QED BY <1>3, <2>2, <2>3
<1>6. ASSUME NEW n \in Names, NEW i \in Instances, HashShort(i, n) PROVE MemoryInv'
  <2>1. n \in Nat /\ UNCHANGED <<live, size, pages, largest>>
        BY <1>6, MemoryAssumption DEF HashShort
  <2> QED BY <1>6, <2>1, ShortAnswered, AnswerPreserves
<1>4. ASSUME NEW n \in Counts, Batch(n) PROVE MemoryInv'
  <2>1. n \in Nat
        BY MemoryAssumption
  <2> QED BY <2>1, <1>4, BatchPreserves
<1>5. CASE UNCHANGED vars
      BY <1>5 DEF vars, MemoryInv, TypeOK, NameLimitExact, BatchFits, NothingRetained
<1> QED BY <1>1, <1>2, <1>3, <1>4, <1>5, <1>6 DEF Next

(* An instance's idea of its memory is right, and within the host's pages. *)
THEOREM MemoryTyped == Spec => []TypeOK
<1>1. MemoryInv => TypeOK
      BY DEF MemoryInv
<1> QED BY <1>1, InitMemory, StepMemory, PTL DEF Spec

(* On every host a version 5 name gets its UUID up to MaxV5Name and        *)
(* ErrNameTooLong past it: no panic, no zero UUID without an error.        *)
THEOREM NamesAnswered == Spec => []NameLimitExact
<1>1. MemoryInv => NameLimitExact
      BY DEF MemoryInv
<1> QED BY <1>1, InitMemory, StepMemory, PTL DEF Spec

(* Every batch up to MaxV7Batch is grown for, drawn and stamped in bounds. *)
THEOREM BatchesHeld == Spec => []BatchFits
<1>1. MemoryInv => BatchFits
      BY DEF MemoryInv
<1> QED BY <1>1, InitMemory, StepMemory, PTL DEF Spec

(* No instance keeps more pages than its largest batch needed.             *)
THEOREM PagesGivenBack == Spec => []NothingRetained
<1>1. MemoryInv => NothingRetained
      BY DEF MemoryInv
<1> QED BY <1>1, InitMemory, StepMemory, PTL DEF Spec
=============================================================================
