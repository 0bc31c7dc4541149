---------------------------- MODULE DoorsProofs -----------------------------
(***************************************************************************)
(* Proofs about Doors, for every width, clock and count.                   *)
(*                                                                         *)
(* Each call settles its own error: what is carried from call to call is   *)
(* only that the word's millisecond is a natural number.  The weight is in *)
(* the conversions: a clock or an instant that is in range comes through   *)
(* them unchanged, and any other is past the cap or stopped at the door.   *)
(*                                                                         *)
(* Each form is then a call of the stream or none, so that the forms       *)
(* implement V7Stream and what is proved of the stream holds behind them.  *)
(***************************************************************************)
EXTENDS Doors, V7StreamProofs, TLAPS

LEMMA Widths ==
    /\ Width32 \in Nat \ {0} /\ Width64 \in Nat \ {0} /\ Width64 % 2 = 0
    /\ MaxBatch \in Nat /\ MaxBatch < Width32
    /\ Cap \in Nat /\ 2 * Cap < Width64 - 1
    /\ Ticks \in Nat \ {0} /\ StepSize \in Nat \ {0}
BY DoorsAssumption, SizesAssumption, TimesAssumption

(* An int64 as a uint64: itself when it is a time that is minted, past the *)
(* cap when it is not.                                                     *)
LEMMA Unsigned ==
    ASSUME NEW x \in Int, -Width64 <= 2 * x, 2 * x < Width64
    PROVE  /\ U64(x) \in Nat
           /\ x \in 0 .. Cap => U64(x) = x
           /\ x \notin 0 .. Cap => U64(x) > Cap
<1>1. CASE x >= 0
  <2>1. x % Width64 = x
        BY <1>1, Widths
  <2> QED BY <2>1, <1>1, Widths DEF U64
<1>2. CASE x < 0
  <2>1. x % Width64 = x + Width64
        BY <1>2, Widths
  <2> QED BY <2>1, <1>2, Widths DEF U64
<1> QED BY <1>1, <1>2

(* A whole millisecond of the era comes through UnixMilli as itself.       *)
LEMMA EraMilli ==
    ASSUME NEW t \in Int, InEra(t)
    PROVE  t \div Ticks \in 0 .. Cap /\ U64(UnixMilli(t)) = t \div Ticks
<1> DEFINE ms == t \div Ticks
<1>1. ms \in 0 .. Cap
  <2>1. t \in Nat /\ t < (Cap + 1) * Ticks
        BY Widths DEF InEra
  <2>2. ms \in Nat /\ ms * Ticks <= t
        BY <2>1, Widths
  <2>3. ms < Cap + 1
    <3> HIDE DEF ms
    <3>1. SUFFICES ASSUME Cap + 1 <= ms PROVE FALSE
          BY <2>2, Widths
    <3>2. (ms - (Cap + 1)) * Ticks >= 0
          BY <2>2, <3>1, Widths
    <3> QED BY <2>1, <2>2, <3>2, Widths
  <2> QED BY <2>2, <2>3, Widths
<1>2. I64(ms) = ms
  <2> HIDE DEF ms
  <2> DEFINE half == Width64 \div 2
  <2>1. half \in Nat /\ Width64 = 2 * half
        BY Widths
  <2>2. ms + half \in Nat /\ ms + half < Width64
        BY <1>1, <2>1, Widths
  <2>3. (ms + half) % Width64 = ms + half
        BY <2>2, Widths
  <2> QED BY <2>1, <2>3, <1>1, Widths DEF I64
<1>3. -Width64 <= 2 * ms /\ 2 * ms < Width64 /\ ms \in Int
      BY <1>1, Widths
<1> QED BY <1>1, <1>2, <1>3, Unsigned DEF UnixMilli

(* What the core answers a call the doors let through.                     *)
LEMMA CoreAnswers ==
    ASSUME hi \in Nat, NEW c, c.ts \in Nat, c.n \in Nat, c.n > 0, c.n <= MaxBatch, Serve(c)
    PROVE  /\ hi' \in Nat
           /\ c.ts > Cap => last'.rc = TimeRefused
           /\ c.ts <= Cap => last'.rc \in {Ok, RandomFailed, Exhausted}
           /\ last'.rc = Exhausted => hi' > c.ts
<1>0. Cap \in Nat /\ MaxBatch \in Nat
      BY Widths
<1>1. CASE RefuseTime(c)
      BY <1>0, <1>1 DEF RefuseTime, Refuse, Outcome, TimeRefused, Exhausted
<1>2. CASE EmptyBatch(c)
      BY <1>2 DEF EmptyBatch
<1>3. CASE RefuseCount(c)
      BY <1>0, <1>3 DEF RefuseCount
<1>4. CASE DrawFails(c)
      BY <1>0, <1>4 DEF DrawFails, Admitted, Refuse, Outcome, RandomFailed, Exhausted
<1>5. CASE MintOutside(c)
      BY <1>0, <1>5 DEF MintOutside, Admitted, Outcome, Ok, Exhausted
<1>6. CASE Advance(c)
  <2>1. hi' = c.ts + 1 /\ last'.rc = Ok /\ c.ts <= Cap
        BY <1>6 DEF Advance, InStream, Admitted, Reserve, AdvanceTo, Outcome
  <2> QED BY <2>1, <1>0 DEF Ok, Exhausted
<1>7. CASE Extend(c)
  <2>1. hi' = hi /\ last'.rc = Ok /\ c.ts <= Cap
        BY <1>7 DEF Extend, InStream, Admitted, Reserve, ExtendTo, Outcome
  <2> QED BY <2>1, <1>0 DEF Ok, Exhausted
<1>8. CASE Split(c)
  <2>1. hi' = hi + 1 /\ last'.rc = Ok /\ c.ts <= Cap
        BY <1>8 DEF Split, InStream, Admitted, Reserve, SplitTo, Outcome
  <2> QED BY <2>1, <1>0 DEF Ok, Exhausted
<1>9. CASE Exhaust(c)
  <2>1. hi' = hi /\ last'.rc = Exhausted /\ c.ts <= Cap /\ ~Advances(hi, c.ts)
        BY <1>9 DEF Exhaust, InStream, Admitted, Refuse, Outcome
  <2> QED BY <2>1, <1>0 DEF Advances, Exhausted
<1> QED BY <1>1, <1>2, <1>3, <1>4, <1>5, <1>6, <1>7, <1>8, <1>9 DEF Serve

(* What is expected of a call for one to MaxBatch UUIDs.                   *)
LEMMA ExpectedOf ==
    ASSUME NEW a, NEW ms \in Int, a.ms = ms, NEW n \in Nat, a.count = n, a.whole = TRUE,
           n > 0, n <= MaxBatch
    PROVE  /\ ms \in 0 .. Cap =>
                 Expected(a)' = IF hi' > ms THEN {"none", "random", "exhausted"}
                                ELSE {"none", "random"}
           /\ ms \notin 0 .. Cap => Expected(a)' = {"time"}
<1>1. ~(n < 0) /\ ~(n > MaxBatch) /\ n # 0
      BY Widths
<1>2. Expected(a)' = IF ms < 0 \/ ms > Cap THEN {"time"}
                     ELSE IF hi' > ms THEN {"none", "random", "exhausted"}
                     ELSE {"none", "random"}
      BY <1>1, Zenon DEF Expected
<1>3. ms \in 0 .. Cap <=> ~(ms < 0 \/ ms > Cap)
      BY Widths
<1> QED BY <1>2, <1>3, Zenon

DoorsInv == hi \in Nat /\ ErrorsExact /\ AllOrNothing

(* A call that reaches the core with the time its caller means.            *)
LEMMA CoreExact ==
    ASSUME DoorsInv, NEW ms \in Int, NEW n \in Nat, n > 0, n <= MaxBatch,
           NEW c, c.ts \in Nat, c.n = n,
           ms \in 0 .. Cap => c.ts = ms, ms \notin 0 .. Cap => c.ts > Cap,
           Core(Asked(ms, n, TRUE), c)
    PROVE  DoorsInv'
<1> DEFINE e == ErrorOf(last'.rc)
           a == Asked(ms, n, TRUE)
           w == IF last'.rc = Ok THEN c.n ELSE 0
<1>1. /\ hi' \in Nat
      /\ c.ts > Cap => last'.rc = TimeRefused
      /\ c.ts <= Cap => last'.rc \in {Ok, RandomFailed, Exhausted}
      /\ last'.rc = Exhausted => hi' > c.ts
      BY CoreAnswers DEF Core, DoorsInv
<1>2. door' = [asked |-> a, err |-> e, wrote |-> w]
      BY DEF Core, Gives
<1>3. a.ms = ms /\ a.count = n /\ a.whole = TRUE
      BY DEF Asked
<1>4. /\ last'.rc = Ok => e = "none"
      /\ last'.rc = TimeRefused => e = "time"
      /\ last'.rc = RandomFailed => e = "random"
      /\ last'.rc = Exhausted => e = "exhausted"
      BY DEF ErrorOf, Ok, TimeRefused, Unaddressable, CountRefused, Exhausted, RandomFailed
<1>5. CASE ms \in 0 .. Cap
  <2>1. c.ts = ms /\ c.ts <= Cap /\ last'.rc \in {Ok, RandomFailed, Exhausted}
        BY <1>1, <1>5, Widths
  <2>2. e \in {"none", "random", "exhausted"} /\ (e = "exhausted" => hi' > ms)
        BY <1>1, <1>4, <2>1
  <2>3. w = IF e = "none" THEN n ELSE 0
        BY <1>4, <2>1 DEF Ok, RandomFailed, Exhausted
  <2>4. ErrorsExact'
    <3>1. Expected(a)' = IF hi' > ms THEN {"none", "random", "exhausted"} ELSE {"none", "random"}
          BY <1>3, <1>5, ExpectedOf, Zenon
    <3>2. e \in Expected(a)'
          BY <2>2, <3>1
    <3> QED BY <3>2, <1>2 DEF ErrorsExact, Expected
  <2>5. AllOrNothing'
        BY <1>2, <1>3, <2>3 DEF AllOrNothing
  <2> QED BY <1>1, <2>4, <2>5 DEF DoorsInv
<1>6. CASE ms \notin 0 .. Cap
  <2>1. e = "time" /\ w = 0
        BY <1>1, <1>4, <1>6 DEF TimeRefused, Ok
  <2>2. ErrorsExact'
    <3>1. Expected(a)' = {"time"}
          BY <1>3, <1>6, ExpectedOf, Zenon
    <3> QED BY <2>1, <3>1, <1>2 DEF ErrorsExact, Expected
  <2>3. AllOrNothing'
        BY <1>2, <2>1 DEF AllOrNothing
  <2> QED BY <1>1, <2>2, <2>3 DEF DoorsInv
<1> QED BY <1>5, <1>6

(* A call answered at the door.                                            *)
LEMMA DoorExact ==
    ASSUME DoorsInv, NEW a, NEW e, e \in Expected(a), e = "none" /\ a.whole => a.count = 0,
           AtDoor(a, e)
    PROVE  DoorsInv'
<1>1. hi' = hi /\ door' = [asked |-> a, err |-> e, wrote |-> 0]
      BY DEF AtDoor, Gives, vars
<1>2. ErrorsExact'
  <2>1. Expected(a)' = Expected(a)
        BY <1>1 DEF Expected
  <2> QED BY <1>1, <2>1 DEF ErrorsExact, Expected
<1>3. AllOrNothing'
      BY <1>1 DEF AllOrNothing
<1> QED BY <1>1, <1>2, <1>3 DEF DoorsInv

(* Whether a count is expected to be refused, or has nothing to mint.      *)
LEMMA CountExpected ==
    ASSUME NEW a, NEW n \in Int, a.count = n
    PROVE  /\ a.whole = FALSE => "not whole" \in Expected(a)
           /\ a.whole = TRUE /\ n < 0 => "negative" \in Expected(a)
           /\ a.whole = TRUE /\ n > MaxBatch => "too large" \in Expected(a)
           /\ a.whole = TRUE /\ n = 0 => "none" \in Expected(a)
BY Widths DEF Expected

(* ms is meant, and ts is what it has become on its way to the core.       *)
Carried(ms, ts) ==
    /\ ms \in Int /\ ts \in Nat
    /\ ms \in 0 .. Cap => ts = ms
    /\ ms \notin 0 .. Cap => ts > Cap

LEMMA SuppliedCarried == ASSUME NEW ts \in Supplied PROVE Carried(ts, ts)
BY DoorsAssumption, Widths DEF Carried

LEMMA ClockCarried == ASSUME NEW c \in Clocks PROVE Carried(c, U64(c))
<1>1. c \in Int /\ -Width64 <= 2 * c /\ 2 * c < Width64
      BY DoorsAssumption
<1> QED BY <1>1, Unsigned DEF Carried

LEMMA SingleExact ==
    ASSUME DoorsInv, NEW ms, NEW ts, Carried(ms, ts), NewV7At(ms, ts)
    PROVE  DoorsInv'
<1>1. PICK bits \in 0 .. StepSize - 1 :
          Core(Asked(ms, 1, TRUE), [op |-> "single", ts |-> ts, n |-> 1, bits |-> bits])
      BY DEF NewV7At
<1> DEFINE c == [op |-> "single", ts |-> ts, n |-> 1, bits |-> bits]
<1>2. c.ts = ts /\ c.n = 1
      OBVIOUS
<1>3. 1 \in Nat /\ 1 > 0 /\ 1 <= MaxBatch
      BY SizesAssumption
<1>4. ms \in Int /\ c.ts \in Nat /\ (ms \in 0 .. Cap => c.ts = ms) /\ (ms \notin 0 .. Cap => c.ts > Cap)
      BY <1>2, Zenon DEF Carried
<1>5. Core(Asked(ms, 1, TRUE), c)
      BY <1>1
<1> HIDE DEF c
<1> QED BY <1>2, <1>3, <1>4, <1>5, CoreExact, Zenon

LEMMA FillExact ==
    ASSUME DoorsInv, NEW ms, NEW ts, Carried(ms, ts), NEW n \in Nat, n <= MaxBatch,
           Fill(Asked(ms, n, TRUE), ts, n)
    PROVE  DoorsInv'
<1> DEFINE a == Asked(ms, n, TRUE)
<1>1. a.count = n /\ a.whole = TRUE
      BY DEF Asked
<1>2. CASE n = 0
  <2>1. AtDoor(a, "none")
        BY <1>2 DEF Fill
  <2>2. "none" \in Expected(a)
    <3> HIDE DEF a
    <3>1. n \in Int
          OBVIOUS
    <3> QED BY <3>1, <1>1, <1>2, CountExpected, Zenon
  <2> QED BY <1>1, <1>2, <2>1, <2>2, DoorExact, Zenon
<1>3. CASE n # 0
  <2>1. U32(n) = n /\ ~(n >= Width32)
        BY Widths DEF U32
  <2>2. Core(a, [op |-> "batch", ts |-> ts, n |-> n, bits |-> 0])
        BY <1>3, <2>1 DEF Fill
  <2>3. n > 0 /\ n <= MaxBatch
        BY <1>3
  <2> QED BY <2>2, <2>3, CoreExact DEF Carried
<1> QED BY <1>2, <1>3

(* A destination of UUIDs, of bytes, or made by the call.                  *)
LEMMA FillUuidsExact ==
    ASSUME DoorsInv, NEW ms, NEW ts, Carried(ms, ts), NEW n \in Int, FillV7At(ms, ts, n)
    PROVE  DoorsInv'
<1> DEFINE a == Asked(ms, n, TRUE)
<1>1. a.count = n /\ a.whole = TRUE
      BY DEF Asked
<1>2. n >= 0
      BY Zenon DEF FillV7At
<1>3. CASE n > MaxBatch
  <2>0. ~(n <= MaxBatch)
        BY <1>3, Widths
  <2>1. AtDoor(a, "too large")
        BY <1>3, <2>0, Zenon DEF FillV7At
  <2>2. "too large" \in Expected(a)
        BY <1>1, <1>3, CountExpected, Zenon
  <2> QED BY <2>1, <2>2, DoorExact
<1>4. CASE ~(n > MaxBatch)
  <2>1. n \in Nat /\ n <= MaxBatch
        BY <1>2, <1>4, Widths
  <2>2. Fill(a, ts, n)
        BY <1>4, Zenon DEF FillV7At
  <2> QED BY <2>1, <2>2, FillExact, Zenon
<1> QED BY <1>3, <1>4

LEMMA FillBytesExact ==
    ASSUME DoorsInv, NEW ms, NEW ts, Carried(ms, ts), NEW len \in Nat, FillV7BytesAt(ms, ts, len)
    PROVE  DoorsInv'
<1> DEFINE n == len \div UuidSize
           whole == (len = n * UuidSize)
           a == Asked(ms, n, whole)
<1>1. n \in Nat /\ whole \in BOOLEAN /\ (Whole(len) <=> whole)
      BY DoorsAssumption DEF Whole
<1>2. a.count = n /\ a.whole = whole
      BY DEF Asked
<1> HIDE DEF n, whole
<1>3. CASE ~Whole(len)
  <2>1. AtDoor(a, "not whole")
        BY <1>3, Zenon DEF FillV7BytesAt, n, whole
  <2>2. a.whole = FALSE
        BY <1>1, <1>2, <1>3
  <2>3. "not whole" \in Expected(a)
    <3>1. n \in Int
          BY <1>1
    <3> QED BY <3>1, <1>2, <2>2, CountExpected, Zenon
  <2> QED BY <2>1, <2>3, DoorExact
<1>4. CASE Whole(len) /\ n > MaxBatch
  <2>0. ~(n <= MaxBatch) /\ a.whole = TRUE /\ n \in Int
        BY <1>1, <1>2, <1>4, Widths
  <2>1. AtDoor(a, "too large")
        BY <1>4, <2>0, Zenon DEF FillV7BytesAt, n, whole
  <2>2. "too large" \in Expected(a)
        BY <1>2, <1>4, <2>0, CountExpected, Zenon
  <2> QED BY <2>1, <2>2, DoorExact
<1>5. CASE Whole(len) /\ ~(n > MaxBatch)
  <2>1. n <= MaxBatch /\ whole = TRUE
        BY <1>1, <1>5, Widths
  <2>2. Fill(a, ts, n)
        BY <1>5, Zenon DEF FillV7BytesAt, n, whole
  <2>3. Fill(Asked(ms, n, TRUE), ts, n)
        BY <2>1, <2>2, Zenon
  <2> QED BY <1>1, <2>1, <2>3, FillExact, Zenon
<1> QED BY <1>3, <1>4, <1>5

LEMMA BatchExact ==
    ASSUME DoorsInv, NEW ms, NEW ts, Carried(ms, ts), NEW n \in Int, NewV7BatchAt(ms, ts, n)
    PROVE  DoorsInv'
<1> DEFINE a == Asked(ms, n, TRUE)
<1>1. a.count = n /\ a.whole = TRUE
      BY DEF Asked
<1>2. CASE n < 0 /\ AtDoor(a, "negative")
  <2>1. "negative" \in Expected(a)
        BY <1>1, <1>2, CountExpected, Zenon
  <2> QED BY <1>2, <2>1, DoorExact
<1>3. CASE n > MaxBatch /\ AtDoor(a, "too large")
  <2>1. "too large" \in Expected(a)
        BY <1>1, <1>3, CountExpected, Zenon
  <2> QED BY <1>3, <2>1, DoorExact
<1>4. CASE n = 0 /\ AtDoor(a, "none")
  <2>1. "none" \in Expected(a)
        BY <1>1, <1>4, CountExpected, Zenon
  <2> QED BY <1>1, <1>4, <2>1, DoorExact, Zenon
<1>5. CASE FillV7At(ms, ts, n)
      BY <1>5, FillUuidsExact
<1> QED BY <1>2, <1>3, <1>4, <1>5, Zenon DEF NewV7BatchAt

(* A time.Time outside the era is refused at the door.                     *)
LEMMA TimeExact ==
    ASSUME DoorsInv, NEW t \in Int, NewV7AtTime(t)
    PROVE  DoorsInv'
<1> DEFINE ms == t \div Ticks
<1>1. CASE InEra(t)
  <2>1. Carried(ms, U64(UnixMilli(t)))
        BY <1>1, EraMilli DEF Carried
  <2>2. NewV7At(ms, U64(UnixMilli(t)))
        BY <1>1, Zenon DEF NewV7AtTime
  <2> QED BY <2>1, <2>2, SingleExact, Zenon
<1>2. CASE ~InEra(t)
  <2> DEFINE a == Asked(ms, 1, TRUE)
  <2>1. AtDoor(a, "time")
        BY <1>2, Zenon DEF NewV7AtTime
  <2>2. a.ms = ms /\ a.count = 1 /\ a.whole = TRUE
        BY DEF Asked
  <2>3. ms \in Int /\ (ms < 0 \/ ms > Cap)
    <3>0. t < 0 \/ t >= (Cap + 1) * Ticks
          BY <1>2, Widths DEF InEra
    <3>1. ms \in Int /\ ms * Ticks <= t /\ t < (ms * Ticks) + Ticks
          BY Widths
    <3> HIDE DEF ms
    <3>2. CASE t < 0
      <4>1. SUFFICES ASSUME ms >= 0 PROVE FALSE
            BY <3>1
      <4>2. ms * Ticks >= 0
            BY <3>1, <4>1, Widths
      <4> QED BY <3>1, <3>2, <4>2, Widths
    <3>3. CASE t >= (Cap + 1) * Ticks
      <4>1. SUFFICES ASSUME ms <= Cap PROVE FALSE
            BY <3>1, Widths
      <4>2. (Cap - ms) * Ticks >= 0
            BY <3>1, <4>1, Widths
      <4> QED BY <3>1, <3>3, <4>2, Widths
    <3> QED BY <3>0, <3>1, <3>2, <3>3
  <2>4. "time" \in Expected(a)
    <3> HIDE DEF ms, a
    <3>1. ~(1 < 0) /\ ~(1 > MaxBatch) /\ 1 # 0
          BY SizesAssumption
    <3> QED BY <2>2, <2>3, <3>1, Zenon DEF Expected
  <2> QED BY <2>1, <2>4, DoorExact
<1> QED BY <1>1, <1>2

LEMMA InitDoors == DoorsInit => DoorsInv
<1> SUFFICES ASSUME DoorsInit PROVE DoorsInv
    OBVIOUS
<1>1. hi \in Nat /\ door.err = "none" /\ door.wrote = 0 /\ door.asked = Asked(0, 0, TRUE)
      BY DEF DoorsInit, Init
<1>2. Asked(0, 0, TRUE).count = 0 /\ Asked(0, 0, TRUE).whole = TRUE
      BY DEF Asked
<1>3. "none" \in Expected(door.asked)
  <2>1. door.asked.count = 0 /\ door.asked.whole = TRUE
        BY <1>1, <1>2, Zenon
  <2>2. 0 \in Int
        OBVIOUS
  <2> QED BY <2>1, <2>2, CountExpected, Zenon
<1> QED BY <1>1, <1>2, <1>3 DEF DoorsInv, ErrorsExact, AllOrNothing

LEMMA StepDoors == DoorsInv /\ [DoorsNext]_doorVars => DoorsInv'
<1> SUFFICES ASSUME DoorsInv, [DoorsNext]_doorVars PROVE DoorsInv'
    OBVIOUS
<1>0. Supplied \subseteq Nat /\ Sizes \subseteq Int /\ Lengths \subseteq Nat /\ Instants \subseteq Int
      BY DoorsAssumption, CallersAssumption
<1>1. ASSUME NEW ms, NEW ts, Carried(ms, ts),
             \/ NewV7At(ms, ts)
             \/ \E n \in Sizes : NewV7BatchAt(ms, ts, n) \/ FillV7At(ms, ts, n)
             \/ \E len \in Lengths : FillV7BytesAt(ms, ts, len)
      PROVE  DoorsInv'
  <2>1. ASSUME NEW n \in Sizes, NewV7BatchAt(ms, ts, n) PROVE DoorsInv'
        BY <1>0, <1>1, <2>1, BatchExact
  <2>2. ASSUME NEW n \in Sizes, FillV7At(ms, ts, n) PROVE DoorsInv'
        BY <1>0, <1>1, <2>2, FillUuidsExact
  <2>3. ASSUME NEW len \in Lengths, FillV7BytesAt(ms, ts, len) PROVE DoorsInv'
        BY <1>0, <1>1, <2>3, FillBytesExact
  <2>4. CASE NewV7At(ms, ts)
        BY <1>1, <2>4, SingleExact
  <2> QED BY <1>1, <2>1, <2>2, <2>3, <2>4
<1>2. CASE AtForms
  <2>1. PICK ts \in Supplied :
           \/ NewV7At(ts, ts)
           \/ \E n \in Sizes : NewV7BatchAt(ts, ts, n) \/ FillV7At(ts, ts, n)
           \/ \E len \in Lengths : FillV7BytesAt(ts, ts, len)
        BY <1>2 DEF AtForms
  <2> QED BY <2>1, <1>1, SuppliedCarried
<1>3. CASE ClockForms
  <2>1. PICK c \in Clocks :
           \/ NewV7At(c, U64(c))
           \/ \E n \in Sizes : NewV7BatchAt(c, U64(c), n) \/ FillV7At(c, U64(c), n)
           \/ \E len \in Lengths : FillV7BytesAt(c, U64(c), len)
        BY <1>3 DEF ClockForms
  <2> QED BY <2>1, <1>1, ClockCarried
<1>4. CASE \E t \in Instants : NewV7AtTime(t)
      BY <1>0, <1>4, TimeExact
<1>5. CASE UNCHANGED doorVars
  <2>1. hi' = hi /\ door' = door
        BY <1>5 DEF doorVars, vars
  <2> QED BY <2>1 DEF DoorsInv, ErrorsExact, AllOrNothing, Expected
<1> QED BY <1>2, <1>3, <1>4, <1>5 DEF DoorsNext

(* Whatever the widths and the clock, every form of a version 7 call gives *)
(* the error of what its caller meant.                                     *)
THEOREM DoorsExact == DoorsSpec => []ErrorsExact
<1>1. DoorsInv => ErrorsExact
      BY DEF DoorsInv
<1> QED BY <1>1, InitDoors, StepDoors, PTL DEF DoorsSpec

(* ... and writes all it was asked for or nothing.                         *)
THEOREM DoorsWhole == DoorsSpec => []AllOrNothing
<1>1. DoorsInv => AllOrNothing
      BY DEF DoorsInv
<1> QED BY <1>1, InitDoors, StepDoors, PTL DEF DoorsSpec

-----------------------------------------------------------------------------
(* The public functions over the stream. *)

(* A call is answered at the door, or becomes a call of the stream with    *)
(* the time its caller meant, if it is one that is minted.                 *)
Passed == \E asked, e : AtDoor(asked, e)
Called == \E asked, c : /\ c \in Calls /\ c.n > 0 /\ Carried(asked.ms, c.ts)
                        /\ Core(asked, c)

LEMMA FillServes ==
    ASSUME NEW asked, NEW ts \in Supplied, Carried(asked.ms, ts), NEW n \in Nat, n <= MaxBatch,
           Fill(asked, ts, n)
    PROVE  Passed \/ Called
<1>1. CASE n = 0
      BY <1>1 DEF Fill, Passed
<1>2. CASE n # 0
  <2>1. U32(n) = n /\ ~(n >= Width32) /\ n \in Counts /\ n > 0
        BY <1>2, Widths, DoorsAssumption DEF U32
  <2> DEFINE c == [op |-> "batch", ts |-> ts, n |-> n, bits |-> 0]
  <2>2. Core(asked, c)
        BY <1>2, <2>1 DEF Fill
  <2>3. c \in Calls /\ c.n > 0 /\ c.ts = ts
        BY <2>1 DEF Calls, BatchCalls
  <2> HIDE DEF c
  <2> QED BY <2>2, <2>3 DEF Called
<1> QED BY <1>1, <1>2

LEMMA SingleServes ==
    ASSUME NEW ms, NEW ts \in Supplied, Carried(ms, ts), NewV7At(ms, ts)
    PROVE  Called
<1>1. PICK bits \in 0 .. StepSize - 1 :
          Core(Asked(ms, 1, TRUE), [op |-> "single", ts |-> ts, n |-> 1, bits |-> bits])
      BY DEF NewV7At
<1> DEFINE c == [op |-> "single", ts |-> ts, n |-> 1, bits |-> bits]
           asked == Asked(ms, 1, TRUE)
<1>2. c \in Calls /\ c.n > 0 /\ c.ts = ts /\ asked.ms = ms
      BY DEF Calls, SingleCalls, Asked
<1>3. Core(asked, c)
      BY <1>1
<1> HIDE DEF c, asked
<1> QED BY <1>2, <1>3 DEF Called

LEMMA ManyServe ==
    ASSUME NEW ms, NEW ts \in Supplied, Carried(ms, ts),
           \/ \E n \in Sizes : NewV7BatchAt(ms, ts, n) \/ FillV7At(ms, ts, n)
           \/ \E len \in Lengths : FillV7BytesAt(ms, ts, len)
    PROVE  Passed \/ Called
<1>0. Sizes \subseteq Int /\ Lengths \subseteq Nat /\ UuidSize \in Nat \ {0} /\ MaxBatch \in Nat
      BY DoorsAssumption, Widths
<1>1. \A n, whole : Asked(ms, n, whole).ms = ms
      BY DEF Asked
<1>2. ASSUME NEW n \in Int, FillV7At(ms, ts, n) PROVE Passed \/ Called
  <2>1. PICK asked : /\ n >= 0 /\ asked.ms = ms
                     /\ \/ \E e : AtDoor(asked, e)
                        \/ n <= MaxBatch /\ Fill(asked, ts, n)
        BY <1>1, <1>2, Zenon DEF FillV7At
  <2>2. CASE n <= MaxBatch /\ Fill(asked, ts, n)
    <3>1. n \in Nat
          BY <2>1
    <3> QED BY <2>1, <2>2, <3>1, FillServes
  <2> QED BY <2>1, <2>2 DEF Passed
<1>3. ASSUME NEW n \in Int, NewV7BatchAt(ms, ts, n) PROVE Passed \/ Called
  <2>1. Passed \/ FillV7At(ms, ts, n)
        BY <1>3, Zenon DEF NewV7BatchAt, Passed
  <2> QED BY <1>2, <2>1
<1>4. ASSUME NEW len \in Nat, FillV7BytesAt(ms, ts, len) PROVE Passed \/ Called
  <2> DEFINE n     == len \div UuidSize
             asked == Asked(ms, n, len = n * UuidSize)
  <2>1. n \in Nat /\ asked.ms = ms
        BY <1>0, <1>1
  <2>2. \/ \E e : AtDoor(asked, e)
        \/ n <= MaxBatch /\ Fill(asked, ts, n)
        BY <1>4, Zenon DEF FillV7BytesAt
  <2> HIDE DEF n, asked
  <2>3. CASE n <= MaxBatch /\ Fill(asked, ts, n)
        BY <2>1, <2>3, FillServes
  <2> QED BY <2>2, <2>3 DEF Passed
<1> QED BY <1>0, <1>2, <1>3, <1>4

LEMMA Wrapped == ASSUME NEW x \in Int PROVE U64(x) \in Supplied
<1>1. Width64 \in Nat \ {0} /\ Supplied = 0 .. Width64 - 1
      BY DoorsAssumption
<1>2. x % Width64 \in 0 .. Width64 - 1
      BY <1>1
<1> QED BY <1>1, <1>2 DEF U64

LEMMA EveryDoor == DoorsNext => Passed \/ Called
<1> SUFFICES ASSUME DoorsNext PROVE Passed \/ Called
    OBVIOUS
<1>1. CASE AtForms
      BY <1>1, SuppliedCarried, SingleServes, ManyServe DEF AtForms
<1>2. CASE ClockForms
  <2>1. \A c \in Clocks : U64(c) \in Supplied
        BY Wrapped, DoorsAssumption
  <2> QED BY <1>2, <2>1, ClockCarried, SingleServes, ManyServe DEF ClockForms
<1>3. CASE \E t \in Instants : NewV7AtTime(t)
  <2>1. PICK t \in Instants : NewV7AtTime(t)
        BY <1>3
  <2>2. CASE InEra(t) /\ NewV7At(t \div Ticks, U64(UnixMilli(t)))
    <3>1. t \in Int
          BY DoorsAssumption
    <3>2. U64(UnixMilli(t)) = t \div Ticks /\ t \div Ticks \in 0 .. Cap
          BY <2>2, <3>1, EraMilli
    <3>3. U64(UnixMilli(t)) \in Supplied /\ Carried(t \div Ticks, U64(UnixMilli(t)))
          BY <3>2, Widths, DoorsAssumption DEF Carried
    <3> QED BY <2>2, <3>3, SingleServes
  <2> QED BY <2>1, <2>2, Zenon DEF NewV7AtTime, Passed
<1> QED BY <1>1, <1>2, <1>3 DEF DoorsNext

(* Whatever mix of the public forms a program calls, the core sees calls   *)
(* of the stream or none: the forms implement V7Stream, and what is proved *)
(* of the stream holds of them.                                            *)
THEOREM DoorsImplementStream == DoorsSpec => Spec
<1>1. DoorsInit => Init
      BY DEF DoorsInit
<1>2. [DoorsNext]_doorVars => [Next]_vars
      BY EveryDoor DEF Passed, Called, AtDoor, Core, Next, doorVars
<1> QED BY <1>1, <1>2, PTL DEF DoorsSpec, Spec

(* So no two UUIDs that any of the forms gave out are alike or out of      *)
(* order.                                                                  *)
THEOREM DoorsOrdered == DoorsSpec => []StrictlyIncreasing
BY DoorsImplementStream, StreamOrdered, PTL

(* A call that wrote something wrote UUIDs of the time its caller meant,   *)
(* that millisecond or up to ClampWindow (11 s) after, whatever type it    *)
(* was given in.                                                           *)
MintsWhatIsMeant ==
    door.wrote > 0 =>
        /\ last.res.n = door.wrote
        /\ \A i \in 0 .. door.wrote - 1 :
              /\ door.asked.ms <= Id(last.res, i)[1]
              /\ Id(last.res, i)[1] <= door.asked.ms + ClampWindow

(* What was last written is the stream's last outcome.                     *)
MeantInv ==
    door.wrote > 0 =>
        last.mode # "none" /\ last.ts = door.asked.ms /\ last.res.n = door.wrote

(* A call that succeeds for more than nothing is minted.                   *)
LEMMA SuccessMints ==
    ASSUME NEW c, c.ts \in Nat, c.n \in Nat, c.n > 0, Serve(c), last'.rc = Ok
    PROVE  c.ts <= Cap /\ last'.mode # "none" /\ last'.ts = c.ts /\ last'.res.n = c.n
<1>1. CASE RefuseTime(c) \/ RefuseCount(c) \/ DrawFails(c) \/ Exhaust(c)
  <2>1. last'.rc \in {TimeRefused, CountRefused, RandomFailed, Exhausted}
        BY <1>1 DEF RefuseTime, RefuseCount, DrawFails, Exhaust, Refuse, Outcome
  <2> QED BY <2>1 DEF Ok, TimeRefused, CountRefused, RandomFailed, Exhausted
<1>2. CASE EmptyBatch(c)
      BY <1>2 DEF EmptyBatch
<1>3. CASE MintOutside(c)
      BY <1>3 DEF MintOutside, Admitted, Outcome, Reservation
<1>4. ASSUME NEW w, c.ts <= Cap, Reserve(c, w)
      PROVE  c.ts <= Cap /\ last'.mode # "none" /\ last'.ts = c.ts /\ last'.res.n = c.n
      BY <1>4 DEF Reserve, Outcome, Reservation
<1>5. CASE Advance(c) \/ Extend(c) \/ Split(c)
  <2>1. c.ts <= Cap /\ \E w : Reserve(c, w)
        BY <1>5, Zenon DEF Advance, Extend, Split, InStream, Admitted
  <2> QED BY <2>1, <1>4
<1> QED BY <1>1, <1>2, <1>3, <1>5 DEF Serve

LEMMA MeantStep == MeantInv /\ [DoorsNext]_doorVars => MeantInv'
<1> SUFFICES ASSUME MeantInv, [DoorsNext]_doorVars PROVE MeantInv'
    OBVIOUS
<1>1. CASE Passed
  <2>1. door'.wrote = 0
        BY <1>1 DEF Passed, AtDoor, Gives
  <2> QED BY <2>1 DEF MeantInv
<1>2. CASE Called
  <2>1. PICK asked, c : /\ c \in Calls /\ c.n > 0 /\ Carried(asked.ms, c.ts)
                        /\ Core(asked, c)
        BY <1>2 DEF Called
  <2>2. c.ts \in Nat /\ c.n \in Nat
        BY <2>1, CallTypes
  <2>3. door' = [asked |-> asked, err |-> ErrorOf(last'.rc), wrote |-> IF last'.rc = Ok THEN c.n ELSE 0]
        BY <2>1 DEF Core, Gives
  <2>4. CASE last'.rc # Ok
        BY <2>3, <2>4 DEF MeantInv
  <2>5. CASE last'.rc = Ok
    <3>1. c.ts <= Cap /\ last'.mode # "none" /\ last'.ts = c.ts /\ last'.res.n = c.n
          BY <2>1, <2>2, <2>5, SuccessMints DEF Core
    <3>2. asked.ms = c.ts
          BY <2>1, <2>2, <3>1, Widths DEF Carried
    <3>3. door'.asked = asked /\ door'.wrote = c.n
          BY <2>3, <2>5
    <3> QED BY <3>1, <3>2, <3>3 DEF MeantInv
  <2> QED BY <2>4, <2>5
<1>3. CASE UNCHANGED doorVars
      BY <1>3 DEF doorVars, vars, MeantInv
<1> QED BY <1>1, <1>2, <1>3, EveryDoor

(* The millisecond in a UUID is the caller's, through every conversion of  *)
(* every form.                                                             *)
THEOREM DoorsMintMeant == DoorsSpec => []MintsWhatIsMeant
<1>1. DoorsInit => MeantInv
      BY DEF DoorsInit, MeantInv
<1>2. MeantInv /\ EmbeddedNearSupplied => MintsWhatIsMeant
      BY DEF MeantInv, EmbeddedNearSupplied, MintsWhatIsMeant
<1>3. DoorsSpec => []EmbeddedNearSupplied
      BY DoorsImplementStream, EmbeddedBound, PTL
<1> QED BY <1>1, <1>2, <1>3, MeantStep, PTL DEF DoorsSpec
=============================================================================
