------------------------------- MODULE Doors --------------------------------
(***************************************************************************)
(* The public version 7 functions (go/uuidgen.go, go/errors.go) over the   *)
(* stream of V7Stream: what each checks before the core is called, which   *)
(* conversions its arguments go through, and which error a return code     *)
(* becomes.                                                                *)
(*                                                                         *)
(* The host's int and time.Time are wider than what the core takes.  Here  *)
(* an argument is the integer the caller means; the conversions to int64,  *)
(* uint64 and uint32 wrap as Go's do.  A full batch is always addressable  *)
(* (GuestMemory), so code 3 does not come back.                            *)
(***************************************************************************)
EXTENDS V7Stream

CONSTANTS
    Width32,     \* values of a uint32                   (2^32)
    Width64,     \* values of a uint64                   (2^64)
    Ticks,       \* instants of a time.Time to a millisecond
    UuidSize,    \* bytes of a UUID                      (16)
    Clocks,      \* readings of time.Now().UnixMilli(), int64
    Instants,    \* the time.Time values callers pass, in ticks since 1970
    Sizes,       \* counts and lengths of destinations callers pass, int
    Lengths      \* lengths of byte destinations

ASSUME DoorsAssumption ==
    /\ Width32 \in Nat \ {0} /\ Width64 \in Nat \ {0} /\ Width64 % 2 = 0
    /\ MaxBatch < Width32 /\ 2 * Cap < Width64 - 1
    /\ Ticks \in Nat \ {0} /\ UuidSize \in Nat \ {0}
    /\ Supplied = 0 .. Width64 - 1
    /\ \A c \in Clocks : c \in Int /\ -Width64 <= 2 * c /\ 2 * c < Width64
    /\ Instants \subseteq Int /\ Sizes \subseteq Int /\ Lengths \subseteq Nat
    /\ \A n \in 1 .. MaxBatch : n \in Counts

VARIABLE door    \* what the last call was asked, and what it gave

doorVars == <<vars, door>>

U64(x) == x % Width64
U32(x) == x % Width32
I64(x) == ((x + (Width64 \div 2)) % Width64) - (Width64 \div 2)

(* asked: the instant meant, in milliseconds and as a count of UUIDs;      *)
(* whole: the destination is a whole number of UUIDs.                      *)
Asked(ms, count, whole) == [ms |-> ms, count |-> count, whole |-> whole]
Gives(asked, err, wrote) == door' = [asked |-> asked, err |-> err, wrote |-> wrote]

(* Answered at the door: the core is not called.                           *)
AtDoor(asked, err) == Gives(asked, err, 0) /\ UNCHANGED vars

(* NewV7At's switch and errBatch.                                          *)
ErrorOf(rc) ==
    CASE rc = Ok           -> "none"
      [] rc = TimeRefused  -> "time"
      [] rc = Unaddressable -> "unaddressable"
      [] rc = CountRefused -> "too large"
      [] rc = Exhausted    -> "exhausted"
      [] OTHER             -> "random"

(* The core is called; a destination is written only on success.           *)
Core(asked, c) ==
    /\ Serve(c)
    /\ Gives(asked, ErrorOf(last'.rc), IF last'.rc = Ok THEN c.n ELSE 0)

-----------------------------------------------------------------------------
(* ts, a uint64, for the instant ms.                                       *)
NewV7At(ms, ts) ==
    \E bits \in 0 .. StepSize - 1 :
        Core(Asked(ms, 1, TRUE), [op |-> "single", ts |-> ts, n |-> 1, bits |-> bits])

(* time.Time.UnixMilli: floored, wrapping far from 1970.                   *)
UnixMilli(t) == I64(t \div Ticks)

(* Mutant: the bounds are checked on the converted value. *)
InEraConverted(t) == U64(UnixMilli(t)) <= Cap
(* Not before v7Epoch, and before v7PastCap.                               *)
InEra(t) == t >= 0 /\ t < (Cap + 1) * Ticks

NewV7AtTime(t) ==
    \/ ~InEra(t) /\ AtDoor(Asked(t \div Ticks, 1, TRUE), "time")
    \/ InEra(t) /\ NewV7At(t \div Ticks, U64(UnixMilli(t)))

(* fillUUIDs and fillBytes: n UUIDs, n up to the native count limit.       *)
Fill(asked, ts, n) ==
    \/ n = 0 /\ AtDoor(asked, "none")
    \/ n # 0 /\ IF n >= Width32
                THEN AtDoor(asked, "count")
                ELSE Core(asked, [op |-> "batch", ts |-> ts, n |-> U32(n), bits |-> 0])

FillV7At(ms, ts, n) ==
    LET asked == Asked(ms, n, TRUE)
    IN  /\ n >= 0
        /\ \/ n > MaxBatch /\ AtDoor(asked, "too large")
           \/ n <= MaxBatch /\ Fill(asked, ts, n)

(* Mutant: a length that is no whole number of UUIDs is rounded down. *)
WholeAlways(len) == TRUE
Whole(len) == len % UuidSize = 0

FillV7BytesAt(ms, ts, len) ==
    LET n     == len \div UuidSize
        asked == Asked(ms, n, len = n * UuidSize)
    IN  \/ Whole(len) /\ n > MaxBatch /\ AtDoor(asked, "too large")
        \/ ~Whole(len) /\ AtDoor(asked, "not whole")
        \/ Whole(len) /\ n <= MaxBatch /\ Fill(asked, ts, n)

NewV7BatchAt(ms, ts, n) ==
    \/ n < 0 /\ AtDoor(Asked(ms, n, TRUE), "negative")
    \/ n > MaxBatch /\ AtDoor(Asked(ms, n, TRUE), "too large")
    \/ n = 0 /\ AtDoor(Asked(ms, n, TRUE), "none")
    \/ n > 0 /\ n <= MaxBatch /\ FillV7At(ms, ts, n)

(* The forms that take a time, and the ones that read the clock.           *)
AtForms ==
    \E ts \in Supplied :
        \/ NewV7At(ts, ts)
        \/ \E n \in Sizes : NewV7BatchAt(ts, ts, n) \/ FillV7At(ts, ts, n)
        \/ \E len \in Lengths : FillV7BytesAt(ts, ts, len)

ClockForms ==
    \E c \in Clocks :
        \/ NewV7At(c, U64(c))
        \/ \E n \in Sizes : NewV7BatchAt(c, U64(c), n) \/ FillV7At(c, U64(c), n)
        \/ \E len \in Lengths : FillV7BytesAt(c, U64(c), len)

DoorsInit == Init /\ door = [asked |-> Asked(0, 0, TRUE), err |-> "none", wrote |-> 0]

DoorsNext == AtForms \/ ClockForms \/ \E t \in Instants : NewV7AtTime(t)

DoorsSpec == DoorsInit /\ [][DoorsNext]_doorVars

-----------------------------------------------------------------------------
(***************************************************************************)
(* Properties.                                                             *)
(***************************************************************************)

(* The errors a call may give for what its caller meant.  Exhaustion comes *)
(* only while the stream is at the instant or past it.                     *)
Expected(asked) ==
    IF ~asked.whole THEN {"not whole"}
    ELSE IF asked.count < 0 THEN {"negative"}
    ELSE IF asked.count > MaxBatch THEN {"too large"}
    ELSE IF asked.count = 0 THEN {"none"}
    ELSE IF asked.ms < 0 \/ asked.ms > Cap THEN {"time"}
    ELSE IF hi > asked.ms THEN {"none", "random", "exhausted"}
    ELSE {"none", "random"}

(* Every form gives the error of what was asked, whatever width it passed  *)
(* through: no count, clock or far year wraps into a value that is taken,  *)
(* and none that is good is refused.  (uuidgen.go, NewV7AtTime: a wrapped  *)
(* value must never look like a timestamp.)                                *)
ErrorsExact == door.err \in Expected(door.asked)

(* A call writes all it was asked for, or with an error nothing.           *)
AllOrNothing ==
    door.wrote = IF door.err = "none" /\ door.asked.whole THEN door.asked.count ELSE 0
=============================================================================
