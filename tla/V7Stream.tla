------------------------------ MODULE V7Stream ------------------------------
(***************************************************************************)
(* The version 7 stream of the core: the one 64-bit word in the module's   *)
(* memory, here <<hi, low>>, that every version 7 call reserves steps of,  *)
(* and the two guest functions that reserve them, uuid_new_v7 and          *)
(* uuid_new_v7_batch (go/internal/core/core.go).                           *)
(*                                                                         *)
(* Here a call is one atomic step, as the mutex of the Go layer makes it;  *)
(* V7Calls models the calls one memory access at a time and implements     *)
(* this module.  `log` and `newest` are history: the reservations in the   *)
(* order they were made, and the newest timestamp among them (the S of the *)
(* ordering contract, README.md "v7 ordering, precisely").                 *)
(***************************************************************************)
EXTENDS V7Word, Sequences

VARIABLES hi, low, newest, log, last

vars == <<hi, low, newest, log, last>>

-----------------------------------------------------------------------------
(***************************************************************************)
(* Actions: one call each.                                                 *)
(***************************************************************************)

StreamMs == hi - 1

InStream(c) == Admitted(c) /\ ~OutOfStream(hi, c.ts)

NoReservation == [op |-> "none"]
Outcome(op, ts, rc, mode, r) == [op |-> op, ts |-> ts, rc |-> rc, mode |-> mode, res |-> r]

Refuse(c, rc) ==
    /\ last' = Outcome(c.op, c.ts, rc, "none", NoReservation)
    /\ UNCHANGED <<hi, low, newest, log>>

(* A timestamp past the cap is refused before anything else.               *)
RefuseTime(c) == c.ts > Cap /\ Refuse(c, TimeRefused)

(* A batch of nothing is done before the randomness is drawn.              *)
EmptyBatch(c) == c.ts <= Cap /\ c.n = 0 /\ Refuse(c, Ok)

RefuseCount(c) == c.ts <= Cap /\ c.n > MaxBatch /\ Refuse(c, CountRefused)

(* The random source may fail; the word has not been read yet.             *)
DrawFails(c) == Admitted(c) /\ Refuse(c, RandomFailed)

(* The stream cannot hold the call and may not be split.                   *)
Exhaust(c) ==
    /\ InStream(c) /\ ~Advances(hi, c.ts)
    /\ ~Fits(low, StepsFor(c.n)) /\ ~MaySplit(hi, c.ts)
    /\ Refuse(c, Exhausted)

(* Minted at its own timestamp from a fresh seed; the word is not written. *)
MintOutside(c) ==
    /\ Admitted(c) /\ OutOfStream(hi, c.ts)
    /\ \E seed \in Seeds(StepsFor(c.n)) :
          last' = Outcome(c.op, c.ts, Ok, "outside", Reservation(c, c.ts, seed))
    /\ UNCHANGED <<hi, low, newest, log>>

(* The word is replaced and the reservation joins the history.             *)
Reserve(c, w) ==
    LET r == Reservation(c, w.ms, w.first)
    IN  /\ hi' = w.hi /\ low' = w.low
        /\ newest' = IF c.ts > newest THEN c.ts ELSE newest
        /\ log' = Append(log, r)
        /\ last' = Outcome(c.op, c.ts, Ok, "stream", r)

(* The timestamp moves the stream forward, to a fresh seed.                *)
Advance(c) ==
    /\ InStream(c) /\ Advances(hi, c.ts)
    /\ \E seed \in Seeds(StepsFor(c.n)) : Reserve(c, AdvanceTo(c.ts, StepsFor(c.n), seed))

(* The stream is at or ahead of ts: the next steps are taken, whatever ts  *)
(* says, in the stream's own millisecond ...                               *)
Extend(c) ==
    /\ InStream(c) /\ ~Advances(hi, c.ts)
    /\ Fits(low, StepsFor(c.n))
    /\ Reserve(c, ExtendTo(hi, low, StepsFor(c.n)))

(* ... or, when they do not fit, going on into the next one.               *)
Split(c) ==
    /\ InStream(c) /\ ~Advances(hi, c.ts)
    /\ ~Fits(low, StepsFor(c.n)) /\ MaySplit(hi, c.ts)
    /\ Reserve(c, SplitTo(hi, low, StepsFor(c.n)))

Init ==
    /\ hi = 0 /\ low = 0
    /\ newest = 0 /\ log = <<>>
    /\ last = Outcome("none", 0, Ok, "none", NoReservation)

(* What the core does of a call.                                           *)
Serve(c) ==
    \/ RefuseTime(c)
    \/ EmptyBatch(c)
    \/ RefuseCount(c)
    \/ DrawFails(c)
    \/ MintOutside(c)
    \/ Advance(c)
    \/ Extend(c)
    \/ Split(c)
    \/ Exhaust(c)

Next == \E c \in Calls : Serve(c)

Spec == Init /\ [][Next]_vars

-----------------------------------------------------------------------------
(***************************************************************************)
(* Properties.                                                             *)
(***************************************************************************)

Reservations ==
    [op : {"single", "batch"}, ts : Nat, n : Nat, bits : Nat, ms : Nat, first : Nat]

(* Type invariant: the word's fields have the widths the packing gives     *)
(* them, and the history is a sequence of reservations.                    *)
TypeOK ==
    /\ hi \in 0 .. StreamLast + 1
    /\ low \in 0 .. Steps - 1
    /\ newest \in 0 .. StreamLast
    /\ log \in Seq(Reservations)

(* The stream never runs more than DriftWindow ahead of the newest         *)
(* timestamp it was ever moved by, however many splits follow one another  *)
(* and whoever asks for them; and it is never behind that timestamp.       *)
StreamNearNewest ==
    hi > 0 => newest <= StreamMs /\ StreamMs <= newest + DriftWindow

(* A call no more than ClampWindow - DriftWindow (10 s) behind the newest  *)
(* reserved timestamp is never minted out of stream: it takes the next     *)
(* steps or is refused.  (README "Ordering", uuidgen.go NewV7At.)          *)
OrderedWithinTenSeconds ==
    [][ ( /\ last'.ts <= StreamLast
          /\ last'.ts + (ClampWindow - DriftWindow) >= newest )
        => last'.mode # "outside" ]_vars

(* Every UUID of the stream sorts strictly after every UUID reserved       *)
(* before it, across advances, clamped calls, batches and splits: no       *)
(* (timestamp, counter) pair is ever handed out twice.                     *)
StrictlyIncreasing ==
    /\ \A j \in 1 .. Len(log) : \A a, b \in 0 .. log[j].n - 1 :
          a < b => Before(Id(log[j], a), Id(log[j], b))
    /\ \A j \in 1 .. Len(log) : \A i \in 1 .. j - 1 :
          \A a \in 0 .. log[i].n - 1, b \in 0 .. log[j].n - 1 :
             Before(Id(log[i], a), Id(log[j], b))

(* The embedded timestamp is never behind the supplied one and at most     *)
(* ClampWindow ahead; the tail of a split is at most DriftWindow ahead;    *)
(* out of the stream it is the supplied one.  (README "Embedded            *)
(* timestamp".)                                                            *)
EmbeddedNearSupplied ==
    last.mode # "none" =>
        \A i \in 0 .. last.res.n - 1 :
            LET ms == Id(last.res, i)[1]
                ts == last.ts
            IN  /\ ts <= ms /\ ms <= ts + ClampWindow
                /\ ms > last.res.ms => ms <= ts + DriftWindow
                /\ last.mode = "outside" => ms = ts

(* A reservation starts on the step after the last one reserved, unless    *)
(* its timestamp moved the stream to a later millisecond: within a run of  *)
(* splits the step difference of two values is the number of steps         *)
(* consumed between them.  (README "What the counter leaks".)              *)
StepsAccounted ==
    \A i \in 1 .. Len(log) - 1 :
        LET p == LastStep(log[i])
            q == FirstStep(log[i + 1])
        IN  \/ q = Place(p[1], p[2] + 1)
            \/ q[1] > p[1] /\ q[1] = log[i + 1].ts /\ q[2] < SeedSpan

(* The steps of millisecond ms that the history accounts for.              *)
StepsTaken(ms) ==
    { s \in 0 .. Steps - 1 : \E i \in 1 .. Len(log) :
        /\ ~Before(<<ms, s>>, FirstStep(log[i]))
        /\ ~Before(LastStep(log[i]), <<ms, s>>) }

(* A single is refused for exhaustion only once its millisecond has given  *)
(* out at least Steps - SeedSpan + 1 steps, all of them when it was        *)
(* entered by a split.  (README "Capacity and exhaustion".)                *)
CapacityBeforeExhaustion ==
    (last.rc = Exhausted /\ last.op = "single") =>
        LET seeded == \E i \in 1 .. Len(log) :
                         log[i].ts = StreamMs /\ FirstStep(log[i])[1] = StreamMs
                         /\ (i = 1 \/ LastStep(log[i - 1])[1] < StreamMs)
            least  == IF seeded THEN SeedSpan - 1 ELSE 0
        IN  \A s \in least .. Steps - 1 : s \in StepsTaken(StreamMs)
=============================================================================
