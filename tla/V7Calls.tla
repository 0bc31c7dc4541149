------------------------------ MODULE V7Calls -------------------------------
(***************************************************************************)
(* The calls of the Go binding, one memory access at a time: goroutines    *)
(* that read a timestamp, take the primary instance's mutex, run the core  *)
(* on it and copy the result out of its scratch (go/core.go, newV7 and     *)
(* newV7Batch), beside stateless calls that take the primary only when its *)
(* lock is free and a pooled instance otherwise (go/core_pool.go), or wait *)
(* for it where there is no pool (go/core_tinygo.go).                      *)
(*                                                                         *)
(* The core's compare-and-swap of the stream word is a load, a compare and *)
(* a store in the translated code, so nothing but the mutex makes it       *)
(* atomic; and every result passes through a scratch that all calls on the *)
(* instance share and none clears.  The module shows that the mutex covers *)
(* both: it implements V7Stream, where a call is one step, and every call  *)
(* returns what it reserved itself.                                        *)
(*                                                                         *)
(* A timestamp is read before the lock is asked for, so it may be stale by *)
(* any amount when the stream is reached: here it is any of Supplied.      *)
(***************************************************************************)
EXTENDS V7Word, Sequences

CONSTANTS
    Procs,       \* goroutines
    Primary,     \* the instance whose memory holds the stream
    Spares,      \* further instances: pooled, held or not existing
    NoProc,
    PageItems,   \* UUIDs to a page of scratch       (4096)
    HostPages,   \* pages a guest memory can hold    (hostMaxPages)
    Builds,      \* "pool", and "tinygo", where a stateless call waits for the primary
    Kinds,       \* kinds of call made: "v7", "v4", "stateless", "one-off"
    Counted,     \* kinds of call that MaxCalls bounds
    MaxCalls     \* calls of the Counted kinds made in one behaviour

ASSUME CallsAssumption ==
    /\ Primary \notin Spares /\ NoProc \notin Procs
    /\ PageItems \in Nat \ {0} /\ HostPages \in Nat /\ HostPages >= 3
    /\ MaxCalls \in Nat /\ Builds \subseteq {"pool", "tinygo"}
    /\ Kinds \subseteq {"v7", "v4", "stateless", "one-off"} /\ Counted \subseteq Kinds

Instances == {Primary} \cup Spares

VARIABLES
    build,     \* how the program was built
    hi, low,   \* the stream word, in the primary's memory
    holder,    \* who holds each instance; the primary's holder has its mutex
    pool,      \* spares idle in the sync.Pool
    scratch,   \* what each instance's scratch holds
    pages,     \* pages of the primary's scratch
    at,        \* per goroutine: the next step of its call
    frame,     \* per goroutine: the call, its instance, the core's locals, the result
    calls,     \* calls of the Counted kinds begun, bounded by MaxCalls
    log, newest, last   \* history, as in V7Stream

stream  == <<hi, low>>
history == <<log, newest, last>>
vars == <<build, hi, low, holder, pool, scratch, pages, at, frame, calls, log, newest, last>>

(* What a scratch, or a result, can hold besides a reservation's UUIDs.    *)
Blank   == [op |-> "blank"]
Random  == [op |-> "random"]
Arg(g)  == [op |-> "arg", of |-> g]
Answer(x) == IF x.op = "arg" THEN [op |-> "answer", of |-> x.of] ELSE x
Nothing == [op |-> "nothing"]   \* the zero UUID beside an error, or dst untouched

NoCall    == [op |-> "none"]
V4        == [op |-> "v4"]          \* draws, and takes no argument
Stateless == [op |-> "stateless"]   \* a short v5, inspection, SQL order
OneOff    == [op |-> "one-off"]     \* v5 of a name longer than a base scratch

WrongVersion == 5                   \* a conversion's refusal

Outcome(c, code, mode, r) == [op |-> c.op, ts |-> c.ts, rc |-> code, mode |-> mode, res |-> r]

NoPlan == [hi |-> 0, low |-> 0, ms |-> 0, first |-> 0]

NewFrame(c) ==
    [call |-> c, inst |-> Primary, seed |-> 0, old |-> <<0, 0>>, loaded |-> <<0, 0>>,
     plan |-> NoPlan, rc |-> Ok, result |-> Nothing, since |-> 0]

(* Goroutine g goes from one step of its call to the next.                 *)
Goes(g, from, to) == at[g] = from /\ at' = [at EXCEPT ![g] = to] /\ UNCHANGED build

Sets(g, f) == frame' = [frame EXCEPT ![g] = f]

Reserved(g) == Reservation(frame[g].call, frame[g].plan.ms, frame[g].plan.first)

Init ==
    /\ build \in Builds
    /\ hi = 0 /\ low = 0
    /\ holder = [i \in Instances |-> NoProc]
    /\ pool = {}
    /\ scratch = [i \in Instances |-> Blank]
    /\ pages = 1
    /\ at = [g \in Procs |-> "idle"]
    /\ frame = [g \in Procs |-> NewFrame(NoCall)]
    /\ calls = 0
    /\ log = <<>> /\ newest = 0
    /\ last = [op |-> "none", ts |-> 0, rc |-> Ok, mode |-> "none", res |-> NoCall]

-----------------------------------------------------------------------------
(***************************************************************************)
(* The doors.                                                              *)
(***************************************************************************)

Begin(g, kind, c, to) ==
    /\ kind \in Kinds /\ (kind \in Counted => calls < MaxCalls)
    /\ calls' = IF kind \in Counted THEN calls + 1 ELSE calls
    /\ Goes(g, "idle", to)
    /\ Sets(g, [NewFrame(c) EXCEPT !.since = IF kind = "v7" THEN Len(log) ELSE 0])
    /\ UNCHANGED <<stream, holder, pool, scratch, pages, history>>

(* A call that reaches the lock has already read its timestamp.            *)
CallV7(g) ==
    \E c \in Calls : c.n > 0 /\ c.n <= MaxBatch /\ Begin(g, "v7", c, "lock")

(* A count of zero, or past MaxV7Batch, is answered at the door.           *)
RefuseAtDoor(g) ==
    \E c \in Calls : ~(c.n > 0 /\ c.n <= MaxBatch) /\ Begin(g, "v7", NoCall, "idle")

CallV4(g)        == Begin(g, "v4", V4, "acquire")
CallStateless(g) == Begin(g, "stateless", Stateless, "acquire")
CallOneOff(g)    == Begin(g, "one-off", OneOff, "acquire")

-----------------------------------------------------------------------------
(***************************************************************************)
(* A version 7 call, on the primary.                                       *)
(***************************************************************************)

(* Mutant: the mutex is not waited for. *)
LockAnyway(g) ==
    /\ Goes(g, "lock", IF frame[g].call.op = "batch" THEN "grow" ELSE "check")
    /\ holder' = [holder EXCEPT ![Primary] = g]
    /\ UNCHANGED <<stream, pool, scratch, pages, frame, calls, history>>
Lock(g) ==
    /\ holder[Primary] = NoProc
    /\ Goes(g, "lock", IF frame[g].call.op = "batch" THEN "grow" ELSE "check")
    /\ holder' = [holder EXCEPT ![Primary] = g]
    /\ UNCHANGED <<stream, pool, scratch, pages, frame, calls, history>>

PagesFor(n) == (n + PageItems - 1) \div PageItems

(* Mutant: the instance's own two pages are forgotten. *)
AddressableAlone(n) == PagesFor(n) <= HostPages
(* The batch's pages and the instance's own two fit the host.              *)
Addressable(n) == PagesFor(n) + 2 <= HostPages

(* ensureScratch: the scratch grows to hold the batch and never shrinks.   *)
Grow(g) ==
    /\ Goes(g, "grow", "check")
    /\ Addressable(frame[g].call.n)
    /\ LET need == PagesFor(frame[g].call.n)
       IN  pages' = IF need <= pages THEN pages ELSE need
    /\ UNCHANGED <<stream, holder, pool, scratch, frame, calls, history>>

(* A batch the host cannot address is refused before the core runs.        *)
CannotGrow(g) ==
    /\ Goes(g, "grow", "copy")
    /\ ~Addressable(frame[g].call.n)
    /\ Sets(g, [frame[g] EXCEPT !.rc = Unaddressable])
    /\ UNCHANGED <<stream, holder, pool, scratch, pages, calls, history>>

(* The core returns a code; nothing is reserved.                           *)
Fail(g, from, code) ==
    /\ Goes(g, from, "copy")
    /\ Sets(g, [frame[g] EXCEPT !.rc = code])
    /\ last' = Outcome(frame[g].call, code, "none", NoCall)
    /\ UNCHANGED <<stream, holder, pool, pages, calls, log, newest>>

RefuseTime(g) ==
    /\ at[g] = "check" /\ frame[g].call.ts > Cap
    /\ Fail(g, "check", TimeRefused)
    /\ UNCHANGED scratch

(* A batch draws its randomness into the scratch it is then stamped over,  *)
(* a single into the guest's stack.                                        *)
ScratchDrawn(g) ==
    scratch' = IF frame[g].call.op = "batch"
               THEN [scratch EXCEPT ![Primary] = Random]
               ELSE scratch

(* The source may fail in any chunk, with the chunks before it written.    *)
DrawFails(g) ==
    /\ at[g] = "check" /\ frame[g].call.ts <= Cap
    /\ Fail(g, "check", RandomFailed)
    /\ ScratchDrawn(g)

Draw(g) ==
    /\ Goes(g, "check", "load")
    /\ frame[g].call.ts <= Cap
    /\ ScratchDrawn(g)
    /\ \E s \in Seeds(StepsFor(frame[g].call.n)) : Sets(g, [frame[g] EXCEPT !.seed = s])
    /\ UNCHANGED <<stream, holder, pool, pages, calls, history>>

(* The word is loaded (past StreamLast the code skips the load, and the    *)
(* decision does not look at it).                                          *)
Load(g) ==
    /\ Goes(g, "load", "decide")
    /\ Sets(g, [frame[g] EXCEPT !.old = stream])
    /\ UNCHANGED <<stream, holder, pool, scratch, pages, calls, history>>

(* The new word worked out from the loaded one, when there is one.         *)
NewWords(g) ==
    LET c == frame[g].call
        k == StepsFor(c.n)
        h == frame[g].old[1]
        l == frame[g].old[2]
    IN  IF OutOfStream(h, c.ts) THEN {}
        ELSE IF Advances(h, c.ts) THEN {AdvanceTo(c.ts, k, frame[g].seed)}
        ELSE IF Fits(l, k) THEN {ExtendTo(h, l, k)}
        ELSE IF MaySplit(h, c.ts) THEN {SplitTo(h, l, k)}
        ELSE {}

Decide(g) ==
    /\ Goes(g, "decide", "cas")
    /\ \E w \in NewWords(g) : Sets(g, [frame[g] EXCEPT !.plan = w])
    /\ UNCHANGED <<stream, holder, pool, scratch, pages, calls, history>>

Exhaust(g) ==
    /\ at[g] = "decide" /\ NewWords(g) = {}
    /\ ~OutOfStream(frame[g].old[1], frame[g].call.ts)
    /\ Fail(g, "decide", Exhausted)
    /\ UNCHANGED scratch

(* Minted at its own timestamp from the fresh seed, the word left alone.   *)
LeaveStream(g) ==
    LET c == frame[g].call
        s == frame[g].seed
    IN  /\ Goes(g, "decide", "stamp")
        /\ OutOfStream(frame[g].old[1], c.ts)
        /\ Sets(g, [frame[g] EXCEPT !.plan = AdvanceTo(c.ts, StepsFor(c.n), s)])
        /\ last' = Outcome(c, Ok, "outside", Reservation(c, c.ts, s))
        /\ UNCHANGED <<stream, holder, pool, scratch, pages, calls, log, newest>>

(* The compare-and-swap's load ...                                         *)
CasLoad(g) ==
    /\ Goes(g, "cas", "store")
    /\ Sets(g, [frame[g] EXCEPT !.loaded = stream])
    /\ UNCHANGED <<stream, holder, pool, scratch, pages, calls, history>>

(* ... and its store: the new word if the load found the old one; else     *)
(* what the load found is stored back and the decision made again from it. *)
CasStore(g) ==
    LET c == frame[g].call
    IN  /\ IF frame[g].loaded = frame[g].old
           THEN /\ Goes(g, "store", "stamp")
                /\ hi' = frame[g].plan.hi /\ low' = frame[g].plan.low
                /\ log' = Append(log, Reserved(g))
                /\ newest' = IF c.ts > newest THEN c.ts ELSE newest
                /\ last' = Outcome(c, Ok, "stream", Reserved(g))
                /\ UNCHANGED frame
           ELSE /\ Goes(g, "store", "decide")
                /\ hi' = frame[g].loaded[1] /\ low' = frame[g].loaded[2]
                /\ Sets(g, [frame[g] EXCEPT !.old = frame[g].loaded])
                /\ UNCHANGED history
        /\ UNCHANGED <<holder, pool, scratch, pages, calls>>

(* The UUIDs are written over the scratch.                                 *)
Stamp(g) ==
    /\ Goes(g, "stamp", "copy")
    /\ scratch' = [scratch EXCEPT ![Primary] = Reserved(g)]
    /\ UNCHANGED <<stream, holder, pool, pages, frame, calls, history>>

(* A single copies the scratch whatever the code; a batch only on success. *)
CopyOut(g) ==
    /\ Goes(g, "copy", "unlock")
    /\ IF frame[g].call.op = "single" \/ frame[g].rc = Ok
       THEN Sets(g, [frame[g] EXCEPT !.result = scratch[Primary]])
       ELSE UNCHANGED frame
    /\ UNCHANGED <<stream, holder, pool, scratch, pages, calls, history>>

Unlock(g) ==
    /\ Goes(g, "unlock", "return")
    /\ holder' = [holder EXCEPT ![Primary] = NoProc]
    /\ UNCHANGED <<stream, pool, scratch, pages, frame, calls, history>>

(* Mutant: the bytes copied out are returned beside the error too. *)
DeliveredRaw(f) == f.result
(* NewV4, NewV7At, sqlOrder: the zero UUID goes with an error.             *)
Delivered(f) == IF f.rc = Ok THEN f.result ELSE Nothing

(* Mutant: a call whose draw failed is made again. *)
ReturnRetried(g) ==
    /\ Goes(g, "return", IF frame[g].rc = RandomFailed THEN "lock" ELSE "idle")
    /\ Sets(g, [frame[g] EXCEPT
                  !.result = Delivered(frame[g]), !.rc = IF @ = RandomFailed THEN Ok ELSE @,
                  !.seed = 0, !.old = <<0, 0>>, !.loaded = <<0, 0>>])
    /\ UNCHANGED <<stream, holder, pool, scratch, pages, calls, history>>
(* NewV7At's switch, and errBatch (a batch's destination was not written). *)
(* The core's locals are gone.                                             *)
Return(g) ==
    /\ Goes(g, "return", "idle")
    /\ Sets(g, [frame[g] EXCEPT
                  !.result = Delivered(frame[g]),
                  !.seed = 0, !.old = <<0, 0>>, !.loaded = <<0, 0>>])
    /\ UNCHANGED <<stream, holder, pool, scratch, pages, calls, history>>

-----------------------------------------------------------------------------
(***************************************************************************)
(* A stateless call: the primary when its lock is free, else a pooled      *)
(* instance, or, without a pool, the primary once its lock is free; a long *)
(* v5 name runs on an instance of its own.                                 *)
(***************************************************************************)

Acquires(g, i) ==
    /\ Goes(g, "acquire", IF frame[g].call = V4 THEN "run" ELSE "write")
    /\ holder' = [holder EXCEPT ![i] = g]
    /\ Sets(g, [frame[g] EXCEPT !.inst = i])
    /\ UNCHANGED <<stream, pages, calls, history>>

AcquirePrimary(g) ==
    /\ build = "pool" /\ frame[g].call \in {V4, Stateless}
    /\ holder[Primary] = NoProc
    /\ Acquires(g, Primary)
    /\ UNCHANGED <<pool, scratch>>

(* TinyGo's acquire waits for the primary.                                 *)
AcquireWaiting(g) ==
    /\ build = "tinygo" /\ frame[g].call \in {V4, Stateless}
    /\ holder[Primary] = NoProc
    /\ Acquires(g, Primary)
    /\ UNCHANGED <<pool, scratch>>

(* TryLock fails when the mutex is held, or is being handed to a goroutine *)
(* that waits for it.                                                      *)
TryLockFails(g) ==
    /\ build = "pool" /\ frame[g].call \in {V4, Stateless}
    /\ holder[Primary] # NoProc \/ \E h \in Procs : at[h] = "lock"

(* Mutant: an instance stays in the pool while it is in use. *)
AcquirePooledShared(g) ==
    /\ TryLockFails(g)
    /\ \E s \in pool : Acquires(g, s)
    /\ UNCHANGED <<pool, scratch>>
AcquirePooled(g) ==
    /\ TryLockFails(g)
    /\ \E s \in pool : Acquires(g, s) /\ pool' = pool \ {s}
    /\ UNCHANGED scratch

(* A new instance: sync.Pool may make one even when it has idle ones, and  *)
(* there is always another.  It takes the place of an idle one, which a    *)
(* garbage collection may have had.                                        *)
AcquireNew(g) ==
    /\ TryLockFails(g) \/ frame[g].call = OneOff
    /\ \E s \in Spares :
          /\ holder[s] = NoProc
          /\ Acquires(g, s)
          /\ scratch' = [scratch EXCEPT ![s] = Blank]
          /\ pool' = pool \ {s}

WriteArg(g) ==
    /\ Goes(g, "write", "run")
    /\ scratch' = [scratch EXCEPT ![frame[g].inst] = Arg(g)]
    /\ UNCHANGED <<stream, holder, pool, pages, frame, calls, history>>

(* The core reads its argument from the scratch and answers there; a v4    *)
(* is drawn for whoever asks.                                              *)
Run(g) ==
    /\ Goes(g, "run", "take")
    /\ scratch' = [scratch EXCEPT ![frame[g].inst] =
                      IF frame[g].call = V4 THEN Answer(Arg(g)) ELSE Answer(@)]
    /\ UNCHANGED <<stream, holder, pool, pages, frame, calls, history>>

(* A v4's draw fails, a conversion is refused: the scratch keeps what it   *)
(* held.  Version 5 has no error.                                          *)
RunFails(g) ==
    /\ Goes(g, "run", "take")
    /\ frame[g].call \in {V4, Stateless}
    /\ Sets(g, [frame[g] EXCEPT
                  !.rc = IF frame[g].call = V4 THEN RandomFailed ELSE WrongVersion])
    /\ UNCHANGED <<stream, holder, pool, scratch, pages, calls, history>>

Take(g) ==
    /\ Goes(g, "take", "release")
    /\ Sets(g, [frame[g] EXCEPT !.result = scratch[frame[g].inst]])
    /\ UNCHANGED <<stream, holder, pool, scratch, pages, calls, history>>

(* The primary is unlocked, a pooled instance goes back to the pool, a     *)
(* one-off instance is dropped.                                            *)
Release(g) ==
    LET i == frame[g].inst
    IN  /\ Goes(g, "release", "idle")
        /\ holder' = [holder EXCEPT ![i] = NoProc]
        /\ pool' = IF i # Primary /\ frame[g].call # OneOff THEN pool \cup {i} ELSE pool
        /\ Sets(g, [frame[g] EXCEPT !.result = Delivered(frame[g])])
        /\ UNCHANGED <<stream, scratch, pages, calls, history>>

(* A garbage collection empties the pool of what it likes.                 *)
Collect ==
    /\ \E s \in pool : pool' = pool \ {s}
    /\ UNCHANGED <<build, stream, holder, scratch, pages, at, frame, calls, history>>

-----------------------------------------------------------------------------
StepV7(g) ==
    \/ Grow(g) \/ CannotGrow(g)
    \/ RefuseTime(g) \/ DrawFails(g) \/ Draw(g)
    \/ Load(g) \/ Decide(g) \/ LeaveStream(g) \/ Exhaust(g)
    \/ CasLoad(g) \/ CasStore(g)
    \/ Stamp(g) \/ CopyOut(g) \/ Unlock(g) \/ Return(g)

StepStateless(g) ==
    \/ AcquirePrimary(g) \/ AcquireWaiting(g) \/ AcquirePooled(g) \/ AcquireNew(g)
    \/ WriteArg(g) \/ Run(g) \/ RunFails(g) \/ Take(g) \/ Release(g)

Next ==
    \/ \E g \in Procs :
          \/ CallV7(g) \/ RefuseAtDoor(g)
          \/ CallV4(g) \/ CallStateless(g) \/ CallOneOff(g)
          \/ Lock(g)
          \/ StepV7(g)
          \/ StepStateless(g)
    \/ Collect

Spec == Init /\ [][Next]_vars

(* A goroutine inside a call is scheduled, and the entropy source answers  *)
(* or fails; sync.Mutex hands the lock to a goroutine that has waited for  *)
(* a millisecond, so a waiter is passed over only finitely often (under    *)
(* TinyGo, whose sync is its own, this is an assumption).                  *)
Fairness ==
    \A g \in Procs :
        /\ WF_vars(StepV7(g)) /\ WF_vars(StepStateless(g))
        /\ SF_vars(Lock(g) \/ AcquireWaiting(g))

FairSpec == Spec /\ Fairness

-----------------------------------------------------------------------------
(***************************************************************************)
(* Properties.                                                             *)
(***************************************************************************)

PointsV7 == {"grow", "check", "load", "decide", "cas", "store", "stamp", "copy", "unlock"}
PointsStateless == {"write", "run", "take", "release"}

(* Type invariant.                                                         *)
TypeOK ==
    /\ hi \in 0 .. StreamLast + 1 /\ low \in 0 .. Steps - 1
    /\ holder \in [Instances -> Procs \cup {NoProc}]
    /\ pool \subseteq Spares
    /\ pages \in 1 .. HostPages - 2
    /\ at \in [Procs -> PointsV7 \cup PointsStateless \cup {"idle", "lock", "return", "acquire"}]
    /\ calls \in 0 .. MaxCalls

(* A goroutine between acquiring and releasing holds its instance alone:   *)
(* no other goroutine is on it, and the pool cannot hand it out.           *)
Exclusive ==
    \A g \in Procs :
        at[g] \in PointsV7 \cup PointsStateless =>
            /\ holder[frame[g].inst] = g
            /\ frame[g].inst \notin pool
            /\ at[g] \in PointsV7 => frame[g].inst = Primary

(* Between the core's load of the word and its store nobody writes it, so  *)
(* the load-compare-store is a compare-and-swap and is never retried.      *)
WordStable ==
    \A g \in Procs :
        /\ at[g] \in {"decide", "cas", "store"} => frame[g].old = stream
        /\ at[g] = "store" => frame[g].loaded = frame[g].old

(* What a call returns is what it asked for itself: its own reservation,   *)
(* or the answer to its own argument, or nothing beside an error; never    *)
(* what another call left in the scratch.                                  *)
OwnResult ==
    \A g \in Procs :
        LET f == frame[g]
        IN  at[g] = "idle" /\ f.call # NoCall =>
                f.result = IF f.rc # Ok THEN Nothing
                           ELSE IF f.call \in {V4, Stateless, OneOff} THEN Answer(Arg(g))
                           ELSE Reserved(g)

(* A call whose timestamp is within 10 s of the newest one reserved sorts, *)
(* when it succeeds, strictly after every reservation made before it       *)
(* began, so after every call that had completed, on any goroutine.        *)
(* (uuidgen.go, NewV7At.)                                                  *)
RealTimeOrder ==
    \A g \in Procs :
        LET f == frame[g]
        IN  ( /\ at[g] = "idle" /\ f.call \in Calls /\ f.rc = Ok
              /\ f.call.ts <= StreamLast
              /\ f.call.ts + (ClampWindow - DriftWindow) >= newest )
            => \A i \in 1 .. f.since : Before(LastStep(log[i]), FirstStep(f.result))

(* A call seen from the stream is one atomic step of V7Stream: the word    *)
(* and the history are the stream's own, everything else is hidden.        *)
Stream == INSTANCE V7Stream WITH hi <- hi, low <- low, newest <- newest, log <- log, last <- last
ImplementsStream == Stream!Spec

(* Every call that was begun returns, however many others contend.         *)
EveryCallReturns == \A g \in Procs : at[g] # "idle" ~> at[g] = "idle"
=============================================================================
