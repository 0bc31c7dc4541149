--------------------------- MODULE V7CallsProofs ----------------------------
(***************************************************************************)
(* Proofs about V7Calls, for any number of goroutines, instances and       *)
(* calls, every width of the word and both builds.                         *)
(*                                                                         *)
(* A step of goroutine g concerns one instance, which g holds or which is  *)
(* free (Touches).  So it leaves alone whatever another goroutine relies   *)
(* on (Quiet), and each action needs to be looked at only from the         *)
(* goroutine that takes it (Mine).                                         *)
(***************************************************************************)
EXTENDS V7Calls, TLAPS

-----------------------------------------------------------------------------
(* The inductive invariant. *)

Points == PointsV7 \cup PointsStateless

Fields == {"call", "inst", "seed", "old", "loaded", "plan", "rc", "result", "since"}

(* TypeOK without the word, and the shape of what TypeOK leaves out.       *)
Shape ==
    /\ holder \in [Instances -> Procs \cup {NoProc}]
    /\ pool \subseteq Spares
    /\ pages \in 1 .. HostPages - 2
    /\ at \in [Procs -> Points \cup {"idle", "lock", "return", "acquire"}]
    /\ calls \in 0 .. MaxCalls
    /\ DOMAIN scratch = Instances
    /\ DOMAIN frame = Procs
    /\ \A g \in Procs : DOMAIN frame[g] = Fields /\ frame[g].inst \in Instances

Held(g) ==
    at[g] \in Points =>
        /\ holder[frame[g].inst] = g
        /\ frame[g].inst \notin pool
        /\ at[g] \in PointsV7 => frame[g].inst = Primary

(* Which call g is in the middle of, and what was checked of it.           *)
Asked(g) ==
    LET c == frame[g].call
    IN  /\ at[g] \in PointsV7 \cup {"lock", "return"} =>
              c \in Calls /\ c.n > 0 /\ c.n <= MaxBatch /\ frame[g].inst = Primary
        /\ at[g] \in PointsStateless \cup {"acquire"} => c \in {V4, Stateless, OneOff}
        /\ at[g] = "idle" => c \in Calls \cup {V4, Stateless, OneOff, NoCall}
        /\ at[g] \in {"load", "decide", "cas", "store"} =>
              c.ts <= Cap /\ frame[g].seed \in Seeds(StepsFor(c.n))
        /\ at[g] \in (PointsV7 \ {"copy", "unlock"}) \cup {"lock", "acquire", "write", "run"} =>
              frame[g].rc = Ok

(* What g read of the word still holds, and what it is about to write is   *)
(* worked out from it.                                                     *)
Stable(g) ==
    /\ at[g] \in {"decide", "cas", "store"} => frame[g].old = stream
    /\ at[g] \in {"cas", "store"} => frame[g].plan \in NewWords(g)
    /\ at[g] = "store" => frame[g].loaded = frame[g].old

(* The scratch, and then the result, are g's own unless it has failed.     *)
Own(g) ==
    LET f == frame[g]
    IN  /\ at[g] = "copy" /\ f.rc = Ok => scratch[Primary] = Reserved(g)
        /\ at[g] \in {"unlock", "return"} /\ f.rc = Ok => f.result = Reserved(g)
        /\ at[g] = "run" /\ f.call # V4 => scratch[f.inst] = Arg(g)
        /\ at[g] = "take" /\ f.rc = Ok => scratch[f.inst] = Answer(Arg(g))
        /\ at[g] = "release" /\ f.rc = Ok => f.result = Answer(Arg(g))
        /\ at[g] = "idle" /\ f.call # NoCall =>
              f.result = IF f.rc # Ok THEN Nothing
                         ELSE IF f.call \in {V4, Stateless, OneOff} THEN Answer(Arg(g))
                         ELSE Reserved(g)

Mine(g) == Held(g) /\ Asked(g) /\ Stable(g) /\ Own(g)

CallsInv == Shape /\ \A g \in Procs : Mine(g)

-----------------------------------------------------------------------------
(* What a step of one goroutine leaves to the others. *)

(* A step of g that concerns instance i alone, or no instance.             *)
Touches(g, i) ==
    /\ \A h \in Procs \ {g} : at'[h] = at[h] /\ frame'[h] = frame[h]
    /\ \A j \in Instances \ {i} : holder'[j] = holder[j] /\ scratch'[j] = scratch[j]
    /\ pool' \subseteq pool \cup {i}
    /\ i # Primary => UNCHANGED stream
    /\ holder[i] \in {g, NoProc} \/ i \in pool \/ UNCHANGED <<holder, scratch, pool, stream>>

(* Nothing that h relies on has changed.                                   *)
Quiet(h) ==
    /\ at'[h] = at[h] /\ frame'[h] = frame[h]
    /\ at[h] \in Points =>
          /\ holder'[frame[h].inst] = holder[frame[h].inst]
          /\ scratch'[frame[h].inst] = scratch[frame[h].inst]
          /\ frame[h].inst \notin pool'
          /\ frame[h].inst = Primary => UNCHANGED stream

LEMMA TouchesQuiet ==
    ASSUME CallsInv, NEW g \in Procs, NEW i \in Instances, Touches(g, i),
           NEW h \in Procs, h # g
    PROVE  Quiet(h)
  <1>1. at'[h] = at[h] /\ frame'[h] = frame[h]
    BY DEF Touches
  <1>2. ASSUME at[h] \in Points
        PROVE  /\ holder'[frame[h].inst] = holder[frame[h].inst]
               /\ scratch'[frame[h].inst] = scratch[frame[h].inst]
               /\ frame[h].inst \notin pool'
               /\ frame[h].inst = Primary => UNCHANGED stream
    <2>1. holder[frame[h].inst] = h /\ frame[h].inst \notin pool /\ frame[h].inst \in Instances
      BY <1>2 DEF CallsInv, Mine, Held, Shape
    <2>2. CASE holder[i] \in {g, NoProc} \/ i \in pool
      <3>1. frame[h].inst # i
        BY <2>1, <2>2, CallsAssumption
      <3> QED BY <2>1, <3>1 DEF Touches
    <2>3. CASE UNCHANGED <<holder, scratch, pool, stream>>
      BY <2>1, <2>3
    <2> QED BY <2>2, <2>3 DEF Touches
  <1> QED BY <1>1, <1>2 DEF Quiet

LEMMA QuietKeeps ==
    ASSUME CallsInv, NEW h \in Procs, Quiet(h)
    PROVE  Mine(h)'
  <1>1. /\ at'[h] = at[h] /\ frame'[h] = frame[h] /\ Mine(h) /\ frame[h].inst \in Instances
        /\ at[h] \in Points =>
              /\ holder'[frame[h].inst] = holder[frame[h].inst]
              /\ scratch'[frame[h].inst] = scratch[frame[h].inst]
              /\ frame[h].inst \notin pool'
              /\ frame[h].inst = Primary => UNCHANGED stream
    BY DEF Quiet, CallsInv, Shape
  <1>2. NewWords(h)' = NewWords(h) /\ Reserved(h)' = Reserved(h)
    BY <1>1 DEF NewWords, Reserved
  <1>3. Held(h)'
    BY <1>1 DEF Mine, Held
  <1>4. Asked(h)'
    BY <1>1 DEF Mine, Asked
  <1>5. Stable(h)'
    BY <1>1, <1>2 DEF Mine, Held, Stable, Points, PointsV7
  <1>6. Own(h)'
    BY <1>1, <1>2 DEF Mine, Held, Own, Points, PointsV7, PointsStateless
  <1> QED BY <1>3, <1>4, <1>5, <1>6 DEF Mine

(* So a step of g needs to be looked at from g alone.                      *)
LEMMA StepKeeps ==
    ASSUME CallsInv, NEW g \in Procs, NEW i \in Instances, Touches(g, i), Shape', Mine(g)'
    PROVE  CallsInv'
  <1>1. \A h \in Procs : Mine(h)'
    BY TouchesQuiet, QuietKeeps
  <1> QED BY <1>1 DEF CallsInv

-----------------------------------------------------------------------------
(* One lemma per action. *)

USE DEF Points, PointsV7, PointsStateless, Goes, Sets

(* Calls of the two kinds and the stateless ones have different names.     *)
LEMMA CallOps ==
    /\ NoCall \notin Calls /\ V4 \notin Calls /\ Stateless \notin Calls /\ OneOff \notin Calls
    /\ NoCall \notin {V4, Stateless, OneOff}
  <1>1. \A c \in Calls : c.op \in {"single", "batch"}
    BY DEF Calls, SingleCalls, BatchCalls
  <1>2. NoCall.op = "none" /\ V4.op = "v4" /\ Stateless.op = "stateless" /\ OneOff.op = "one-off"
    BY DEF NoCall, V4, Stateless, OneOff
  <1> QED BY <1>1, <1>2

(* What callers ask for is counted in naturals.                            *)
LEMMA CallNats == ASSUME NEW c \in Calls PROVE c.n \in Nat /\ c.ts \in Nat
  <1>1. Supplied \subseteq Nat /\ Counts \subseteq Nat
    BY CallersAssumption
  <1>2. CASE c \in SingleCalls
    <2>1. c.n = 1 /\ c.ts \in Supplied
      BY <1>2 DEF SingleCalls
    <2>2. c.ts \in Nat
      BY <1>1, <2>1
    <2> QED BY <2>1, <2>2
  <1>3. CASE c \in BatchCalls
    BY <1>1, <1>3 DEF BatchCalls
  <1> QED BY <1>2, <1>3 DEF Calls

(* A batch that fits the host takes at least one page of what is left.     *)
LEMMA PagesFit ==
    ASSUME NEW n \in Nat \ {0}, Addressable(n)
    PROVE  PagesFor(n) \in 1 .. HostPages - 2
  <1>1. PageItems \in Nat \ {0} /\ HostPages \in Nat
    BY CallsAssumption
  <1>2. PICK x \in Nat : x = n + PageItems - 1 /\ x >= PageItems
    BY <1>1
  <1>3. x \div PageItems \in Nat /\ x \div PageItems >= 1
    BY <1>1, <1>2, SMTT(30)
  <1> QED BY <1>1, <1>2, <1>3 DEF PagesFor, Addressable

LEMMA BeginKeeps ==
    ASSUME CallsInv, NEW g \in Procs, NEW kind, NEW c, NEW to, Begin(g, kind, c, to),
           \/ to = "lock" /\ c \in Calls /\ c.n > 0 /\ c.n <= MaxBatch
           \/ to = "idle" /\ c = NoCall
           \/ to = "acquire" /\ c \in {V4, Stateless, OneOff}
    PROVE  CallsInv'
  <1>1. Shape /\ Mine(g) /\ Primary \in Instances
    BY DEF CallsInv, Instances
  <1>2. at' = [at EXCEPT ![g] = to] /\ UNCHANGED <<stream, holder, pool, scratch, pages, history>>
    BY DEF Begin
  <1>3. PICK n : frame' = [frame EXCEPT ![g] = [NewFrame(c) EXCEPT !.since = n]]
    BY DEF Begin
  <1>4. /\ frame'[g].call = c /\ frame'[g].inst = Primary /\ frame'[g].rc = Ok
        /\ DOMAIN frame'[g] = Fields /\ at'[g] = to
    BY <1>1, <1>2, <1>3 DEF Shape, NewFrame, Fields
  <1>5. Shape'
    <2>1. calls' \in 0 .. MaxCalls
      BY <1>1, CallsAssumption DEF Shape, Begin
    <2> QED BY <1>1, <1>2, <1>3, <1>4, <2>1 DEF Shape
  <1>6. Touches(g, Primary)
    BY <1>1, <1>2, <1>3 DEF Shape, Touches
  <1>7. Mine(g)'
    BY <1>4 DEF Mine, Held, Asked, Stable, Own
  <1> QED BY <1>1, <1>5, <1>6, <1>7, StepKeeps

(* The mutex is free, so no other goroutine is inside.                     *)
LEMMA LockKeeps == ASSUME CallsInv, NEW g \in Procs, Lock(g) PROVE CallsInv'
  <1>1. Shape /\ Mine(g) /\ Primary \in Instances
    BY DEF CallsInv, Instances
  <1>2. Shape'
    BY <1>1 DEF Shape, Fields, Lock
  <1>3. Touches(g, Primary)
    BY <1>1 DEF Shape, Touches, Mine, Held, Lock
  <1>4. Held(g)'
    BY <1>1, CallsAssumption DEF Shape, Fields, Mine, Held, Lock, Asked
  <1>5. Asked(g)'
    BY <1>1 DEF Shape, Fields, Mine, Asked, Lock
  <1>6. Stable(g)'
    BY <1>1 DEF Shape, Fields, Mine, Stable, Lock
  <1>7. Own(g)'
    BY <1>1 DEF Shape, Fields, Mine, Own, Lock
  <1> QED BY <1>1, <1>2, <1>3, <1>4, <1>5, <1>6, <1>7, StepKeeps DEF Mine

LEMMA GrowKeeps == ASSUME CallsInv, NEW g \in Procs, Grow(g) PROVE CallsInv'
  <1>1. Shape /\ Mine(g) /\ Primary \in Instances
    BY DEF CallsInv, Instances
  <1>2. Shape'
    <2>1. frame[g].call \in Calls /\ frame[g].call.n > 0 /\ Addressable(frame[g].call.n)
      BY <1>1 DEF Mine, Asked, Grow
    <2>2. frame[g].call.n \in Nat \ {0}
      BY <2>1, CallNats
    <2>3. pages' \in 1 .. HostPages - 2
      BY <1>1, <2>1, <2>2, PagesFit DEF Grow, Shape
    <2> QED BY <1>1, <2>3 DEF Shape, Grow
  <1>3. Touches(g, Primary)
    BY <1>1 DEF Shape, Touches, Mine, Held, Grow
  <1>4. Held(g)'
    BY <1>1 DEF Shape, Fields, Mine, Held, Grow
  <1>5. Asked(g)'
    BY <1>1 DEF Shape, Fields, Mine, Asked, Grow
  <1>6. Stable(g)'
    BY <1>1 DEF Shape, Fields, Mine, Stable, Grow
  <1>7. Own(g)'
    BY <1>1 DEF Shape, Fields, Mine, Own, Grow
  <1> QED BY <1>1, <1>2, <1>3, <1>4, <1>5, <1>6, <1>7, StepKeeps DEF Mine

LEMMA CannotGrowKeeps == ASSUME CallsInv, NEW g \in Procs, CannotGrow(g) PROVE CallsInv'
  <1>1. Shape /\ Mine(g) /\ Primary \in Instances
    BY DEF CallsInv, Instances
  <1>2. Shape'
    BY <1>1 DEF Shape, Fields, CannotGrow
  <1>3. Touches(g, Primary)
    BY <1>1 DEF Shape, Touches, Mine, Held, CannotGrow
  <1>4. Held(g)'
    BY <1>1 DEF Shape, Fields, Mine, Held, CannotGrow
  <1>5. Asked(g)'
    BY <1>1 DEF Shape, Fields, Mine, Asked, CannotGrow
  <1>6. Stable(g)'
    BY <1>1 DEF Shape, Fields, Mine, Stable, CannotGrow
  <1>7. Own(g)'
    BY <1>1 DEF Shape, Fields, Mine, Own, CannotGrow, Ok, Unaddressable
  <1> QED BY <1>1, <1>2, <1>3, <1>4, <1>5, <1>6, <1>7, StepKeeps DEF Mine

LEMMA RefuseTimeKeeps == ASSUME CallsInv, NEW g \in Procs, RefuseTime(g) PROVE CallsInv'
  <1>1. Shape /\ Mine(g) /\ Primary \in Instances
    BY DEF CallsInv, Instances
  <1>2. Shape'
    BY <1>1 DEF Shape, Fields, RefuseTime, Fail
  <1>3. Touches(g, Primary)
    BY <1>1 DEF Shape, Touches, Mine, Held, RefuseTime, Fail
  <1>4. Held(g)'
    BY <1>1 DEF Shape, Fields, Mine, Held, RefuseTime, Fail
  <1>5. Asked(g)'
    BY <1>1 DEF Shape, Fields, Mine, Asked, RefuseTime, Fail
  <1>6. Stable(g)'
    BY <1>1 DEF Shape, Fields, Mine, Stable, RefuseTime, Fail
  <1>7. Own(g)'
    BY <1>1 DEF Shape, Fields, Mine, Own, RefuseTime, Fail, Ok, TimeRefused
  <1> QED BY <1>1, <1>2, <1>3, <1>4, <1>5, <1>6, <1>7, StepKeeps DEF Mine

LEMMA DrawFailsKeeps == ASSUME CallsInv, NEW g \in Procs, DrawFails(g) PROVE CallsInv'
  <1>1. Shape /\ Mine(g) /\ Primary \in Instances
    BY DEF CallsInv, Instances
  <1>2. Shape'
    BY <1>1 DEF Shape, Fields, DrawFails, Fail, ScratchDrawn
  <1>3. Touches(g, Primary)
    BY <1>1 DEF Shape, Touches, Mine, Held, DrawFails, Fail, ScratchDrawn
  <1>4. Held(g)'
    BY <1>1 DEF Shape, Fields, Mine, Held, DrawFails, Fail
  <1>5. Asked(g)'
    BY <1>1 DEF Shape, Fields, Mine, Asked, DrawFails, Fail
  <1>6. Stable(g)'
    BY <1>1 DEF Shape, Fields, Mine, Stable, DrawFails, Fail
  <1>7. Own(g)'
    BY <1>1 DEF Shape, Fields, Mine, Own, DrawFails, Fail, Ok, RandomFailed
  <1> QED BY <1>1, <1>2, <1>3, <1>4, <1>5, <1>6, <1>7, StepKeeps DEF Mine

LEMMA DrawKeeps == ASSUME CallsInv, NEW g \in Procs, Draw(g) PROVE CallsInv'
  <1>1. Shape /\ Mine(g) /\ Primary \in Instances
    BY DEF CallsInv, Instances
  <1>2. Shape'
    BY <1>1 DEF Shape, Fields, Draw, ScratchDrawn
  <1>3. Touches(g, Primary)
    BY <1>1 DEF Shape, Touches, Mine, Held, Draw, ScratchDrawn
  <1>4. Held(g)'
    BY <1>1 DEF Shape, Fields, Mine, Held, Draw
  <1>5. Asked(g)'
    BY <1>1 DEF Shape, Fields, Mine, Asked, Draw
  <1>6. Stable(g)'
    BY <1>1 DEF Shape, Fields, Mine, Stable, Draw
  <1>7. Own(g)'
    BY <1>1 DEF Shape, Fields, Mine, Own, Draw
  <1> QED BY <1>1, <1>2, <1>3, <1>4, <1>5, <1>6, <1>7, StepKeeps DEF Mine

LEMMA LoadKeeps == ASSUME CallsInv, NEW g \in Procs, Load(g) PROVE CallsInv'
  <1>1. Shape /\ Mine(g) /\ Primary \in Instances
    BY DEF CallsInv, Instances
  <1>2. Shape'
    BY <1>1 DEF Shape, Fields, Load
  <1>3. Touches(g, Primary)
    BY <1>1 DEF Shape, Touches, Mine, Held, Load
  <1>4. Held(g)'
    BY <1>1 DEF Shape, Fields, Mine, Held, Load
  <1>5. Asked(g)'
    BY <1>1 DEF Shape, Fields, Mine, Asked, Load
  <1>6. Stable(g)'
    BY <1>1 DEF Shape, Fields, Mine, Stable, Load
  <1>7. Own(g)'
    BY <1>1 DEF Shape, Fields, Mine, Own, Load
  <1> QED BY <1>1, <1>2, <1>3, <1>4, <1>5, <1>6, <1>7, StepKeeps DEF Mine

LEMMA DecideKeeps == ASSUME CallsInv, NEW g \in Procs, Decide(g) PROVE CallsInv'
  <1>1. Shape /\ Mine(g) /\ Primary \in Instances
    BY DEF CallsInv, Instances
  <1>2. Shape'
    BY <1>1 DEF Shape, Fields, Decide
  <1>3. Touches(g, Primary)
    BY <1>1 DEF Shape, Touches, Mine, Held, Decide
  <1>4. Held(g)'
    BY <1>1 DEF Shape, Fields, Mine, Held, Decide
  <1>5. Asked(g)'
    BY <1>1 DEF Shape, Fields, Mine, Asked, Decide
  <1>6. Stable(g)'
    BY <1>1 DEF Shape, Fields, Mine, Stable, Decide, stream, NewWords
  <1>7. Own(g)'
    BY <1>1 DEF Shape, Fields, Mine, Own, Decide
  <1> QED BY <1>1, <1>2, <1>3, <1>4, <1>5, <1>6, <1>7, StepKeeps DEF Mine

LEMMA ExhaustKeeps == ASSUME CallsInv, NEW g \in Procs, Exhaust(g) PROVE CallsInv'
  <1>1. Shape /\ Mine(g) /\ Primary \in Instances
    BY DEF CallsInv, Instances
  <1>2. Shape'
    BY <1>1 DEF Shape, Fields, Exhaust, Fail
  <1>3. Touches(g, Primary)
    BY <1>1 DEF Shape, Touches, Mine, Held, Exhaust, Fail
  <1>4. Held(g)'
    BY <1>1 DEF Shape, Fields, Mine, Held, Exhaust, Fail
  <1>5. Asked(g)'
    BY <1>1 DEF Shape, Fields, Mine, Asked, Exhaust, Fail
  <1>6. Stable(g)'
    BY <1>1 DEF Shape, Fields, Mine, Stable, Exhaust, Fail
  <1>7. Own(g)'
    BY <1>1 DEF Shape, Fields, Mine, Own, Exhaust, Fail, Ok, Exhausted
  <1> QED BY <1>1, <1>2, <1>3, <1>4, <1>5, <1>6, <1>7, StepKeeps DEF Mine

LEMMA LeaveStreamKeeps == ASSUME CallsInv, NEW g \in Procs, LeaveStream(g) PROVE CallsInv'
  <1>1. Shape /\ Mine(g) /\ Primary \in Instances
    BY DEF CallsInv, Instances
  <1>2. Shape'
    BY <1>1 DEF Shape, Fields, LeaveStream
  <1>3. Touches(g, Primary)
    BY <1>1 DEF Shape, Touches, Mine, Held, LeaveStream
  <1>4. Held(g)'
    BY <1>1 DEF Shape, Fields, Mine, Held, LeaveStream
  <1>5. Asked(g)'
    BY <1>1 DEF Shape, Fields, Mine, Asked, LeaveStream
  <1>6. Stable(g)'
    BY <1>1 DEF Shape, Fields, Mine, Stable, LeaveStream
  <1>7. Own(g)'
    BY <1>1 DEF Shape, Fields, Mine, Own, LeaveStream
  <1> QED BY <1>1, <1>2, <1>3, <1>4, <1>5, <1>6, <1>7, StepKeeps DEF Mine

LEMMA CasLoadKeeps == ASSUME CallsInv, NEW g \in Procs, CasLoad(g) PROVE CallsInv'
  <1>1. Shape /\ Mine(g) /\ Primary \in Instances
    BY DEF CallsInv, Instances
  <1>2. Shape'
    BY <1>1 DEF Shape, Fields, CasLoad
  <1>3. Touches(g, Primary)
    BY <1>1 DEF Shape, Touches, Mine, Held, CasLoad
  <1>4. Held(g)'
    BY <1>1 DEF Shape, Fields, Mine, Held, CasLoad
  <1>5. Asked(g)'
    BY <1>1 DEF Shape, Fields, Mine, Asked, CasLoad
  <1>6. Stable(g)'
    BY <1>1 DEF Shape, Fields, Mine, Stable, CasLoad, stream, NewWords
  <1>7. Own(g)'
    BY <1>1 DEF Shape, Fields, Mine, Own, CasLoad
  <1> QED BY <1>1, <1>2, <1>3, <1>4, <1>5, <1>6, <1>7, StepKeeps DEF Mine

(* The word is as it was read, so the new word is stored and not retried.  *)
LEMMA CasStoreKeeps == ASSUME CallsInv, NEW g \in Procs, CasStore(g) PROVE CallsInv'
  <1>1. Shape /\ Mine(g) /\ Primary \in Instances
    BY DEF CallsInv, Instances
  <1>2. Shape'
    BY <1>1 DEF Shape, Fields, CasStore
  <1>3. Touches(g, Primary)
    BY <1>1 DEF Shape, Touches, Mine, Held, CasStore
  <1>4. Held(g)'
    BY <1>1 DEF Shape, Fields, Mine, Held, CasStore
  <1>5. Asked(g)'
    BY <1>1 DEF Shape, Fields, Mine, Asked, CasStore
  <1>6. Stable(g)'
    BY <1>1 DEF Shape, Fields, Mine, Stable, CasStore, stream, NewWords
  <1>7. Own(g)'
    BY <1>1 DEF Shape, Fields, Mine, Own, CasStore
  <1> QED BY <1>1, <1>2, <1>3, <1>4, <1>5, <1>6, <1>7, StepKeeps DEF Mine

LEMMA StampKeeps == ASSUME CallsInv, NEW g \in Procs, Stamp(g) PROVE CallsInv'
  <1>1. Shape /\ Mine(g) /\ Primary \in Instances
    BY DEF CallsInv, Instances
  <1>2. Shape'
    BY <1>1 DEF Shape, Fields, Stamp
  <1>3. Touches(g, Primary)
    BY <1>1 DEF Shape, Touches, Mine, Held, Stamp
  <1>4. Held(g)'
    BY <1>1 DEF Shape, Fields, Mine, Held, Stamp
  <1>5. Asked(g)'
    BY <1>1 DEF Shape, Fields, Mine, Asked, Stamp
  <1>6. Stable(g)'
    BY <1>1 DEF Shape, Fields, Mine, Stable, Stamp
  <1>7. Own(g)'
    BY <1>1 DEF Shape, Fields, Mine, Own, Stamp, Reserved
  <1> QED BY <1>1, <1>2, <1>3, <1>4, <1>5, <1>6, <1>7, StepKeeps DEF Mine

(* What the scratch holds is g's own reservation, or the core has failed.  *)
LEMMA CopyOutKeeps == ASSUME CallsInv, NEW g \in Procs, CopyOut(g) PROVE CallsInv'
  <1>1. Shape /\ Mine(g) /\ Primary \in Instances
    BY DEF CallsInv, Instances
  <1>2. Shape'
    BY <1>1 DEF Shape, Fields, CopyOut
  <1>3. Touches(g, Primary)
    BY <1>1 DEF Shape, Touches, Mine, Held, CopyOut
  <1>4. Held(g)'
    BY <1>1 DEF Shape, Fields, Mine, Held, CopyOut
  <1>5. Asked(g)'
    BY <1>1 DEF Shape, Fields, Mine, Asked, CopyOut
  <1>6. Stable(g)'
    BY <1>1 DEF Shape, Fields, Mine, Stable, CopyOut
  <1>7. Own(g)'
    BY <1>1 DEF Shape, Fields, Mine, Own, CopyOut, Reserved
  <1> QED BY <1>1, <1>2, <1>3, <1>4, <1>5, <1>6, <1>7, StepKeeps DEF Mine

LEMMA UnlockKeeps == ASSUME CallsInv, NEW g \in Procs, Unlock(g) PROVE CallsInv'
  <1>1. Shape /\ Mine(g) /\ Primary \in Instances
    BY DEF CallsInv, Instances
  <1>2. Shape'
    BY <1>1 DEF Shape, Fields, Unlock
  <1>3. Touches(g, Primary)
    BY <1>1 DEF Shape, Touches, Mine, Held, Unlock
  <1>4. Held(g)'
    BY <1>1 DEF Shape, Fields, Mine, Held, Unlock
  <1>5. Asked(g)'
    BY <1>1 DEF Shape, Fields, Mine, Asked, Unlock
  <1>6. Stable(g)'
    BY <1>1 DEF Shape, Fields, Mine, Stable, Unlock
  <1>7. Own(g)'
    BY <1>1 DEF Shape, Fields, Mine, Own, Unlock, Reserved
  <1> QED BY <1>1, <1>2, <1>3, <1>4, <1>5, <1>6, <1>7, StepKeeps DEF Mine

(* Beside an error the bytes copied out are dropped.                       *)
LEMMA ReturnKeeps == ASSUME CallsInv, NEW g \in Procs, Return(g) PROVE CallsInv'
  <1>1. Shape /\ Mine(g) /\ Primary \in Instances
    BY DEF CallsInv, Instances
  <1>2. Shape'
    BY <1>1 DEF Shape, Fields, Return
  <1>3. Touches(g, Primary)
    BY <1>1 DEF Shape, Touches, Mine, Held, Return
  <1>4. Held(g)'
    BY <1>1 DEF Shape, Fields, Mine, Held, Return
  <1>5. Asked(g)'
    BY <1>1 DEF Shape, Fields, Mine, Asked, Return
  <1>6. Stable(g)'
    BY <1>1 DEF Shape, Fields, Mine, Stable, Return
  <1>7. Own(g)'
    BY <1>1, CallOps DEF Shape, Fields, Mine, Own, Return, Asked, Reserved, Delivered
  <1> QED BY <1>1, <1>2, <1>3, <1>4, <1>5, <1>6, <1>7, StepKeeps DEF Mine

LEMMA AcquirePrimaryKeeps == ASSUME CallsInv, NEW g \in Procs, AcquirePrimary(g) PROVE CallsInv'
  <1>1. Shape /\ Mine(g) /\ Primary \in Instances
    BY DEF CallsInv, Instances
  <1>2. Shape'
    BY <1>1 DEF Shape, Fields, AcquirePrimary, Acquires
  <1>3. Touches(g, Primary)
    BY <1>1 DEF Shape, Touches, Mine, Held, AcquirePrimary, Acquires
  <1>4. Held(g)'
    BY <1>1, CallsAssumption DEF Shape, Fields, Mine, Held, AcquirePrimary, Acquires
  <1>5. Asked(g)'
    BY <1>1 DEF Shape, Fields, Mine, Asked, AcquirePrimary, Acquires
  <1>6. Stable(g)'
    BY <1>1 DEF Shape, Fields, Mine, Stable, AcquirePrimary, Acquires
  <1>7. Own(g)'
    BY <1>1 DEF Shape, Fields, Mine, Own, AcquirePrimary, Acquires
  <1> QED BY <1>1, <1>2, <1>3, <1>4, <1>5, <1>6, <1>7, StepKeeps DEF Mine

LEMMA AcquireWaitingKeeps == ASSUME CallsInv, NEW g \in Procs, AcquireWaiting(g) PROVE CallsInv'
  <1>1. Shape /\ Mine(g) /\ Primary \in Instances
    BY DEF CallsInv, Instances
  <1>2. Shape'
    BY <1>1 DEF Shape, Fields, AcquireWaiting, Acquires
  <1>3. Touches(g, Primary)
    BY <1>1 DEF Shape, Touches, Mine, Held, AcquireWaiting, Acquires
  <1>4. Held(g)'
    BY <1>1, CallsAssumption DEF Shape, Fields, Mine, Held, AcquireWaiting, Acquires
  <1>5. Asked(g)'
    BY <1>1 DEF Shape, Fields, Mine, Asked, AcquireWaiting, Acquires
  <1>6. Stable(g)'
    BY <1>1 DEF Shape, Fields, Mine, Stable, AcquireWaiting, Acquires
  <1>7. Own(g)'
    BY <1>1 DEF Shape, Fields, Mine, Own, AcquireWaiting, Acquires
  <1> QED BY <1>1, <1>2, <1>3, <1>4, <1>5, <1>6, <1>7, StepKeeps DEF Mine

(* A pooled instance is nobody's, and it leaves the pool.                  *)
LEMMA AcquirePooledKeeps == ASSUME CallsInv, NEW g \in Procs, AcquirePooled(g) PROVE CallsInv'
  <1>0. PICK s \in pool : TryLockFails(g) /\ Acquires(g, s) /\ pool' = pool \ {s}
                          /\ UNCHANGED scratch
    BY DEF AcquirePooled
  <1>1. Shape /\ Mine(g) /\ s \in Instances
    BY <1>0 DEF CallsInv, Shape, Instances
  <1>2. Shape'
    BY <1>1, <1>0 DEF Shape, Fields, Acquires
  <1>3. Touches(g, s)
    BY <1>1, <1>0 DEF Shape, Touches, Mine, Held, Acquires
  <1>4. Held(g)'
    BY <1>1, <1>0 DEF Shape, Fields, Mine, Held, Acquires
  <1>5. Asked(g)'
    BY <1>1, <1>0 DEF Shape, Fields, Mine, Asked, Acquires
  <1>6. Stable(g)'
    BY <1>1, <1>0 DEF Shape, Fields, Mine, Stable, Acquires
  <1>7. Own(g)'
    BY <1>1, <1>0 DEF Shape, Fields, Mine, Own, Acquires
  <1> QED BY <1>1, <1>2, <1>3, <1>4, <1>5, <1>6, <1>7, StepKeeps DEF Mine

(* A new instance is nobody's.                                             *)
LEMMA AcquireNewKeeps == ASSUME CallsInv, NEW g \in Procs, AcquireNew(g) PROVE CallsInv'
  <1>0. PICK s \in Spares : /\ TryLockFails(g) \/ frame[g].call = OneOff
                           /\ holder[s] = NoProc /\ Acquires(g, s) /\ pool' = pool \ {s}
                           /\ scratch' = [scratch EXCEPT ![s] = Blank]
    BY DEF AcquireNew
  <1>1. Shape /\ Mine(g) /\ s \in Instances
    BY <1>0 DEF CallsInv, Shape, Instances
  <1>2. Shape'
    BY <1>1, <1>0 DEF Shape, Fields, Acquires
  <1>3. Touches(g, s)
    BY <1>1, <1>0 DEF Shape, Touches, Mine, Held, Acquires
  <1>4. Held(g)'
    BY <1>1, <1>0 DEF Shape, Fields, Mine, Held, Acquires
  <1>5. Asked(g)'
    BY <1>1, <1>0 DEF Shape, Fields, Mine, Asked, Acquires, Begin
  <1>6. Stable(g)'
    BY <1>1, <1>0 DEF Shape, Fields, Mine, Stable, Acquires
  <1>7. Own(g)'
    BY <1>1, <1>0 DEF Shape, Fields, Mine, Own, Acquires
  <1> QED BY <1>1, <1>2, <1>3, <1>4, <1>5, <1>6, <1>7, StepKeeps DEF Mine

LEMMA WriteArgKeeps == ASSUME CallsInv, NEW g \in Procs, WriteArg(g) PROVE CallsInv'
  <1>1. Shape /\ Mine(g) /\ frame[g].inst \in Instances
    BY DEF CallsInv, Shape
  <1>2. Shape'
    BY <1>1 DEF Shape, Fields, WriteArg
  <1>3. Touches(g, frame[g].inst)
    BY <1>1 DEF Shape, Touches, Mine, Held, WriteArg
  <1>4. Held(g)'
    BY <1>1 DEF Shape, Fields, Mine, Held, WriteArg
  <1>5. Asked(g)'
    BY <1>1 DEF Shape, Fields, Mine, Asked, WriteArg
  <1>6. Stable(g)'
    BY <1>1 DEF Shape, Fields, Mine, Stable, WriteArg
  <1>7. Own(g)'
    BY <1>1 DEF Shape, Fields, Mine, Own, WriteArg
  <1> QED BY <1>1, <1>2, <1>3, <1>4, <1>5, <1>6, <1>7, StepKeeps DEF Mine

(* The argument in the scratch is still g's own.                           *)
LEMMA RunKeeps == ASSUME CallsInv, NEW g \in Procs, Run(g) PROVE CallsInv'
  <1>1. Shape /\ Mine(g) /\ frame[g].inst \in Instances
    BY DEF CallsInv, Shape
  <1>2. Shape'
    BY <1>1 DEF Shape, Fields, Run
  <1>3. Touches(g, frame[g].inst)
    BY <1>1 DEF Shape, Touches, Mine, Held, Run
  <1>4. Held(g)'
    BY <1>1 DEF Shape, Fields, Mine, Held, Run
  <1>5. Asked(g)'
    BY <1>1 DEF Shape, Fields, Mine, Asked, Run
  <1>6. Stable(g)'
    BY <1>1 DEF Shape, Fields, Mine, Stable, Run
  <1>7. Own(g)'
    BY <1>1 DEF Shape, Fields, Mine, Own, Run, Answer, Arg
  <1> QED BY <1>1, <1>2, <1>3, <1>4, <1>5, <1>6, <1>7, StepKeeps DEF Mine

LEMMA RunFailsKeeps == ASSUME CallsInv, NEW g \in Procs, RunFails(g) PROVE CallsInv'
  <1>1. Shape /\ Mine(g) /\ frame[g].inst \in Instances
    BY DEF CallsInv, Shape
  <1>2. Shape'
    BY <1>1 DEF Shape, Fields, RunFails
  <1>3. Touches(g, frame[g].inst)
    BY <1>1 DEF Shape, Touches, Mine, Held, RunFails
  <1>4. Held(g)'
    BY <1>1 DEF Shape, Fields, Mine, Held, RunFails
  <1>5. Asked(g)'
    BY <1>1 DEF Shape, Fields, Mine, Asked, RunFails
  <1>6. Stable(g)'
    BY <1>1 DEF Shape, Fields, Mine, Stable, RunFails
  <1>7. Own(g)'
    BY <1>1 DEF Shape, Fields, Mine, Own, RunFails, Ok, RandomFailed, WrongVersion
  <1> QED BY <1>1, <1>2, <1>3, <1>4, <1>5, <1>6, <1>7, StepKeeps DEF Mine

LEMMA TakeKeeps == ASSUME CallsInv, NEW g \in Procs, Take(g) PROVE CallsInv'
  <1>1. Shape /\ Mine(g) /\ frame[g].inst \in Instances
    BY DEF CallsInv, Shape
  <1>2. Shape'
    BY <1>1 DEF Shape, Fields, Take
  <1>3. Touches(g, frame[g].inst)
    BY <1>1 DEF Shape, Touches, Mine, Held, Take
  <1>4. Held(g)'
    BY <1>1 DEF Shape, Fields, Mine, Held, Take
  <1>5. Asked(g)'
    BY <1>1 DEF Shape, Fields, Mine, Asked, Take
  <1>6. Stable(g)'
    BY <1>1 DEF Shape, Fields, Mine, Stable, Take
  <1>7. Own(g)'
    BY <1>1 DEF Shape, Fields, Mine, Own, Take
  <1> QED BY <1>1, <1>2, <1>3, <1>4, <1>5, <1>6, <1>7, StepKeeps DEF Mine

(* The instance goes back to the pool only when g is off it.               *)
LEMMA ReleaseKeeps == ASSUME CallsInv, NEW g \in Procs, Release(g) PROVE CallsInv'
  <1>1. Shape /\ Mine(g) /\ frame[g].inst \in Instances
    BY DEF CallsInv, Shape
  <1>2. Shape'
    BY <1>1 DEF Shape, Fields, Release, Instances, Mine, Asked
  <1>3. Touches(g, frame[g].inst)
    BY <1>1 DEF Shape, Touches, Mine, Held, Release
  <1>4. Held(g)'
    BY <1>1 DEF Shape, Fields, Mine, Held, Release
  <1>5. Asked(g)'
    BY <1>1 DEF Shape, Fields, Mine, Asked, Release
  <1>6. Stable(g)'
    BY <1>1 DEF Shape, Fields, Mine, Stable, Release
  <1>7. Own(g)'
    BY <1>1 DEF Shape, Fields, Mine, Own, Release, Asked, Delivered
  <1> QED BY <1>1, <1>2, <1>3, <1>4, <1>5, <1>6, <1>7, StepKeeps DEF Mine

(* A collection takes from the pool, where nobody is.                      *)
LEMMA CollectKeeps == ASSUME CallsInv, Collect PROVE CallsInv'
  <1>1. Shape'
    BY DEF CallsInv, Shape, Collect
  <1>2. \A h \in Procs : Quiet(h)
    BY DEF CallsInv, Mine, Held, Collect, Quiet
  <1> QED BY <1>1, <1>2, QuietKeeps DEF CallsInv

LEMMA InitKeeps == Init => CallsInv
  <1> SUFFICES ASSUME Init PROVE CallsInv
    OBVIOUS
  <1>1. Shape
    BY CallsAssumption DEF Init, Shape, NewFrame, Fields, Instances
  <1>2. \A g \in Procs : Mine(g)
    BY DEF Init, NewFrame, Mine, Held, Asked, Stable, Own
  <1> QED BY <1>1, <1>2 DEF CallsInv

LEMMA NextKeeps == CallsInv /\ [Next]_vars => CallsInv'
  <1> SUFFICES ASSUME CallsInv, [Next]_vars PROVE CallsInv'
    OBVIOUS
  <1>1. CASE UNCHANGED vars
    <2>1. Shape' /\ \A h \in Procs : Quiet(h)
      BY <1>1 DEF vars, stream, CallsInv, Shape, Mine, Held, Quiet
    <2> QED BY <2>1, QuietKeeps DEF CallsInv
  <1>2. ASSUME NEW g \in Procs, CallV7(g) \/ RefuseAtDoor(g) PROVE CallsInv'
    BY <1>2, BeginKeeps DEF CallV7, RefuseAtDoor
  <1>3. ASSUME NEW g \in Procs, CallV4(g) \/ CallStateless(g) \/ CallOneOff(g) PROVE CallsInv'
    BY <1>3, BeginKeeps DEF CallV4, CallStateless, CallOneOff
  <1>4. ASSUME NEW g \in Procs, StepV7(g) PROVE CallsInv'
    BY <1>4, GrowKeeps, CannotGrowKeeps, RefuseTimeKeeps, DrawFailsKeeps, DrawKeeps, LoadKeeps,
       DecideKeeps, LeaveStreamKeeps, ExhaustKeeps, CasLoadKeeps, CasStoreKeeps, StampKeeps,
       CopyOutKeeps, UnlockKeeps, ReturnKeeps
    DEF StepV7
  <1>5. ASSUME NEW g \in Procs, StepStateless(g) PROVE CallsInv'
    BY <1>5, AcquirePrimaryKeeps, AcquireWaitingKeeps, AcquirePooledKeeps, AcquireNewKeeps,
       WriteArgKeeps, RunKeeps, RunFailsKeeps, TakeKeeps, ReleaseKeeps
    DEF StepStateless
  <1> QED BY <1>1, <1>2, <1>3, <1>4, <1>5, LockKeeps, CollectKeeps DEF Next

(* The inductive invariant: who holds what, what each goroutine knows of   *)
(* the word, and whose bytes the scratch and the results are.              *)
THEOREM CallsInvariant == Spec => []CallsInv
  BY InitKeeps, NextKeeps, PTL DEF Spec

-----------------------------------------------------------------------------
(* The properties. *)

(* Between acquiring and releasing a goroutine is alone on its instance.   *)
THEOREM Excluded == Spec => []Exclusive
  <1>1. CallsInv => Exclusive
    BY DEF CallsInv, Mine, Held, Exclusive
  <1> QED BY <1>1, CallsInvariant, PTL

(* The load, the compare and the store are one compare-and-swap.           *)
THEOREM SwapAtomic == Spec => []WordStable
  <1>1. CallsInv => WordStable
    BY DEF CallsInv, Mine, Stable, WordStable
  <1> QED BY <1>1, CallsInvariant, PTL

(* Nobody is given what another call left in a scratch.                    *)
THEOREM ResultOwn == Spec => []OwnResult
  <1>1. CallsInv => OwnResult
    BY DEF CallsInv, Mine, Own, OwnResult
  <1> QED BY <1>1, CallsInvariant, PTL

-----------------------------------------------------------------------------
(* The refinement of V7Stream. *)

StreamVars == <<hi, low, newest, log, last>>

(* The stream's own operators are those of V7Word.                         *)
LEMMA SameWord ==
    /\ Stream!Calls = Calls
    /\ \A c : Stream!Admitted(c) <=> Admitted(c)
    /\ \A n : Stream!StepsFor(n) = StepsFor(n)
    /\ \A k : Stream!Seeds(k) = Seeds(k)
    /\ \A h, ts : /\ Stream!Advances(h, ts) <=> Advances(h, ts)
                  /\ Stream!OutOfStream(h, ts) <=> OutOfStream(h, ts)
                  /\ Stream!MaySplit(h, ts) <=> MaySplit(h, ts)
    /\ \A l, k : Stream!Fits(l, k) <=> Fits(l, k)
    /\ \A ts, k, seed : Stream!AdvanceTo(ts, k, seed) = AdvanceTo(ts, k, seed)
    /\ \A h, l, k : /\ Stream!ExtendTo(h, l, k) = ExtendTo(h, l, k)
                    /\ Stream!SplitTo(h, l, k) = SplitTo(h, l, k)
    /\ \A c, ms, first : Stream!Reservation(c, ms, first) = Reservation(c, ms, first)
  <1>1. Stream!Calls = Calls
    BY DEF Stream!Calls, Calls, Stream!SingleCalls, SingleCalls, Stream!BatchCalls, BatchCalls
  <1>2. /\ \A c : Stream!Admitted(c) <=> Admitted(c)
        /\ \A n : Stream!StepsFor(n) = StepsFor(n)
        /\ \A k : Stream!Seeds(k) = Seeds(k)
    BY DEF Stream!Admitted, Admitted, Stream!StepsFor, StepsFor, Stream!Seeds, Seeds
  <1>3. \A h, ts : /\ Stream!Advances(h, ts) <=> Advances(h, ts)
                   /\ Stream!OutOfStream(h, ts) <=> OutOfStream(h, ts)
                   /\ Stream!MaySplit(h, ts) <=> MaySplit(h, ts)
    BY DEF Stream!Advances, Advances, Stream!FarBehind, FarBehind,
           Stream!OutOfStream, OutOfStream, Stream!MaySplit, MaySplit
  <1>4. \A l, k : Stream!Fits(l, k) <=> Fits(l, k)
    BY DEF Stream!Fits, Fits
  <1>5. /\ \A ts, k, seed : Stream!AdvanceTo(ts, k, seed) = AdvanceTo(ts, k, seed)
        /\ \A h, l, k : /\ Stream!ExtendTo(h, l, k) = ExtendTo(h, l, k)
                        /\ Stream!SplitTo(h, l, k) = SplitTo(h, l, k)
        /\ \A c, ms, first : Stream!Reservation(c, ms, first) = Reservation(c, ms, first)
    BY DEF Stream!AdvanceTo, AdvanceTo, Stream!ExtendTo, ExtendTo, Stream!SplitTo, SplitTo,
           Stream!Reservation, Reservation
  <1> QED BY <1>1, <1>2, <1>3, <1>4, <1>5

(* A failing call is a refusal of the stream's.                            *)
LEMMA FailRefuses ==
    ASSUME CallsInv, NEW g \in Procs, NEW from, NEW code, Fail(g, from, code), UNCHANGED stream
    PROVE  Stream!Refuse(frame[g].call, code)
  BY DEF Fail, Stream!Refuse, Outcome, Stream!Outcome, Stream!NoReservation, NoCall, stream

LEMMA RefuseTimeServes ==
    ASSUME CallsInv, NEW g \in Procs, RefuseTime(g)
    PROVE  Stream!Serve(frame[g].call)
  <1>1. Stream!Refuse(frame[g].call, TimeRefused)
    BY FailRefuses DEF RefuseTime, Fail
  <1> QED BY <1>1 DEF RefuseTime, Stream!Serve, Stream!RefuseTime, Stream!TimeRefused, TimeRefused

LEMMA DrawFailsServes ==
    ASSUME CallsInv, NEW g \in Procs, DrawFails(g)
    PROVE  Stream!Serve(frame[g].call)
  <1>1. Stream!Refuse(frame[g].call, RandomFailed)
    BY FailRefuses DEF DrawFails, Fail
  <1>2. Admitted(frame[g].call)
    BY DEF DrawFails, CallsInv, Mine, Asked, Admitted
  <1> QED BY <1>1, <1>2, SameWord
          DEF Stream!Serve, Stream!DrawFails, Stream!RandomFailed, RandomFailed

(* What g decides from is what the stream holds.                           *)
LEMMA Decides ==
    ASSUME CallsInv, NEW g \in Procs, at[g] \in {"decide", "cas", "store"}
    PROVE  /\ frame[g].old[1] = hi /\ frame[g].old[2] = low
           /\ Admitted(frame[g].call) /\ frame[g].call \in Calls
           /\ frame[g].seed \in Seeds(StepsFor(frame[g].call.n))
  BY DEF CallsInv, Mine, Asked, Stable, stream, Admitted

LEMMA ExhaustServes ==
    ASSUME CallsInv, NEW g \in Procs, Exhaust(g)
    PROVE  Stream!Serve(frame[g].call)
  <1> DEFINE c == frame[g].call
             k == StepsFor(c.n)
  <1>1. Stream!Refuse(c, Exhausted)
    BY FailRefuses DEF Exhaust, Fail
  <1>2. /\ Admitted(c) /\ ~OutOfStream(hi, c.ts) /\ ~Advances(hi, c.ts)
        /\ ~Fits(low, k) /\ ~MaySplit(hi, c.ts)
    BY Decides DEF Exhaust, NewWords
  <1> QED BY <1>1, <1>2, SameWord
          DEF Stream!Serve, Stream!Exhaust, Stream!InStream, Stream!Exhausted, Exhausted

LEMMA LeaveStreamServes ==
    ASSUME CallsInv, NEW g \in Procs, LeaveStream(g)
    PROVE  Stream!Serve(frame[g].call)
  <1> DEFINE c == frame[g].call
             s == frame[g].seed
  <1>1. Admitted(c) /\ OutOfStream(hi, c.ts) /\ s \in Seeds(StepsFor(c.n))
    BY Decides DEF LeaveStream
  <1>2. last' = Stream!Outcome(c.op, c.ts, Stream!Ok, "outside", Stream!Reservation(c, c.ts, s))
    BY SameWord DEF LeaveStream, Outcome, Stream!Outcome, Ok, Stream!Ok
  <1>3. UNCHANGED <<hi, low, newest, log>>
    BY DEF LeaveStream, stream
  <1>4. Stream!MintOutside(c)
    BY <1>1, <1>2, <1>3, SameWord DEF Stream!MintOutside
  <1> QED BY <1>4 DEF Stream!Serve

(* The store reserves what was worked out from the word it finds.          *)
LEMMA CasStoreServes ==
    ASSUME CallsInv, NEW g \in Procs, CasStore(g)
    PROVE  Stream!Serve(frame[g].call)
  <1> DEFINE c == frame[g].call
             k == StepsFor(c.n)
             w == frame[g].plan
  <1>1. at[g] = "store" /\ frame[g].loaded = frame[g].old /\ w \in NewWords(g)
    BY DEF CasStore, CallsInv, Mine, Stable
  <1>2. /\ frame[g].old[1] = hi /\ frame[g].old[2] = low
        /\ Admitted(c) /\ frame[g].seed \in Seeds(k)
    BY <1>1, Decides
  <1>3. Stream!Reserve(c, w)
    BY <1>1, SameWord DEF CasStore, Stream!Reserve, Reserved, Outcome, Stream!Outcome, Ok,
                          Stream!Ok
  <1>4. /\ ~OutOfStream(hi, c.ts)
        /\ \/ Advances(hi, c.ts) /\ w = AdvanceTo(c.ts, k, frame[g].seed)
           \/ ~Advances(hi, c.ts) /\ Fits(low, k) /\ w = ExtendTo(hi, low, k)
           \/ /\ ~Advances(hi, c.ts) /\ ~Fits(low, k) /\ MaySplit(hi, c.ts)
              /\ w = SplitTo(hi, low, k)
    BY <1>1, <1>2 DEF NewWords
  <1>5. Stream!Advance(c) \/ Stream!Extend(c) \/ Stream!Split(c)
    BY <1>2, <1>3, <1>4, SameWord DEF Stream!Advance, Stream!Extend, Stream!Split,
                                      Stream!InStream
  <1> QED BY <1>5 DEF Stream!Serve

(* Every step is one call served by the stream, or does not show in it.    *)
LEMMA StepServes ==
    ASSUME CallsInv, [Next]_vars
    PROVE  (\E c \in Calls : Stream!Serve(c)) \/ UNCHANGED StreamVars
  <1>1. ASSUME NEW g \in Procs,
               RefuseTime(g) \/ DrawFails(g) \/ Exhaust(g) \/ LeaveStream(g) \/ CasStore(g)
        PROVE  \E c \in Calls : Stream!Serve(c)
    <2>1. frame[g].call \in Calls
      BY <1>1 DEF CallsInv, Mine, Asked, RefuseTime, DrawFails, Exhaust, LeaveStream, CasStore
    <2> QED BY <1>1, <2>1, RefuseTimeServes, DrawFailsServes, ExhaustServes, LeaveStreamServes,
               CasStoreServes
  <1>2. ASSUME NEW g \in Procs,
               \/ CallV7(g) \/ RefuseAtDoor(g) \/ CallV4(g) \/ CallStateless(g) \/ CallOneOff(g)
               \/ Lock(g) \/ Grow(g) \/ CannotGrow(g) \/ Draw(g) \/ Load(g) \/ Decide(g)
               \/ CasLoad(g) \/ Stamp(g) \/ CopyOut(g) \/ Unlock(g) \/ Return(g)
        PROVE  UNCHANGED StreamVars
    BY <1>2 DEF StreamVars, stream, history, CallV7, RefuseAtDoor, CallV4, CallStateless,
                CallOneOff,
       Begin, Lock, Grow, CannotGrow, Draw, Load, Decide, CasLoad, Stamp, CopyOut, Unlock, Return
  <1>3. ASSUME NEW g \in Procs, StepStateless(g) PROVE UNCHANGED StreamVars
    BY <1>3 DEF StreamVars, stream, history, StepStateless, AcquirePrimary, AcquireWaiting,
       AcquirePooled, AcquireNew, Acquires, WriteArg, Run, RunFails, Take, Release
  <1>4. Collect => UNCHANGED StreamVars
    BY DEF Collect, StreamVars, stream, history
  <1>5. UNCHANGED vars => UNCHANGED StreamVars
    BY DEF vars, StreamVars
  <1> QED BY <1>1, <1>2, <1>3, <1>4, <1>5 DEF Next, StepV7

(* The calls, one memory access at a time, implement the stream of calls   *)
(* that are one step each.                                                 *)
THEOREM StreamImplemented == Spec => ImplementsStream
  <1>1. Init => Stream!Init
    BY DEF Init, Stream!Init, Stream!Outcome, Stream!NoReservation, NoCall, Stream!Ok, Ok
  <1>2. CallsInv /\ [Next]_vars => [Stream!Next]_(Stream!vars)
    BY StepServes, SameWord DEF Stream!Next, Stream!vars, StreamVars
  <1> QED BY <1>1, <1>2, CallsInvariant, PTL DEF Spec, ImplementsStream, Stream!Spec

-----------------------------------------------------------------------------
(* What is proved of the stream holds of the calls. *)

SP == INSTANCE V7StreamProofs
      WITH hi <- hi, low <- low, newest <- newest, log <- log, last <- last

LEMMA SameAssumptions == SP!SizesAssumption /\ SP!TimesAssumption /\ SP!CallersAssumption
  BY SizesAssumption, TimesAssumption, CallersAssumption
  DEF SP!SizesAssumption, SP!TimesAssumption, SP!CallersAssumption

(* The stream the proofs are about is the one the calls implement.         *)
LEMMA SameServe == \A c : Stream!Serve(c) <=> SP!Serve(c)
  <1> TAKE c
  <1>1. \A rc : Stream!Refuse(c, rc) <=> SP!Refuse(c, rc)
    BY DEF Stream!Refuse, SP!Refuse, Stream!Outcome, SP!Outcome,
           Stream!NoReservation, SP!NoReservation
  <1>2. \A w : Stream!Reserve(c, w) <=> SP!Reserve(c, w)
    BY DEF Stream!Reserve, SP!Reserve, Stream!Outcome, SP!Outcome, Stream!Ok, SP!Ok,
           Stream!Reservation, SP!Reservation
  <1>3. /\ Stream!Admitted(c) <=> SP!Admitted(c)
        /\ Stream!InStream(c) <=> SP!InStream(c)
        /\ Stream!OutOfStream(hi, c.ts) <=> SP!OutOfStream(hi, c.ts)
        /\ Stream!Advances(hi, c.ts) <=> SP!Advances(hi, c.ts)
        /\ Stream!MaySplit(hi, c.ts) <=> SP!MaySplit(hi, c.ts)
        /\ \A l, k : Stream!Fits(l, k) <=> SP!Fits(l, k)
    BY DEF Stream!Admitted, SP!Admitted, Stream!InStream, SP!InStream,
           Stream!OutOfStream, SP!OutOfStream, Stream!FarBehind, SP!FarBehind,
           Stream!Advances, SP!Advances, Stream!MaySplit, SP!MaySplit, Stream!Fits, SP!Fits
  <1>4. /\ Stream!StepsFor(c.n) = SP!StepsFor(c.n)
        /\ \A k : Stream!Seeds(k) = SP!Seeds(k)
        /\ \A k, s : Stream!AdvanceTo(c.ts, k, s) = SP!AdvanceTo(c.ts, k, s)
        /\ \A k : /\ Stream!ExtendTo(hi, low, k) = SP!ExtendTo(hi, low, k)
                  /\ Stream!SplitTo(hi, low, k) = SP!SplitTo(hi, low, k)
        /\ \A ms, s : Stream!Reservation(c, ms, s) = SP!Reservation(c, ms, s)
        /\ \A s : Stream!Outcome(c.op, c.ts, Stream!Ok, "outside", s)
                    = SP!Outcome(c.op, c.ts, SP!Ok, "outside", s)
    BY DEF Stream!StepsFor, SP!StepsFor, Stream!Seeds, SP!Seeds, Stream!AdvanceTo,
           SP!AdvanceTo,
           Stream!ExtendTo, SP!ExtendTo, Stream!SplitTo, SP!SplitTo, Stream!Reservation,
           SP!Reservation, Stream!Outcome, SP!Outcome, Stream!Ok, SP!Ok
  <1>5. /\ Stream!RefuseTime(c) <=> SP!RefuseTime(c)
        /\ Stream!EmptyBatch(c) <=> SP!EmptyBatch(c)
        /\ Stream!RefuseCount(c) <=> SP!RefuseCount(c)
        /\ Stream!DrawFails(c) <=> SP!DrawFails(c)
        /\ Stream!Exhaust(c) <=> SP!Exhaust(c)
    BY <1>1, <1>3, <1>4
    DEF Stream!RefuseTime, SP!RefuseTime, Stream!EmptyBatch, SP!EmptyBatch, Stream!RefuseCount,
        SP!RefuseCount, Stream!DrawFails, SP!DrawFails, Stream!Exhaust, SP!Exhaust, Stream!Ok,
        SP!Ok, Stream!TimeRefused, SP!TimeRefused, Stream!CountRefused, SP!CountRefused,
        Stream!RandomFailed, SP!RandomFailed, Stream!Exhausted, SP!Exhausted
  <1>6. /\ Stream!MintOutside(c) <=> SP!MintOutside(c)
        /\ Stream!Advance(c) <=> SP!Advance(c)
        /\ Stream!Extend(c) <=> SP!Extend(c)
        /\ Stream!Split(c) <=> SP!Split(c)
    BY <1>2, <1>3, <1>4
    DEF Stream!MintOutside, SP!MintOutside, Stream!Advance, SP!Advance, Stream!Extend, SP!Extend,
        Stream!Split, SP!Split
  <1> QED BY <1>5, <1>6 DEF Stream!Serve, SP!Serve

LEMMA SameSpec == ImplementsStream => SP!Spec
  <1>1. Stream!Init => SP!Init
    BY DEF Stream!Init, SP!Init, Stream!Outcome, SP!Outcome, Stream!NoReservation,
           SP!NoReservation, Stream!Ok, SP!Ok
  <1>2. Stream!Calls = SP!Calls
    BY DEF Stream!Calls, SP!Calls, Stream!SingleCalls, SP!SingleCalls, Stream!BatchCalls,
           SP!BatchCalls
  <1>3. [Stream!Next]_(Stream!vars) => [SP!Next]_(SP!vars)
    BY <1>2, SameServe DEF Stream!Next, SP!Next, Stream!vars, SP!vars
  <1> QED BY <1>1, <1>3, PTL DEF ImplementsStream, Stream!Spec, SP!Spec

LEMMA StreamInvHolds == Spec => []SP!StreamInv
  BY StreamImplemented, SameSpec, SP!StreamInvariant, SameAssumptions, PTL

(* The type invariant, the word's two fields included.                     *)
THEOREM CallsTyped == Spec => []TypeOK
  <1>1. CallsInv /\ SP!StreamInv => TypeOK
    BY DEF CallsInv, Shape, SP!StreamInv, SP!TypeOK, TypeOK
  <1> QED BY <1>1, CallsInvariant, StreamInvHolds, PTL

-----------------------------------------------------------------------------
(* Order across calls. *)

Minted == {"stamp", "copy", "unlock", "return", "idle"}

(* What g minted in the stream was reserved after g's call began.          *)
Located(g) ==
    LET f == frame[g]
    IN  /\ f.since \in 0 .. Len(log)
        /\ at[g] \in Minted /\ f.call \in Calls /\ f.rc = Ok =>
              \/ f.call.ts > StreamLast
              \/ f.call.ts + (ClampWindow - DriftWindow) < newest
              \/ \E j \in f.since + 1 .. Len(log) : log[j] = Reserved(g)

OrderInv == \A g \in Procs : Located(g)

(* A step that mints nothing for h.                                        *)
Passes(h) ==
    /\ frame'[h].since = frame[h].since
    /\ at'[h] \in Minted /\ frame'[h].call \in Calls /\ frame'[h].rc = Ok =>
          /\ at[h] \in Minted /\ frame[h].rc = Ok
          /\ frame'[h].call = frame[h].call /\ frame'[h].plan = frame[h].plan

(* The history only grows.                                                 *)
Grows ==
    /\ Len(log) \in Nat /\ Len(log') \in Nat /\ Len(log) <= Len(log')
    /\ \A i \in 1 .. Len(log) : log'[i] = log[i]
    /\ newest \in Nat /\ newest' \in Nat /\ newest <= newest'

LEMMA StillGrows == ASSUME SP!StreamInv, UNCHANGED <<log, newest>> PROVE Grows
  <1>1. log \in Seq(SP!Reservations) /\ newest \in 0 .. StreamLast
    BY DEF SP!StreamInv, SP!TypeOK
  <1>2. newest \in Nat
    BY <1>1, TimesAssumption
  <1> QED BY <1>1, <1>2 DEF Grows

LEMMA PassesKeeps ==
    ASSUME NEW h \in Procs, Located(h), Passes(h), Grows
    PROVE  Located(h)'
  <1>1. frame'[h].since \in 0 .. Len(log')
    BY DEF Located, Passes, Grows
  <1>2. ASSUME at'[h] \in Minted, frame'[h].call \in Calls, frame'[h].rc = Ok,
               ~(frame'[h].call.ts > StreamLast),
               ~(frame'[h].call.ts + (ClampWindow - DriftWindow) < newest')
        PROVE  \E j \in frame'[h].since + 1 .. Len(log') : log'[j] = Reserved(h)'
    <2>1. frame[h].call.ts \in Nat /\ ClampWindow \in Nat /\ DriftWindow \in Nat
      BY <1>2, CallNats, TimesAssumption DEF Passes
    <2>2. PICK j \in frame[h].since + 1 .. Len(log) : log[j] = Reserved(h)
      BY <1>2, <2>1 DEF Located, Passes, Grows
    <2>3. j \in frame'[h].since + 1 .. Len(log') /\ log'[j] = log[j]
      BY <2>2 DEF Located, Passes, Grows
    <2>4. Reserved(h)' = Reserved(h)
      BY <1>2 DEF Reserved, Passes
    <2> QED BY <2>2, <2>3, <2>4
  <1> QED BY <1>1, <1>2 DEF Located

LEMMA FailPasses ==
    ASSUME CallsInv, NEW g \in Procs, NEW from, NEW code, Fail(g, from, code), code # Ok
    PROVE  (\A h \in Procs : Passes(h)) /\ UNCHANGED <<log, newest>>
  BY DEF CallsInv, Shape, Fields, Fail, Passes

LEMMA V7Passes ==
    ASSUME CallsInv, NEW g \in Procs,
           \/ Lock(g) \/ Grow(g) \/ CannotGrow(g) \/ Draw(g) \/ Load(g) \/ Decide(g)
           \/ CasLoad(g) \/ Stamp(g) \/ CopyOut(g) \/ Unlock(g) \/ Return(g)
    PROVE  (\A h \in Procs : Passes(h)) /\ UNCHANGED <<log, newest>>
  <1>1. Shape
    BY DEF CallsInv
  <1>2. Lock(g) \/ Grow(g) \/ CannotGrow(g) =>
            (\A h \in Procs : Passes(h)) /\ UNCHANGED <<log, newest>>
    BY <1>1 DEF Shape, Fields, history, Passes, Minted, Lock, Grow, CannotGrow, Ok,
                Unaddressable
  <1>3. Draw(g) \/ Load(g) \/ Decide(g) \/ CasLoad(g) =>
            (\A h \in Procs : Passes(h)) /\ UNCHANGED <<log, newest>>
    BY <1>1 DEF Shape, Fields, history, Passes, Minted, Draw, Load, Decide, CasLoad
  <1>4. Stamp(g) \/ Unlock(g) => (\A h \in Procs : Passes(h)) /\ UNCHANGED <<log, newest>>
    BY <1>1 DEF Shape, Fields, history, Passes, Minted, Stamp, Unlock
  <1>5. CopyOut(g) => (\A h \in Procs : Passes(h)) /\ UNCHANGED <<log, newest>>
    BY <1>1 DEF Shape, Fields, history, Passes, Minted, CopyOut
  <1>6. Return(g) => (\A h \in Procs : Passes(h)) /\ UNCHANGED <<log, newest>>
    <2> SUFFICES ASSUME Return(g) PROVE \A h \in Procs : Passes(h)
      BY DEF Return, history
    <2>1. /\ frame'[g].since = frame[g].since /\ frame'[g].rc = frame[g].rc
          /\ frame'[g].call = frame[g].call /\ frame'[g].plan = frame[g].plan
      BY <1>1 DEF Shape, Fields, Return
    <2>2. \A h \in Procs \ {g} : frame'[h] = frame[h] /\ at'[h] = at[h]
      BY <1>1 DEF Shape, Return
    <2> QED BY <2>1, <2>2 DEF Passes, Minted, Return
  <1> QED BY <1>2, <1>3, <1>4, <1>5, <1>6

LEMMA StatelessPasses ==
    ASSUME CallsInv, NEW g \in Procs, StepStateless(g)
    PROVE  (\A h \in Procs : Passes(h)) /\ UNCHANGED <<log, newest>>
  <1>1. Shape /\ Asked(g)
    BY DEF CallsInv, Mine
  <1>2. ASSUME NEW i, Acquires(g, i)
        PROVE  (\A h \in Procs : Passes(h)) /\ UNCHANGED <<log, newest>>
    BY <1>1, <1>2 DEF Shape, Fields, history, Passes, Minted, Acquires
  <1>3. WriteArg(g) \/ Run(g) \/ RunFails(g) \/ Take(g) =>
            (\A h \in Procs : Passes(h)) /\ UNCHANGED <<log, newest>>
    BY <1>1 DEF Shape, Fields, history, Passes, Minted, WriteArg, Run, RunFails, Take
  <1>4. Release(g) => (\A h \in Procs : Passes(h)) /\ UNCHANGED <<log, newest>>
    <2>1. at[g] = "release" => frame[g].call \notin Calls
      BY <1>1, CallOps DEF Asked
    <2> QED BY <1>1, <2>1 DEF Shape, Fields, history, Passes, Minted, Release
  <1> QED BY <1>2, <1>3, <1>4 DEF StepStateless, AcquirePrimary, AcquireWaiting, AcquirePooled,
                                  AcquireNew

(* A call begins with the history as long as it is then.                   *)
LEMMA BeginLocates ==
    ASSUME CallsInv, OrderInv, SP!StreamInv, NEW g \in Procs, NEW kind, NEW c, NEW to,
           Begin(g, kind, c, to), to \in Minted => c \notin Calls
    PROVE  OrderInv'
  <1>1. Grows
    BY StillGrows DEF Begin, history
  <1> DEFINE n == IF kind = "v7" THEN Len(log) ELSE 0
  <1>2. frame' = [frame EXCEPT ![g] = [NewFrame(c) EXCEPT !.since = n]] /\ n \in 0 .. Len(log)
    BY <1>1 DEF Begin, Grows
  <1>3. /\ frame'[g].since = n /\ frame'[g].call = c /\ at'[g] = to
        /\ \A h \in Procs \ {g} : frame'[h] = frame[h] /\ at'[h] = at[h]
    BY <1>2 DEF CallsInv, Shape, NewFrame, Begin
  <1>4. Located(g)'
    BY <1>1, <1>3 DEF Located, Grows
  <1>5. \A h \in Procs \ {g} : Located(h)'
    BY <1>1, <1>3, PassesKeeps DEF OrderInv, Passes
  <1> QED BY <1>4, <1>5 DEF OrderInv

(* Only what is far behind the stream, or past what it can hold, leaves it. *)
LEMMA LeaveStreamLocates ==
    ASSUME CallsInv, OrderInv, SP!StreamInv, NEW g \in Procs, LeaveStream(g)
    PROVE  OrderInv'
  <1> DEFINE ts == frame[g].call.ts
  <1>1. Grows /\ UNCHANGED <<log, newest>>
    BY StillGrows DEF LeaveStream
  <1>2. OutOfStream(hi, ts) /\ frame[g].call \in Calls
    BY Decides DEF LeaveStream
  <1>3. /\ ts \in Nat /\ ClampWindow \in Nat /\ DriftWindow \in Nat /\ newest \in Nat
        /\ hi \in Nat /\ (hi > 0 => hi - 1 <= newest + DriftWindow)
    <2>1. hi \in 0 .. StreamLast + 1 /\ (hi > 0 => hi - 1 <= newest + DriftWindow)
      BY DEF SP!StreamInv, SP!TypeOK, SP!StreamNearNewest, SP!StreamMs
    <2>2. hi \in Nat
      BY <2>1, TimesAssumption
    <2> QED BY <1>1, <1>2, <2>1, <2>2, CallNats, TimesAssumption DEF Grows
  <1>4. ts > StreamLast \/ ts + (ClampWindow - DriftWindow) < newest
    BY <1>2, <1>3 DEF OutOfStream, FarBehind, Advances
  <1>5. /\ frame'[g].since = frame[g].since /\ frame'[g].call = frame[g].call
        /\ \A h \in Procs \ {g} : frame'[h] = frame[h] /\ at'[h] = at[h]
    BY DEF CallsInv, Shape, Fields, LeaveStream
  <1>6. Located(g)'
    BY <1>1, <1>4, <1>5 DEF OrderInv, Located
  <1>7. \A h \in Procs \ {g} : Located(h)'
    BY <1>1, <1>5, PassesKeeps DEF OrderInv, Passes
  <1> QED BY <1>6, <1>7 DEF OrderInv

(* The store appends the reservation, so it comes after all there was.     *)
LEMMA CasStoreLocates ==
    ASSUME CallsInv, OrderInv, SP!StreamInv, SP!StreamInv', NEW g \in Procs, CasStore(g)
    PROVE  OrderInv'
  <1>1. /\ frame[g].loaded = frame[g].old /\ frame[g].call \in Calls
        /\ log' = Append(log, Reserved(g)) /\ UNCHANGED frame
        /\ newest' = IF frame[g].call.ts > newest THEN frame[g].call.ts ELSE newest
        /\ at' = [at EXCEPT ![g] = "stamp"]
    BY DEF CallsInv, Mine, Stable, Asked, CasStore
  <1>2. /\ log \in Seq(SP!Reservations) /\ log' \in Seq(SP!Reservations)
        /\ newest \in 0 .. StreamLast /\ newest' \in 0 .. StreamLast
    BY DEF SP!StreamInv, SP!TypeOK
  <1>3. frame[g].call.ts \in Nat /\ newest \in Nat /\ newest' \in Nat
    BY <1>1, <1>2, CallNats, TimesAssumption
  <1>4. /\ Len(log) \in Nat /\ Len(log') = Len(log) + 1 /\ log'[Len(log) + 1] = Reserved(g)
        /\ \A i \in 1 .. Len(log) : log'[i] = log[i]
    <2>1. log \in Seq(SP!Reservations \cup {Reserved(g)})
      BY <1>2
    <2> QED BY <1>1, <2>1
  <1>5. Grows
    BY <1>1, <1>3, <1>4 DEF Grows
  <1>6. Located(g)'
    <2>1. Reserved(g)' = Reserved(g)
      BY <1>1 DEF Reserved
    <2>2. frame'[g].since \in 0 .. Len(log)
      BY <1>1 DEF OrderInv, Located
    <2> QED BY <1>4, <2>1, <2>2 DEF Located
  <1>7. \A h \in Procs \ {g} : Located(h)'
    BY <1>1, <1>5, PassesKeeps DEF OrderInv, Passes, CallsInv, Shape
  <1> QED BY <1>6, <1>7 DEF OrderInv

LEMMA OrderKept ==
    ASSUME CallsInv, OrderInv, SP!StreamInv, SP!StreamInv', [Next]_vars
    PROVE  OrderInv'
  <1>1. ASSUME \A h \in Procs : Passes(h), UNCHANGED <<log, newest>> PROVE OrderInv'
    BY <1>1, StillGrows, PassesKeeps DEF OrderInv
  <1>2. CASE Collect \/ UNCHANGED vars
    <2>1. UNCHANGED <<at, frame, log, newest>>
      BY <1>2 DEF Collect, vars, history
    <2>2. \A h \in Procs : Passes(h)
      BY <2>1 DEF Passes
    <2> QED BY <1>1, <2>1, <2>2
  <1>3. ASSUME NEW g \in Procs, RefuseTime(g) \/ DrawFails(g) \/ Exhaust(g) PROVE OrderInv'
    BY <1>1, <1>3, FailPasses
    DEF RefuseTime, DrawFails, Exhaust, Ok, TimeRefused, RandomFailed, Exhausted
  <1>4. ASSUME NEW g \in Procs, Lock(g) \/ StepV7(g) PROVE OrderInv'
    BY <1>1, <1>3, <1>4, V7Passes, LeaveStreamLocates, CasStoreLocates DEF StepV7
  <1>5. ASSUME NEW g \in Procs, StepStateless(g) PROVE OrderInv'
    BY <1>1, <1>5, StatelessPasses
  <1>6. ASSUME NEW g \in Procs,
               CallV7(g) \/ RefuseAtDoor(g) \/ CallV4(g) \/ CallStateless(g) \/ CallOneOff(g)
        PROVE  OrderInv'
    BY <1>6, BeginLocates, CallOps
    DEF CallV7, RefuseAtDoor, CallV4, CallStateless, CallOneOff, Minted
  <1> QED BY <1>2, <1>4, <1>5, <1>6 DEF Next

(* A call that has begun after another returned is given UUIDs that sort   *)
(* after the other's, on whatever goroutine, within the ten seconds.       *)
THEOREM CallsOrdered == Spec => []RealTimeOrder
  <1>1. Init => OrderInv
    BY DEF Init, OrderInv, Located, Minted, NewFrame, NoCall, Calls, SingleCalls, BatchCalls
  <1>2. CallsInv /\ OrderInv /\ SP!StreamInv => RealTimeOrder
    <2> SUFFICES ASSUME CallsInv, OrderInv, SP!StreamInv, NEW g \in Procs,
                        at[g] = "idle", frame[g].call \in Calls, frame[g].rc = Ok,
                        frame[g].call.ts <= StreamLast,
                        frame[g].call.ts + (ClampWindow - DriftWindow) >= newest,
                        NEW i \in 1 .. frame[g].since
                 PROVE  Before(LastStep(log[i]), FirstStep(frame[g].result))
      BY DEF RealTimeOrder
    <2>1. frame[g].result = Reserved(g)
      BY CallOps DEF CallsInv, Mine, Own
    <2>2. /\ log \in Seq(SP!Reservations) /\ newest \in Nat /\ frame[g].call.ts \in Nat
          /\ ClampWindow \in Nat /\ DriftWindow \in Nat /\ StreamLast \in Nat
      BY CallNats, TimesAssumption DEF SP!StreamInv, SP!TypeOK
    <2>3. PICK j \in frame[g].since + 1 .. Len(log) : log[j] = Reserved(g)
      BY <2>2 DEF OrderInv, Located, Minted
    <2>4. Len(log) \in Nat /\ frame[g].since \in 0 .. Len(log)
      BY <2>2 DEF OrderInv, Located
    <2>5. j \in 1 .. Len(log) /\ i \in 1 .. j - 1
      BY <2>3, <2>4
    <2>6. SP!Before(SP!LastStep(log[i]), SP!FirstStep(log[j]))
      BY <2>5 DEF SP!StreamInv, SP!LogOrdered
    <2>7. Before(LastStep(log[i]), FirstStep(log[j]))
      BY <2>6 DEF Before, SP!Before, LastStep, SP!LastStep, FirstStep, SP!FirstStep, Place,
                  SP!Place, StepsFor, SP!StepsFor
    <2> QED BY <2>1, <2>3, <2>7
  <1> QED BY <1>1, <1>2, OrderKept, CallsInvariant, StreamInvHolds, PTL DEF Spec

(* RealTimeOrder of the UUIDs themselves, not only of their steps: what a  *)
(* call returned sorts after every UUID reserved before the call began.    *)
UuidsInRealTime ==
    \A g \in Procs :
        LET f == frame[g]
        IN  ( /\ at[g] = "idle" /\ f.call \in Calls /\ f.rc = Ok
              /\ f.call.ts <= StreamLast
              /\ f.call.ts + (ClampWindow - DriftWindow) >= newest )
            => \A i \in 1 .. f.since : \A a \in 0 .. log[i].n - 1, b \in 0 .. f.result.n - 1 :
                  Before(Id(log[i], a), Id(f.result, b))

(* The UUIDs of concurrent goroutines are in the order of their calls.     *)
THEOREM UuidsOrdered == Spec => []UuidsInRealTime
  <1>1. Init => OrderInv
    BY DEF Init, OrderInv, Located, Minted, NewFrame, NoCall, Calls, SingleCalls, BatchCalls
  <1>2. CallsInv /\ OrderInv /\ SP!StreamInv /\ SP!StrictlyIncreasing => UuidsInRealTime
    <2> SUFFICES ASSUME CallsInv, OrderInv, SP!StreamInv, SP!StrictlyIncreasing, NEW g \in Procs,
                        at[g] = "idle", frame[g].call \in Calls, frame[g].rc = Ok,
                        frame[g].call.ts <= StreamLast,
                        frame[g].call.ts + (ClampWindow - DriftWindow) >= newest,
                        NEW i \in 1 .. frame[g].since,
                        NEW a \in 0 .. log[i].n - 1, NEW b \in 0 .. frame[g].result.n - 1
                 PROVE  Before(Id(log[i], a), Id(frame[g].result, b))
      BY DEF UuidsInRealTime
    <2>1. frame[g].result = Reserved(g)
      BY CallOps DEF CallsInv, Mine, Own
    <2>2. /\ log \in Seq(SP!Reservations) /\ newest \in Nat /\ frame[g].call.ts \in Nat
          /\ ClampWindow \in Nat /\ DriftWindow \in Nat /\ StreamLast \in Nat
      BY CallNats, TimesAssumption DEF SP!StreamInv, SP!TypeOK
    <2>3. PICK j \in frame[g].since + 1 .. Len(log) : log[j] = Reserved(g)
      BY <2>2 DEF OrderInv, Located, Minted
    <2>4. Len(log) \in Nat /\ frame[g].since \in 0 .. Len(log)
      BY <2>2 DEF OrderInv, Located
    <2>5. j \in 1 .. Len(log) /\ i \in 1 .. j - 1
      BY <2>3, <2>4
    <2>6. SP!Before(SP!Id(log[i], a), SP!Id(log[j], b))
      <3>1. b \in 0 .. log[j].n - 1
        BY <2>1, <2>3
      <3>2. \A x \in 0 .. log[i].n - 1, y \in 0 .. log[j].n - 1 :
               SP!Before(SP!Id(log[i], x), SP!Id(log[j], y))
        BY <2>5, Zenon DEF SP!StrictlyIncreasing
      <3> QED BY <3>1, <3>2, Zenon
    <2>7. Before(Id(log[i], a), Id(log[j], b))
      BY <2>6 DEF Before, SP!Before, Id, SP!Id, Place, SP!Place
    <2> QED BY <2>1, <2>3, <2>7
  <1>3. Spec => []SP!StrictlyIncreasing
    BY StreamImplemented, SameSpec, SP!StreamOrdered, SameAssumptions, PTL
  <1> QED BY <1>1, <1>2, <1>3, OrderKept, CallsInvariant, StreamInvHolds, PTL DEF Spec
=============================================================================
