-------------------------------- MODULE Mint ---------------------------------
(***************************************************************************)
(* How a single UUID is put together in the core (internal/core/core.go,   *)
(* Xuuid_new_v4 and the end of Xuuid_new_v7): bytes drawn into a frame on  *)
(* the guest's stack, moved and masked there, and stored to the caller in  *)
(* overlapping pieces.  Both functions use the same 32 bytes of stack, and *)
(* neither clears more than the sixteen it draws into.                     *)
(*                                                                         *)
(* An octet is eight bits, bit 0 the least significant, and a bit says     *)
(* where it came from.                                                     *)
(***************************************************************************)
EXTENDS Integers, Sequences

CONSTANT MaxCalls    \* calls followed in one behaviour

OctetBits == 0 .. 7
Bit(of, c, i) == <<of, c, i>>
Zero == Bit("zero", 0, 0)
One  == Bit("one", 0, 0)
Octet(of, c, q) == [b \in OctetBits |-> Bit(of, c, (8 * q) + b)]
Blank == [b \in OctetBits |-> Zero]

VARIABLES
    at,      \* "idle", "draw" or "stamp"
    kind,    \* "v4", or how a v7 got its step: "fresh", "next" or "split"
    frame,   \* the stack frame
    out,     \* the sixteen octets at the caller's pointer
    code,    \* the last call's return code
    calls    \* calls begun; it marks what each of them drew

mintVars == <<at, kind, frame, out, code, calls>>

Moved(to, f, n) == [q \in 0 .. 31 |-> IF q \in to .. to + n - 1 THEN frame[f + q - to] ELSE frame[q]]

(* An octet whose low bits are kept and whose top ones are replaced, the   *)
(* most significant first.                                                 *)
Marked(o, keep, top) == [b \in OctetBits |-> IF b < keep THEN o[b] ELSE top[8 - b]]

MintInit ==
    /\ at = "idle" /\ kind = "v4" /\ code = 0 /\ calls = 0
    /\ frame = [q \in 0 .. 31 |-> Octet("stack", 0, q)]
    /\ out = [q \in 0 .. 15 |-> Octet("caller", 0, q)]

(* The sixteen bytes are cleared.                                          *)
Begin ==
    /\ at = "idle" /\ at' = "draw"
    /\ calls < MaxCalls /\ calls' = calls + 1
    /\ kind' \in {"v4", "fresh", "next", "split"}
    /\ frame' = [q \in 0 .. 31 |-> IF q >= 16 THEN Blank ELSE frame[q]]
    /\ out' = [q \in 0 .. 15 |-> Octet("caller", calls', q)]
    /\ code' = 0

(* Version 4 draws all sixteen, version 7 the last eleven.                 *)
DrawFrom == IF kind = "v4" THEN 16 ELSE 21

Draw ==
    /\ at = "draw" /\ at' = "stamp"
    /\ frame' = [q \in 0 .. 31 |-> IF q >= DrawFrom THEN Octet("drawn", calls, q) ELSE frame[q]]
    /\ UNCHANGED <<kind, out, code, calls>>

(* The source may have written a part.                                     *)
DrawFails ==
    /\ at = "draw" /\ at' = "idle" /\ code' = 1
    /\ \E part \in {DrawFrom, 26} :
          frame' = [q \in 0 .. 31 |->
                      IF q \in DrawFrom .. part - 1 THEN Octet("drawn", calls, q) ELSE frame[q]]
    /\ UNCHANGED <<kind, out, calls>>

(* The random tail is moved below the draw and stored from there, twelve   *)
(* and fifteen by two stores that meet in one octet.                       *)
StampV4 ==
    LET tail == [Moved(4, 25, 7) EXCEPT ![14] = frame[18], ![12] = frame[16], ![13] = frame[17]]
    IN  /\ at = "stamp" /\ kind = "v4" /\ at' = "idle"
        /\ frame' = tail
        /\ out' = [q \in 0 .. 15 |->
                      CASE q = 6 -> Marked(frame[22], 4, <<Zero, One, Zero, Zero>>)
                        [] q = 8 -> Marked(frame[24], 6, <<One, Zero>>)
                        [] q \in 9 .. 12  -> tail[q - 5]
                        [] q \in 13 .. 15 -> tail[q - 5]
                        [] OTHER -> frame[16 + q]]
        /\ UNCHANGED <<kind, code, calls>>

(* Mutant: the seed ends in the octet whose low bits end the counter. *)
SeedBitLow(i) == LET k == i + 13 IN frame[22 + (k \div 8)][k % 8]
(* Bit i of a fresh step: nineteen bits from the octets the version, the   *)
(* counter and the variant will overwrite.                                 *)
SeedBit(i) == LET k == i + 5 IN frame[22 + (k \div 8)][k % 8]

(* Bit i of the step: fresh, the stream's next one, or the first of the    *)
(* millisecond a split goes on into, which leaves the word as 2^20.        *)
StepBit(i) ==
    CASE kind = "fresh" -> IF i < 19 THEN SeedBit(i) ELSE Zero
      [] kind = "next"  -> Bit("step", calls, i)
      [] kind = "split" -> Zero

(* The counter: the step and six random bits.                              *)
CounterBit(i) == IF i < 6 THEN frame[25][i] ELSE StepBit(i - 6)
CounterOctet(lowest) == [b \in OctetBits |-> CounterBit(lowest + b)]

(* The stream's millisecond, or the one after it; its octet j counted from *)
(* the least significant.                                                  *)
MsOctet(j) == Octet(IF kind = "split" THEN "ms + 1" ELSE "ms", calls, j)

StampV7 ==
    LET stamped ==
            [frame EXCEPT
                ![16] = MsOctet(5), ![17] = MsOctet(4), ![18] = MsOctet(3),
                ![19] = MsOctet(2), ![20] = MsOctet(1), ![21] = MsOctet(0),
                ![22] = Marked([b \in OctetBits |-> IF b < 4 THEN CounterBit(22 + b) ELSE Zero],
                               4, <<Zero, One, One, One>>),
                ![23] = CounterOctet(14),
                ![24] = Marked([b \in OctetBits |-> IF b < 6 THEN CounterBit(8 + b) ELSE Zero],
                               6, <<One, Zero>>),
                ![25] = CounterOctet(0)]
        tail == [stamped EXCEPT ![14] = MsOctet(3), ![12] = stamped[16], ![13] = stamped[17]]
    IN  /\ at = "stamp" /\ kind # "v4" /\ at' = "idle"
        /\ frame' = tail
        /\ out' = [q \in 0 .. 15 |-> IF q = 2 THEN tail[14] ELSE tail[16 + q]]
        /\ UNCHANGED <<kind, code, calls>>

(* The stream has no step for the call.                                    *)
Exhaust ==
    /\ at = "stamp" /\ kind # "v4" /\ at' = "idle" /\ code' = 6
    /\ UNCHANGED <<kind, frame, out, calls>>

MintNext == Begin \/ Draw \/ DrawFails \/ StampV4 \/ StampV7 \/ Exhaust

MintSpec == MintInit /\ [][MintNext]_mintVars

-----------------------------------------------------------------------------
(***************************************************************************)
(* Properties.                                                             *)
(***************************************************************************)

Drawn(i) == Bit("drawn", calls, i)

(* Bit b of octet q of a version 4: all of this call's draw but six bits   *)
(* (RFC 9562, 5.4).                                                        *)
V4Bit(q, b) ==
    CASE q = 6 /\ b \in 4 .. 7 -> IF b = 6 THEN One ELSE Zero
      [] q = 8 /\ b \in 6 .. 7 -> IF b = 7 THEN One ELSE Zero
      [] OTHER -> Drawn((8 * (16 + q)) + b)

(* The counter's 26 bits around version and variant, most significant      *)
(* first.                                                                  *)
CounterPlace(q, b) ==
    CASE q = 6 -> 22 + b [] q = 7 -> 14 + b [] q = 8 -> 8 + b [] q = 9 -> b

(* Bit b of octet q of a version 7, outside the counter.                   *)
V7Fixed(q, b) ==
    CASE q < 6 -> Bit(IF kind = "split" THEN "ms + 1" ELSE "ms", calls, (8 * (5 - q)) + b)
      [] q = 6 -> IF b = 7 THEN Zero ELSE One
      [] q = 8 -> IF b = 7 THEN One ELSE Zero
      [] OTHER -> Drawn((8 * (16 + q)) + b)

(* A call that succeeds gives the version's layout with nothing an earlier *)
(* call left on the stack; one that fails leaves the caller's octets.      *)
(* (README: 26-bit counter split around version and variant, 48 random     *)
(* bits behind it.)                                                        *)
LaidOut ==
    at = "idle" /\ calls > 0 =>
        \A q \in 0 .. 15, b \in OctetBits :
            LET counter == \/ q \in {7, 9}
                           \/ q = 6 /\ b < 4
                           \/ q = 8 /\ b < 6
            IN  out[q][b] =
                    IF code # 0 THEN Bit("caller", calls, (8 * q) + b)
                    ELSE IF kind = "v4" THEN V4Bit(q, b)
                    ELSE IF ~counter THEN V7Fixed(q, b)
                    ELSE LET i == CounterPlace(q, b)
                         IN  IF i < 6 THEN Drawn((8 * 25) + i)
                             ELSE CASE kind = "fresh" ->
                                           IF i < 25 THEN Drawn((8 * 22) + 5 + (i - 6)) ELSE Zero
                                    [] kind = "next"  -> Bit("step", calls, i - 6)
                                    [] kind = "split" -> Zero
=============================================================================
