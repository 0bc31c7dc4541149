----------------------------- MODULE MCLayouts ------------------------------
(***************************************************************************)
(* Layouts on values that differ from a few base values in one bit each,   *)
(* version and variant bits included: every bit is seen to go where it     *)
(* goes, every check to see every bit it looks at, and every pair of       *)
(* single-bit values to sort the right way round.                          *)
(***************************************************************************)
EXTENDS Layouts

(* 253402300799999 = 16^^E677D21FDBFF.                                     *)
MCCap ==
    LET bits == << 1,1,1,0, 0,1,1,0, 0,1,1,1, 0,1,1,1, 1,1,0,1, 0,0,1,0,
                   0,0,0,1, 1,1,1,1, 1,1,0,1, 1,0,1,1, 1,1,1,1, 1,1,1,1 >>
    IN  [k \in MsBits |-> bits[k + 1]]

Zero == [p \in Bits |-> 0]
(* Version 7, all else zero.                                               *)
V7 == [p \in Bits |-> IF p \in {49, 50, 51, 64} THEN 1 ELSE 0]
(* Version 7 at the cap, every counter and random bit set.                 *)
V7AtCap == [p \in Bits |-> IF p < 48 THEN MCCap[p] ELSE IF p \in {48, 65} THEN 0 ELSE 1]
(* The first millisecond past it.                                          *)
V7PastCap ==
    [p \in Bits |-> IF p < 37 THEN MCCap[p] ELSE IF p = 37 THEN 1 ELSE V7[p]]

(* The SQL order of V7.                                                    *)
SqlV7 == [p \in Bits |-> IF p \in {56, 64} THEN 1 ELSE 0]

Flipped(v) == { [v EXCEPT ![p] = 1 - @] : p \in Bits }

MCValues ==
    {Zero, V7, V7AtCap, V7PastCap, SqlV7}
    \cup Flipped(V7) \cup Flipped(V7AtCap) \cup Flipped(SqlV7)
=============================================================================
