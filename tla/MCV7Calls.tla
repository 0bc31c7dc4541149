------------------------------ MODULE MCV7Calls -----------------------------
(***************************************************************************)
(* V7Calls with two goroutines that make a few calls between them, on a    *)
(* word of five one-UUID steps to a millisecond.                           *)
(*                                                                         *)
(* V7Calls.cfg: three calls of any kind, with a pool and without one.  A   *)
(* batch of three makes the scratch grow to a second page, one of five     *)
(* does not fit the host's pages, and one of six is refused at the door.   *)
(* V7CallsLive.cfg: version 4 and stateless calls are not counted, so a    *)
(* waiter meets any number of them.                                        *)
(***************************************************************************)
EXTENDS V7Calls, TLC

CONSTANTS g1, g2, s1, s2

(* Goroutines are interchangeable, and so are spare instances; sound for   *)
(* the safety properties only.                                             *)
Symmetry == Permutations({g1, g2}) \cup Permutations({s1, s2})
=============================================================================
