----------------------------- MODULE MCAesSource ----------------------------
(***************************************************************************)
(* AesSource with a buffer of three bytes and keys good for six bytes and  *)
(* two ticks.  A draw of two leaves a remainder of one in the buffer, one  *)
(* of four straddles it and takes a refill that may cross the budget, and  *)
(* one of eight is generated in place across a budget.                     *)
(***************************************************************************)
EXTENDS AesSource
=============================================================================
