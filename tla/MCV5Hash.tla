------------------------------ MODULE MCV5Hash ------------------------------
(***************************************************************************)
(* V5Hash with bytes of four values, blocks of eight of them, namespaces   *)
(* of two and lengths of five, in proportion to the code's 64, 16 and 8    *)
(* (of which five are ever more than zero): names reach the largest there  *)
(* is, 2^31 - 1 in the code and 127 here, where the bit length fills its   *)
(* fifth byte.                                                             *)
(***************************************************************************)
EXTENDS V5Hash

AllLengths == 0 .. 127
=============================================================================
