---------------------------- MODULE MCBatchStamp ----------------------------
(***************************************************************************)
(* BatchStamp with batches of one, two, three and five UUIDs (the code's   *)
(* own sizes of a UUID, a tail and a seed), drawn nine bytes at a time,    *)
(* and four steps of two UUIDs to a millisecond, so that the batches of    *)
(* three and five go on into the next millisecond.                         *)
(***************************************************************************)
EXTENDS BatchStamp
=============================================================================
