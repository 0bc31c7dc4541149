------------------------------- MODULE MCMint --------------------------------
(***************************************************************************)
(* Mint over a few calls of every kind, each able to fail, on the stack    *)
(* the calls before it left.                                               *)
(***************************************************************************)
EXTENDS Mint
=============================================================================
