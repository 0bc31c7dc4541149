--------------------------- MODULE MCGuestMemory ----------------------------
(***************************************************************************)
(* GuestMemory on pages of 16 bytes and 16-page guests, whose int32 holds  *)
(* 127, on a host whose int is no wider: it addresses seven pages, and     *)
(* names end with the last of them.                                        *)
(***************************************************************************)
EXTENDS GuestMemory

CONSTANT s1  \* a pooled instance

AllNames == 0 .. 160
AllCounts == 0 .. MaxBatch + 1
=============================================================================
