------------------------------ MODULE MCDoors -------------------------------
(***************************************************************************)
(* Doors with a uint32 of four values and a uint64 of 16, instants half a  *)
(* millisecond apart for two turns of the uint64 either way, clocks on     *)
(* both sides of 1970, and counts on both sides of zero, of the batch      *)
(* limit and of the uint32, one of which wraps into a count that is taken. *)
(***************************************************************************)
EXTENDS Doors

CONSTANT MaxLog  \* reservations followed in one behaviour

AllSupplied == 0 .. Width64 - 1
AllCounts == 0 .. MaxBatch + 1
AllClocks == -(Width64 \div 2) .. (Width64 \div 2) - 1
AllInstants == -70 .. 70
AllSizes == {-5, -1, 0, 1, 2, 3, 4, 5, 6, 9}
AllLengths == {0, 1, 2, 3, 4, 5, 6, 8, 9, 10, 12}

(* A call that reserves nothing leaves the stream as it was: what can      *)
(* follow it is what could have come instead of it.                        *)
Fresh == Len(log) < MaxLog /\ (last.mode = "stream" \/ last.op = "none")
         /\ door.err = "none"
=============================================================================
