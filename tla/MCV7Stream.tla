----------------------------- MODULE MCV7Stream -----------------------------
(***************************************************************************)
(* V7Stream on a small word: four steps to a millisecond and two UUIDs to  *)
(* a step, so that a batch can fill a millisecond, cross into the next one *)
(* or be refused, and six milliseconds, so that a caller can be ahead of *)
(* the stream, inside the clamp window, behind it, past the stream's last  *)
(* millisecond and past the cap.                                           *)
(***************************************************************************)
EXTENDS V7Stream

CONSTANT MaxLog  \* reservations followed in one behaviour

(* Empty, a step and a bit, most of a millisecond, a whole one, and one    *)
(* UUID too many.                                                          *)
MCCounts == {0, 3, 6, MaxBatch, MaxBatch + 1}

LogBound == Len(log) < MaxLog
=============================================================================
