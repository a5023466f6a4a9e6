----------------------------- MODULE MCReadWait -----------------------------
(* ReadWait with two readers, the smallest number that can disturb each    *)
(* other.                                                                  *)
EXTENDS ReadWait

CONSTANTS r1, r2

MCReaders == {r1, r2}
=============================================================================
