---------------------------- MODULE MCTimerMath -----------------------------
(* TimerMath with a word of four bits and seconds of five ticks: edges a   *)
(* tick early, in time and a tick late, missing edges, and a gap longer    *)
(* than a full turn of the counter.                                        *)
EXTENDS TimerMath

MCIntervals == {4, 5, 6, 12, 17}
=============================================================================
