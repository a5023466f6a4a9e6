-------------------------- MODULE MCSynchronization --------------------------
(* Small instances of Synchronization.  Two measurements fix the GPS, the  *)
(* unsigned counters wrap at 4, a minute is one second, the second relay   *)
(* interrupt realigns the timer.                                           *)
EXTENDS Synchronization

CONSTANT r1

MCNoReader == {}
MCOneReader == {r1}
=============================================================================
