----------------------- MODULE MCSynchronizationLoad ------------------------
(* SynchronizationLoad with two readers.                                   *)
EXTENDS SynchronizationLoad

CONSTANTS r1, r2

MCReaders == {r1, r2}
=============================================================================
