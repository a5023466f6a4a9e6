---------------------------- MODULE MCSpiDrivers ----------------------------
(* SpiDrivers with two threads on each device, the smallest number that    *)
(* can disturb each other.                                                 *)
EXTENDS SpiDrivers

CONSTANTS c1, c2, u1, u2

MCClients == {c1, c2}
MCUsers == {u1, u2}
=============================================================================
