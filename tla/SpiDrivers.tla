----------------------------- MODULE SpiDrivers -----------------------------
(***************************************************************************)
(* The two SPI drivers on one board: each can be loaded and unloaded, its  *)
(* device bound and unbound, at any time, and they compete for one chip    *)
(* select.  The file operations of one driver touch nothing of the other,  *)
(* so a behaviour opens the files of one of them only (inUse): this bound  *)
(* leaves out no order that a property could see (theorem BothInUse).      *)
(***************************************************************************)
EXTENDS CanSpi, Spike

VARIABLE inUse          \* the driver whose files are opened

vars == <<busVars, canVars, spikeVars, inUse>>

(* The variables of both drivers have their types.                         *)
SpiTypeOK == BusTypeOK /\ CanTypeOK /\ SpikeTypeOK /\ inUse \in Drivers

Init == CanInit /\ SpikeInit /\ inUse \in Drivers

CanStep(A) == A /\ UNCHANGED <<spikeVars, inUse>>
SpikeStep(A) == A /\ UNCHANGED <<canVars, inUse>>

CanUse ==
  /\ inUse = "can_spi"
  /\ CompletionHandler \/ \E c \in Clients : CanThread(c)

SpikeUse ==
  /\ inUse = "spike"
  /\ \E u \in Users : SpikeThread(u)

Next ==
  \/ CanStep(CanModule) \/ CanStep(CanUse)
  \/ SpikeStep(SpikeModule) \/ SpikeStep(SpikeUse)

Spec == Init /\ [][Next]_vars

(* The SPI master completes what it was given; a thread in the kernel that *)
(* waits for nothing goes on; and down serves its waiters in their order,  *)
(* so that one of them gets a semaphore that is released again and again.  *)
Fairness ==
  /\ WF_vars(CanStep(CompletionHandler))
  /\ \A c \in Clients : WF_vars(CanStep(CanProgress(c)))
  /\ \A u \in Users : WF_vars(SpikeStep(SpikeProgress(u)))
                      /\ SF_vars(SpikeStep(SpikeLock(u)))

FairSpec == Spec /\ Fairness

-----------------------------------------------------------------------------
(* Whatever step of a load fails, and in whatever order the two drivers    *)
(* are loaded, unloaded, bound and unbound: of the resources their init    *)
(* functions acquire, a driver that is not loaded still holds at most the  *)
(* receive buffer of can_spi, which no label and no exit function          *)
(* releases; and the device that it may have left on the bus is bound to   *)
(* no driver.  (It does leave that device if it was unbound before the     *)
(* unload; and the buffer of open that spike loses at its first sample is  *)
(* never freed: see HarmlessUntilSampled.)                                 *)
UnloadedLetsGo ==
  /\ CanHoldsOnlyRx /\ SpikeHoldsNothing
  /\ \A d \in Drivers : ~Loaded(d) /\ onBus = d => ~claimed
=============================================================================
