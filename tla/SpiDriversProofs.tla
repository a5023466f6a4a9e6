-------------------------- MODULE SpiDriversProofs --------------------------
(***************************************************************************)
(* Theorems about the two SPI drivers together, for any number of clients  *)
(* and users.  Each driver's own invariant is kept by its steps (for the   *)
(* converter in CanSpiProofs, for the thermometer below); the other        *)
(* driver's steps change at most the bus, where they leave its resources   *)
(* alone.                                                                  *)
(***************************************************************************)
EXTENDS SpiDrivers, CanSpiProofs

-----------------------------------------------------------------------------
(* The thermometer's driver: an inductive invariant of its steps, and that *)
(* they are steps of both semaphores.                                      *)


(* No file is open while the module is not loaded.                         *)
SpikeClosed == ~Loaded("spike") => \A u \in Users : spikePc[u] = "closed"

(* What the two semaphores count.                                          *)
SpikeExclusive ==
  /\ \A u, v \in Users : spikePc[u] \in HoldsFop /\ spikePc[v] \in HoldsFop => u = v
  /\ spikeFop = 1 <=> \A u \in Users : spikePc[u] \notin HoldsFop
  /\ \A u, v \in Users : spikePc[u] \in HoldsSpi /\ spikePc[v] \in HoldsSpi => u = v
  /\ spikeSpi = 1 <=> \A u \in Users : spikePc[u] \notin HoldsSpi

(* A sample that is in the receive buffer before user_buff points there    *)
(* belongs to the read that is about to set the pointer: a read that fails *)
(* either has fop_sem to itself and finds no sample, or overwrites it.     *)
SampleOwned ==
  /\ rxData \in Users /\ spikeUser # "rx" => spikePc[rxData] = "got"
  /\ NoForeignSample

SampledFirst ==
  /\ spikeUser = "rx" => sampled
  /\ HarmlessUntilSampled

SpikeInv ==
  /\ SpikeTypeOK /\ SpikeClosed
  /\ SpikeExclusive /\ SampleOwned /\ SampledFirst

LEMMA SpikeInitInv == SpikeInit => SpikeInv
<1> SUFFICES ASSUME SpikeInit PROVE SpikeInv
  OBVIOUS
<1>1. spikeFop \in 0 .. 1 /\ spikeSpi \in 0 .. 1
  BY DEF SpikeInit, SpikeFresh
<1>2. SpikeTypeOK
  BY <1>1 DEF SpikeInit, SpikeFresh, SpikeTypeOK, SpikePlaces, HoldsFop, HoldsSpi
<1>3. SpikeClosed /\ SpikeExclusive /\ SampleOwned /\ SampledFirst
  BY UsersAssumption
  DEF SpikeInit, SpikeFresh, SpikeClosed, SpikeExclusive, SampleOwned,
      NoForeignSample, SampledFirst, HarmlessUntilSampled, HoldsFop, HoldsSpi
<1>4. QED
  BY <1>2, <1>3 DEF SpikeInv

(* Loading and unloading happen while no file is open.                     *)
LEMMA SpikeModuleInv ==
  ASSUME SpikeInv, SpikeModule
  PROVE  SpikeInv'
<1> USE UsersAssumption DEF SpikeInv, SpikeTypeOK, SpikePlaces, HoldsFop,
        HoldsSpi, SpikeClosed, SpikeExclusive, SampleOwned, NoForeignSample,
        SampledFirst, HarmlessUntilSampled
<1>1. CASE spike_init
  <2>1. ~Loaded("spike")
    BY <1>1 DEF spike_init, Insmod
  <2>2. spikeFop' \in 0 .. 1 /\ spikeSpi' \in 0 .. 1
    BY <1>1 DEF spike_init, SpikeReset
  <2>3. SpikeTypeOK'
    BY <1>1, <2>2 DEF spike_init, SpikeReset
  <2>4. SpikeClosed' /\ SpikeExclusive' /\ SampleOwned' /\ SampledFirst'
    BY <1>1, <2>1 DEF spike_init, SpikeReset
  <2>5. QED
    BY <2>3, <2>4
<1>2. CASE spike_exit
  <2>1. spikeFop' \in 0 .. 1 /\ spikeSpi' \in 0 .. 1
    BY <1>2 DEF spike_exit, SpikeReset
  <2>2. SpikeTypeOK'
    BY <1>2, <2>1 DEF spike_exit, SpikeReset
  <2>3. SpikeClosed' /\ SpikeExclusive' /\ SampleOwned' /\ SampledFirst'
    BY <1>2 DEF spike_exit, SpikeReset
  <2>4. QED
    BY <2>2, <2>3
<1>3. CASE spike_probe \/ spike_remove
  BY <1>3 DEF spike_probe, spike_remove, Bind, Unbind, Loaded, spikeVars
<1>4. QED
  BY <1>1, <1>2, <1>3 DEF SpikeModule

(* open, close, and the steps of a read around its transfer.               *)
LEMMA SpikeFileInv ==
  ASSUME SpikeInv, NEW u \in Users,
         \/ SpikeOpenEnter(u) \/ SpikeOpenLeave(u) \/ SpikeClose(u)
         \/ SpikeReadEnter(u) \/ SpikeReadGot(u) \/ SpikeReadFailed(u)
         \/ SpikeReadCopy(u) \/ SpikeReadClear(u)
         \/ SpikeIoctlEnter(u) \/ SpikeIoctlReport(u)
  PROVE  SpikeInv'
<1> USE UsersAssumption DEF SpikeInv, SpikeTypeOK, SpikePlaces, HoldsFop,
        HoldsSpi, SpikeClosed, SpikeExclusive, SampleOwned, NoForeignSample,
        SampledFirst, HarmlessUntilSampled, Loaded, busVars, SpikeGoto
<1>1. CASE SpikeOpenEnter(u)
  BY <1>1 DEF SpikeOpenEnter
<1>2. CASE SpikeOpenLeave(u)
  BY <1>2 DEF SpikeOpenLeave
<1>3. CASE SpikeClose(u)
  BY <1>3 DEF SpikeClose
<1>4. CASE SpikeReadEnter(u)
  BY <1>4 DEF SpikeReadEnter
<1>5. CASE SpikeReadGot(u)
  BY <1>5 DEF SpikeReadGot
<1>6. CASE SpikeReadFailed(u)
  <2>1. rxData \in Users => spikeUser = "rx"
    BY <1>6 DEF SpikeReadFailed
  <2>2. rxData' \notin Users
    BY <1>6, <2>1 DEF SpikeReadFailed, WriteText
  <2>3. QED
    BY <1>6, <2>2 DEF SpikeReadFailed, WriteText
<1>7. CASE SpikeReadCopy(u)
  BY <1>7 DEF SpikeReadCopy
<1>8. CASE SpikeReadClear(u)
  BY <1>8 DEF SpikeReadClear
<1>9. CASE SpikeIoctlEnter(u)
  BY <1>9 DEF SpikeIoctlEnter
<1>10. CASE SpikeIoctlReport(u)
  BY <1>10 DEF SpikeIoctlReport, WriteText
<1>11. QED
  BY <1>1, <1>2, <1>3, <1>4, <1>5, <1>6, <1>7, <1>8, <1>9, <1>10

(* The transfers.  A sample arrives under both semaphores.                 *)
LEMMA SpikeTransferInv ==
  ASSUME SpikeInv, NEW u \in Users,
         \/ SpikeLock(u) \/ SpikeReadRefused(u) \/ SpikeReadEnd(u)
         \/ SpikeIoctlRefused(u) \/ SpikeIoctlEnd(u)
  PROVE  SpikeInv'
<1> USE UsersAssumption DEF SpikeInv, SpikeTypeOK, SpikePlaces, HoldsFop,
        HoldsSpi, SpikeClosed, SpikeExclusive, SampleOwned, NoForeignSample,
        SampledFirst, HarmlessUntilSampled, Loaded, busVars, SpikeGoto
<1>1. CASE SpikeReadBegin(u)
  BY <1>1 DEF SpikeReadBegin, TransferBegin
<1>2. CASE SpikeIoctlBegin(u)
  BY <1>2 DEF SpikeIoctlBegin, TransferBegin
<1>3. CASE SpikeReadRefused(u)
  BY <1>3 DEF SpikeReadRefused, TransferRefused
<1>4. CASE SpikeIoctlRefused(u)
  BY <1>4 DEF SpikeIoctlRefused, TransferRefused
<1>5. CASE TransferEnd(u, "transfer", "got", u)
  BY <1>5 DEF TransferEnd
<1>6. CASE TransferEnd(u, "transfer", "failed", rxData)
  BY <1>6 DEF TransferEnd
<1>7. CASE TransferEnd(u, "setting", "answered", "answer")
  BY <1>7 DEF TransferEnd
<1>8. CASE TransferEnd(u, "setting", "refused", rxData)
  BY <1>8 DEF TransferEnd
<1>9. QED
  BY <1>1, <1>2, <1>3, <1>4, <1>5, <1>6, <1>7, <1>8
  DEF SpikeLock, SpikeReadEnd, SpikeIoctlEnd

LEMMA SpikeStepInv ==
  ASSUME SpikeInv, SpikeNext
  PROVE  SpikeInv'
BY SpikeModuleInv, SpikeFileInv, SpikeTransferInv
DEF SpikeNext, SpikeThread, SpikeProgress

-----------------------------------------------------------------------------
(* The semaphores.                                                         *)

(* A step of one user takes both semaphores together with his place.       *)
LEMMA FopOfUser ==
  ASSUME SpikeInv, NEW u \in Users, NEW from \in SpikePlaces,
         NEW to \in SpikePlaces, SpikeGoto(u, from, to),
         from \notin HoldsFop /\ to \in HoldsFop => spikeFop = 1
  PROVE  [SpikeFopSem!SemNext]_(SpikeFopSem!semVars)
<1>1. /\ spikePc[u] = from /\ spikePc'[u] = to
      /\ \A v \in Users \ {u} : spikePc'[v] = spikePc[v]
  BY DEF SpikeInv, SpikeTypeOK, SpikeGoto
<1>2. CASE from \notin HoldsFop /\ to \in HoldsFop
  <2>1. SpikeFopSem!Down(u)
    BY <1>1, <1>2 DEF SpikeInv, SpikeExclusive, SpikeFopSem!Down
  <2>2. QED
    BY <2>1 DEF SpikeFopSem!SemNext
<1>3. CASE from \in HoldsFop /\ to \notin HoldsFop
  <2>1. \A v \in Users : (spikePc[v] \in HoldsFop) <=> v = u
    BY <1>1, <1>3 DEF SpikeInv, SpikeExclusive
  <2>2. SpikeFopSem!Up(u)
    BY <1>1, <1>3, <2>1 DEF SpikeFopSem!Up
  <2>3. QED
    BY <2>2 DEF SpikeFopSem!SemNext
<1>4. CASE (from \in HoldsFop) <=> (to \in HoldsFop)
  BY <1>1, <1>4 DEF SpikeFopSem!semVars
<1>5. QED
  BY <1>2, <1>3, <1>4

LEMMA SpiOfUser ==
  ASSUME SpikeInv, NEW u \in Users, NEW from \in SpikePlaces,
         NEW to \in SpikePlaces, SpikeGoto(u, from, to),
         from \notin HoldsSpi /\ to \in HoldsSpi => spikeSpi = 1
  PROVE  [SpikeSpiSem!SemNext]_(SpikeSpiSem!semVars)
<1>1. /\ spikePc[u] = from /\ spikePc'[u] = to
      /\ \A v \in Users \ {u} : spikePc'[v] = spikePc[v]
  BY DEF SpikeInv, SpikeTypeOK, SpikeGoto
<1>2. CASE from \notin HoldsSpi /\ to \in HoldsSpi
  <2>1. SpikeSpiSem!Down(u)
    BY <1>1, <1>2 DEF SpikeInv, SpikeExclusive, SpikeSpiSem!Down
  <2>2. QED
    BY <2>1 DEF SpikeSpiSem!SemNext
<1>3. CASE from \in HoldsSpi /\ to \notin HoldsSpi
  <2>1. \A v \in Users : (spikePc[v] \in HoldsSpi) <=> v = u
    BY <1>1, <1>3 DEF SpikeInv, SpikeExclusive
  <2>2. SpikeSpiSem!Up(u)
    BY <1>1, <1>3, <2>1 DEF SpikeSpiSem!Up
  <2>3. QED
    BY <2>2 DEF SpikeSpiSem!SemNext
<1>4. CASE (from \in HoldsSpi) <=> (to \in HoldsSpi)
  BY <1>1, <1>4 DEF SpikeSpiSem!semVars
<1>5. QED
  BY <1>2, <1>3, <1>4

(* Where a step of a user leads, and what it waits for.                    *)
LEMMA UserMoves ==
  ASSUME SpikeInv, NEW u \in Users, SpikeThread(u)
  PROVE  \E from, to \in SpikePlaces :
           /\ SpikeGoto(u, from, to)
           /\ from \notin HoldsFop /\ to \in HoldsFop => spikeFop = 1
           /\ from \notin HoldsSpi /\ to \in HoldsSpi => spikeSpi = 1
<1> USE DEF SpikePlaces, HoldsFop, HoldsSpi
<1>1. spikeFop \in 0 .. 1 /\ spikeSpi \in 0 .. 1
  BY DEF SpikeInv, SpikeTypeOK
<1>2. CASE SpikeOpenEnter(u) \/ SpikeReadEnter(u)
  BY <1>1, <1>2 DEF SpikeOpenEnter, SpikeReadEnter
<1>3. CASE SpikeLock(u)
  BY <1>1, <1>3 DEF SpikeLock, SpikeReadBegin, SpikeIoctlBegin, TransferBegin
<1>4. CASE \/ SpikeReadRefused(u) \/ SpikeIoctlRefused(u)
           \/ SpikeReadEnd(u) \/ SpikeIoctlEnd(u)
  BY <1>4 DEF SpikeReadRefused, SpikeIoctlRefused, SpikeReadEnd,
              SpikeIoctlEnd, TransferRefused, TransferEnd
<1>5. CASE SpikeOpenLeave(u)
  BY <1>5 DEF SpikeOpenLeave
<1>6. CASE \/ SpikeClose(u) \/ SpikeReadGot(u) \/ SpikeReadFailed(u)
           \/ SpikeReadCopy(u) \/ SpikeReadClear(u)
  BY <1>6 DEF SpikeClose, SpikeReadGot, SpikeReadFailed, SpikeReadCopy,
              SpikeReadClear
<1>7. CASE SpikeIoctlEnter(u) \/ SpikeIoctlReport(u)
  BY <1>7 DEF SpikeIoctlEnter, SpikeIoctlReport
<1>8. QED
  BY <1>2, <1>3, <1>4, <1>5, <1>6, <1>7 DEF SpikeThread, SpikeProgress

(* Every step of the driver is a step of each abstract semaphore or leaves *)
(* it alone.                                                               *)
LEMMA SpikeSemStep ==
  ASSUME SpikeInv, SpikeNext
  PROVE  /\ [SpikeFopSem!SemNext]_(SpikeFopSem!semVars)
         /\ [SpikeSpiSem!SemNext]_(SpikeSpiSem!semVars)
<1>1. CASE SpikeModule
  <2>1. UNCHANGED spikePc
    BY <1>1 DEF SpikeModule, spike_init, spike_exit, spike_probe, spike_remove,
                spikeVars
  <2>2. QED
    BY <2>1 DEF SpikeFopSem!semVars, SpikeSpiSem!semVars
<1>2. CASE \E u \in Users : SpikeThread(u)
  BY <1>2, UserMoves, FopOfUser, SpiOfUser
<1>3. QED
  BY <1>1, <1>2 DEF SpikeNext

-----------------------------------------------------------------------------
(* Both drivers.                                                           *)

(* A device that is bound is known to the driver that added it.  (Unbinding *)
(* need not clear the pointer: spike's remove function may be interrupted.) *)
BoundIsKnown == claimed => onBus \in Drivers /\ known[onBus]

BusInv ==
  /\ BusTypeOK /\ DeviceIsOwn /\ BoundIsKnown
  /\ CanHoldsOnlyRx /\ SpikeHoldsNothing

(* What the init functions acquire before step k and what their labels     *)
(* release: all but the receive buffer, which is up to each driver.        *)
LEMMA InitUndone ==
  ASSUME NEW k \in 1 .. 7
  PROVE  /\ Acquired(k) \subseteq Resources
         /\ k = 7 => Acquired(k) = Resources /\ UndoneByInit(k) = {}
         /\ k # 7 => Acquired(k) \subseteq
              {"rx_buff", "tx_buff", "driver"} \cup UndoneByInit(k)
<1>1. /\ InitSteps[1] = "cdev" /\ InitSteps[2] = "class"
      /\ InitSteps[3] = "tx_buff" /\ InitSteps[4] = "rx_buff"
      /\ InitSteps[5] = "driver" /\ Len(InitSteps) = 5
  BY DEF InitSteps
<1>2. Resources = {InitSteps[i] : i \in 1 .. 5}
  BY <1>1 DEF Resources
<1>3. Acquired(k) \subseteq Resources
  BY <1>2 DEF Acquired
<1>4. ASSUME k = 7 PROVE Acquired(k) = Resources /\ UndoneByInit(k) = {}
  BY <1>2, <1>4 DEF Acquired, UndoneByInit
<1>5. ASSUME k # 7, NEW i \in 1 .. 5, i < k
      PROVE  InitSteps[i] \in
               {"rx_buff", "tx_buff", "driver"} \cup UndoneByInit(k)
  <2>1. CASE i = 1
    BY <1>1, <1>5, <2>1 DEF UndoneByInit
  <2>2. CASE i = 2
    BY <1>1, <1>5, <2>2 DEF UndoneByInit
  <2>3. CASE i \in 3 .. 5
    BY <1>1, <2>3
  <2>4. QED
    BY <2>1, <2>2, <2>3
<1>6. QED
  BY <1>3, <1>4, <1>5 DEF Acquired

LEMMA ResourceNames ==
  Resources = {"cdev", "class", "tx_buff", "rx_buff", "driver"}
<1>1. /\ InitSteps[1] = "cdev" /\ InitSteps[2] = "class"
      /\ InitSteps[3] = "tx_buff" /\ InitSteps[4] = "rx_buff"
      /\ InitSteps[5] = "driver" /\ Len(InitSteps) = 5
  BY DEF InitSteps
<1>2. Resources = {InitSteps[i] : i \in 1 .. 5}
  BY <1>1 DEF Resources
<1>3. 1 .. 5 = {1, 2, 3, 4, 5}
  OBVIOUS
<1>4. QED
  BY <1>1, <1>2, <1>3

(* A load changes the resources of its driver only, and takes a device     *)
(* only if no other driver has added one.                                  *)
LEMMA InsmodOwn ==
  ASSUME BusTypeOK, DeviceIsOwn, BoundIsKnown,
         NEW d \in Drivers, NEW k \in 1 .. 7,
         NEW undone \in SUBSET Resources, k = 7 => undone = {},
         Insmod(d, k, undone)
  PROVE  /\ BusTypeOK' /\ DeviceIsOwn' /\ BoundIsKnown'
         /\ \A e \in Drivers \ {d} : held'[e] = held[e]
         /\ held'[d] = (held[d] \cup Acquired(k)) \ (undone \cup UndoneByInit(k))
<1>1. /\ held' = [held EXCEPT ![d] =
                    (@ \cup Acquired(k)) \ (undone \cup UndoneByInit(k))]
      /\ onBus' = IF k = 7 /\ GetsDevice(d) THEN d ELSE onBus
      /\ claimed' = (claimed \/ (k = 7 /\ GetsDevice(d)))
      /\ known' = [known EXCEPT ![d] = (k = 7 /\ GetsDevice(d))]
  BY DEF Insmod
<1>2. BusTypeOK'
  BY <1>1, InitUndone DEF BusTypeOK
<1>3. /\ held'[d] = (held[d] \cup Acquired(k)) \ (undone \cup UndoneByInit(k))
      /\ \A e \in Drivers \ {d} : held'[e] = held[e] /\ known'[e] = known[e]
      /\ known'[d] = (k = 7 /\ GetsDevice(d))
  BY <1>1 DEF BusTypeOK
<1>4. ASSUME NEW e \in Drivers, known'[e] PROVE Loaded(e)' /\ onBus' = e
  <2>1. CASE e = d
    BY <1>1, <1>3, <1>4, <2>1, InitUndone, ResourceNames DEF Loaded
  <2>2. CASE e # d
    <3>1. known[e] /\ Loaded(e) /\ onBus = e
      BY <1>3, <1>4, <2>2 DEF DeviceIsOwn
    <3>2. ~GetsDevice(d)
      BY <2>2, <3>1 DEF GetsDevice, Drivers
    <3>3. QED
      BY <1>1, <1>3, <2>2, <3>1, <3>2 DEF Loaded
  <2>3. QED
    BY <2>1, <2>2
<1>5. BoundIsKnown'
  <2>1. CASE k = 7 /\ GetsDevice(d)
    BY <1>1, <1>3, <2>1 DEF BoundIsKnown
  <2>2. CASE ~(k = 7 /\ GetsDevice(d))
    <3>1. ASSUME claimed' PROVE onBus' \in Drivers \ {d} /\ known'[onBus']
      <4>1. claimed /\ onBus' = onBus /\ onBus \in Drivers /\ known[onBus]
        BY <1>1, <2>2, <3>1 DEF BoundIsKnown
      <4>2. onBus # d
        BY <4>1 DEF DeviceIsOwn, Insmod
      <4>3. QED
        BY <1>3, <4>1, <4>2
    <3>2. QED
      BY <3>1 DEF BoundIsKnown
  <2>3. QED
    BY <2>1, <2>2
<1>6. QED
  BY <1>2, <1>3, <1>4, <1>5 DEF DeviceIsOwn

(* So do an unload, a bind and an unbind.                                  *)
LEMMA BusOwn ==
  ASSUME BusTypeOK, DeviceIsOwn, BoundIsKnown, NEW d \in Drivers,
         NEW released \in SUBSET Resources, NEW forgets \in BOOLEAN,
         Rmmod(d, released) \/ Bind(d) \/ Unbind(d, forgets)
  PROVE  /\ BusTypeOK' /\ DeviceIsOwn' /\ BoundIsKnown'
         /\ \A e \in Drivers \ {d} : held'[e] = held[e]
<1>1. CASE Rmmod(d, released)
  <2>1. /\ held' = [held EXCEPT ![d] = @ \ released]
        /\ onBus' = IF known[d] THEN "none" ELSE onBus
        /\ claimed' = (claimed /\ ~known[d])
        /\ known' = [known EXCEPT ![d] = FALSE]
    BY <1>1 DEF Rmmod
  <2>2. BusTypeOK'
    BY <2>1 DEF BusTypeOK
  <2>3. DeviceIsOwn'
    BY <2>1 DEF BusTypeOK, DeviceIsOwn, Loaded
  <2>4. BoundIsKnown'
    BY <2>1 DEF BusTypeOK, BoundIsKnown
  <2>5. QED
    BY <2>1, <2>2, <2>3, <2>4 DEF BusTypeOK
<1>2. CASE Bind(d)
  BY <1>2 DEF Bind, BusTypeOK, DeviceIsOwn, BoundIsKnown, Loaded
<1>3. CASE Unbind(d, forgets)
  <2>1. known' = [known EXCEPT ![d] = @ /\ ~forgets]
    BY <1>3 DEF Unbind
  <2>2. \A e \in Drivers : known'[e] => known[e]
    BY <2>1 DEF BusTypeOK
  <2>3. known' \in [Drivers -> BOOLEAN]
    BY <2>1 DEF BusTypeOK
  <2>4. QED
    BY <1>3, <2>2, <2>3 DEF Unbind, BusTypeOK, DeviceIsOwn, BoundIsKnown,
                            Loaded
<1>4. QED
  BY <1>1, <1>2, <1>3

(* The steps of the first driver keep what is true of the bus, and the     *)
(* resources of the second.                                                *)
LEMMA CanBus ==
  ASSUME BusInv, CanNext
  PROVE  BusInv' /\ held'["spike"] = held["spike"]
<1> USE DEF BusInv
<1>1. CASE ifsttar_can_spi_init
  <2>1. PICK k \in 1 .. 7 : Insmod("can_spi", k, CanUndone(k))
    BY <1>1 DEF ifsttar_can_spi_init
  <2>2. CanUndone(k) \in SUBSET Resources /\ (k = 7 => CanUndone(k) = {})
    BY ResourceNames DEF CanUndone
  <2>3. /\ BusTypeOK' /\ DeviceIsOwn' /\ BoundIsKnown'
        /\ held'["spike"] = held["spike"]
        /\ held'["can_spi"] = (held["can_spi"] \cup Acquired(k))
                               \ (CanUndone(k) \cup UndoneByInit(k))
    BY <2>1, <2>2, InsmodOwn DEF Drivers
  <2>4. CASE k = 7
    <3>1. Loaded("can_spi")'
      BY <2>2, <2>3, <2>4, InitUndone, ResourceNames DEF Loaded
    <3>2. QED
      BY <2>3, <3>1 DEF CanHoldsOnlyRx, SpikeHoldsNothing, Loaded
  <2>5. CASE k # 7
    <3>1. held["can_spi"] \subseteq {"rx_buff"}
      BY <2>1 DEF Insmod, CanHoldsOnlyRx
    <3>2. CanUndone(k) = {"tx_buff", "driver"}
      BY <2>5 DEF CanUndone
    <3>3. held'["can_spi"] \subseteq {"rx_buff"}
      BY <2>3, <2>5, <3>1, <3>2, InitUndone
    <3>4. QED
      BY <2>3, <3>3 DEF CanHoldsOnlyRx, SpikeHoldsNothing, Loaded
  <2>6. QED
    BY <2>4, <2>5
<1>2. CASE ifsttar_can_spi_exit
  <2>1. Rmmod("can_spi", {"cdev", "class", "tx_buff", "driver"})
    BY <1>2 DEF ifsttar_can_spi_exit
  <2>2. /\ BusTypeOK' /\ DeviceIsOwn' /\ BoundIsKnown'
        /\ held'["spike"] = held["spike"]
    BY <2>1, BusOwn, ResourceNames DEF Drivers
  <2>3. held'["can_spi"] \subseteq {"rx_buff"}
    BY <2>1, ResourceNames DEF Rmmod, BusTypeOK, Drivers
  <2>4. QED
    BY <2>2, <2>3 DEF CanHoldsOnlyRx, SpikeHoldsNothing, Loaded
<1>3. CASE ifsttar_can_spi_probe \/ ifsttar_can_spi_remove
  <2>1. Bind("can_spi") \/ Unbind("can_spi", TRUE)
    BY <1>3 DEF ifsttar_can_spi_probe, ifsttar_can_spi_remove
  <2>2. BusTypeOK' /\ DeviceIsOwn' /\ BoundIsKnown' /\ UNCHANGED held
    BY <2>1, BusOwn DEF Drivers, Bind, Unbind
  <2>3. QED
    BY <2>2 DEF CanHoldsOnlyRx, SpikeHoldsNothing, Loaded
<1>4. CASE CompletionHandler \/ \E c \in Clients : CanThread(c)
  <2>1. UNCHANGED busVars
    BY <1>4
    DEF CompletionHandler, HandlerEnter, HandlerWake, HandlerClear, CanThread,
        CanProgress, CanCall, OpenLeave, WriteLeave, CanReadCheck,
        CanReadSleep, CanReadResume, CanReadCopy, CanReadNull, CanReadMark,
        StartMark, OpenEnter, ifsttar_can_spi_close, WriteEnter, CanReadEnter,
        CanReadSignal, spi_poll, PollEnd, StartSubmit, SetupDevice
  <2>2. QED
    BY <2>1 DEF busVars, BusTypeOK, DeviceIsOwn, BoundIsKnown,
                CanHoldsOnlyRx, SpikeHoldsNothing, Loaded
<1>5. QED
  BY <1>1, <1>2, <1>3, <1>4 DEF CanNext, CanModule

(* And the other way round.                                                *)
LEMMA SpikeBus ==
  ASSUME BusInv, SpikeNext
  PROVE  BusInv' /\ held'["can_spi"] = held["can_spi"]
<1> USE DEF BusInv
<1>1. CASE spike_init
  <2>1. PICK k \in 1 .. 7 : Insmod("spike", k, SpikeUndone(k))
    BY <1>1 DEF spike_init
  <2>2. SpikeUndone(k) \in SUBSET Resources /\ (k = 7 => SpikeUndone(k) = {})
    BY ResourceNames DEF SpikeUndone
  <2>3. /\ BusTypeOK' /\ DeviceIsOwn' /\ BoundIsKnown'
        /\ held'["can_spi"] = held["can_spi"]
        /\ held'["spike"] = (held["spike"] \cup Acquired(k))
                             \ (SpikeUndone(k) \cup UndoneByInit(k))
    BY <2>1, <2>2, InsmodOwn DEF Drivers
  <2>4. CASE k = 7
    <3>1. Loaded("spike")'
      BY <2>2, <2>3, <2>4, InitUndone, ResourceNames DEF Loaded
    <3>2. QED
      BY <2>3, <3>1 DEF CanHoldsOnlyRx, SpikeHoldsNothing, Loaded
  <2>5. CASE k # 7
    <3>1. held["spike"] = {}
      BY <2>1 DEF Insmod, SpikeHoldsNothing
    <3>2. SpikeUndone(k) = {"tx_buff", "rx_buff", "driver"}
      BY <2>5 DEF SpikeUndone
    <3>3. held'["spike"] = {}
      BY <2>3, <2>5, <3>1, <3>2, InitUndone
    <3>4. QED
      BY <2>3, <3>3 DEF CanHoldsOnlyRx, SpikeHoldsNothing, Loaded
  <2>6. QED
    BY <2>4, <2>5
<1>2. CASE spike_exit
  <2>1. Rmmod("spike", Resources)
    BY <1>2 DEF spike_exit
  <2>2. /\ BusTypeOK' /\ DeviceIsOwn' /\ BoundIsKnown'
        /\ held'["can_spi"] = held["can_spi"]
    BY <2>1, BusOwn DEF Drivers
  <2>3. held'["spike"] = {}
    BY <2>1 DEF Rmmod, BusTypeOK, Drivers
  <2>4. QED
    BY <2>2, <2>3 DEF CanHoldsOnlyRx, SpikeHoldsNothing, Loaded
<1>3. CASE spike_probe \/ spike_remove
  <2>1. (spikeSpi > 0) \in BOOLEAN
    OBVIOUS
  <2>2. Bind("spike") \/ Unbind("spike", spikeSpi > 0)
    BY <1>3 DEF spike_probe, spike_remove
  <2>3. BusTypeOK' /\ DeviceIsOwn' /\ BoundIsKnown' /\ UNCHANGED held
    BY <2>1, <2>2, BusOwn DEF Drivers, Bind, Unbind
  <2>4. QED
    BY <2>3 DEF CanHoldsOnlyRx, SpikeHoldsNothing, Loaded
<1>4. CASE \E u \in Users : SpikeThread(u)
  <2>1. UNCHANGED busVars
    BY <1>4
    DEF SpikeThread, SpikeProgress, SpikeLock, SpikeOpenEnter, SpikeOpenLeave,
        SpikeClose, SpikeReadEnter, SpikeReadBegin, SpikeReadRefused,
        SpikeReadEnd, SpikeReadGot, SpikeReadFailed, SpikeReadCopy,
        SpikeReadClear, SpikeIoctlEnter, SpikeIoctlBegin, SpikeIoctlRefused,
        SpikeIoctlEnd, SpikeIoctlReport, TransferBegin, TransferRefused,
        TransferEnd
  <2>2. QED
    BY <2>1 DEF busVars, BusTypeOK, DeviceIsOwn, BoundIsKnown,
                CanHoldsOnlyRx, SpikeHoldsNothing, Loaded
<1>5. QED
  BY <1>1, <1>2, <1>3, <1>4 DEF SpikeNext, SpikeModule

-----------------------------------------------------------------------------
SpiInv == BusInv /\ CanInv /\ SpikeInv /\ inUse \in Drivers

(* The composition without its bound inUse: the files of both drivers may  *)
(* be open and their calls interleaved.                                    *)
FreeNext == CanStep(CanNext) \/ SpikeStep(SpikeNext)

FreeSpec == Init /\ [][FreeNext]_vars

(* Every step of the composition is a step of one driver and leaves the    *)
(* variables of the other alone.                                           *)
LEMMA StepOfOneDriver == [Next]_vars => [FreeNext]_vars
BY DEF Next, FreeNext, CanStep, SpikeStep, CanUse, SpikeUse, CanNext, SpikeNext

(* inUse is a bound: it takes behaviours away.                             *)
LEMMA InUseRestricts == Spec => FreeSpec
BY StepOfOneDriver, PTL DEF Spec, FreeSpec

(* What a driver's invariant says of the bus is whether it is loaded.      *)
LEMMA CanUndisturbed ==
  ASSUME CanInv, UNCHANGED canVars, held'["can_spi"] = held["can_spi"]
  PROVE  CanInv'
BY DEF canVars, semaphoreVars, flagVars, queueVars, bufferVars, transferVars,
       CanInv, CanTypeOK, CanClosed, Loaded, FopExclusive, QueueIntact,
       BufferSet, WokenHasBuffer, DamageExplained, HarmlessUntilClosed

LEMMA SpikeUndisturbed ==
  ASSUME SpikeInv, UNCHANGED spikeVars, held'["spike"] = held["spike"]
  PROVE  SpikeInv'
BY DEF spikeVars, SpikeInv, SpikeTypeOK, SpikeClosed, Loaded, SpikeExclusive,
       SampleOwned, NoForeignSample, SampledFirst, HarmlessUntilSampled

LEMMA SpiInit == Init => SpiInv
<1> SUFFICES ASSUME Init PROVE SpiInv
  OBVIOUS
<1>1. BusInv
  BY DEF Init, CanInit, BusInit, BusInv, BusTypeOK, DeviceIsOwn,
         BoundIsKnown, CanHoldsOnlyRx, SpikeHoldsNothing, Drivers
<1>2. QED
  BY <1>1, CanInitInv, SpikeInitInv DEF Init, SpiInv

LEMMA SpiStep == SpiInv /\ [FreeNext]_vars => SpiInv'
<1> SUFFICES ASSUME SpiInv, [FreeNext]_vars PROVE SpiInv'
  OBVIOUS
<1>1. CASE CanNext /\ UNCHANGED <<spikeVars, inUse>>
  BY <1>1, CanBus, CanStepInv, SpikeUndisturbed DEF SpiInv
<1>2. CASE SpikeNext /\ UNCHANGED <<canVars, inUse>>
  BY <1>2, SpikeBus, SpikeStepInv, CanUndisturbed DEF SpiInv
<1>3. CASE UNCHANGED vars
  <2>1. BusInv'
    BY <1>3 DEF vars, busVars, SpiInv, BusInv, BusTypeOK, DeviceIsOwn,
                BoundIsKnown, CanHoldsOnlyRx, SpikeHoldsNothing, Loaded
  <2>2. CanInv' /\ SpikeInv'
    BY <1>3, CanUndisturbed, SpikeUndisturbed DEF vars, busVars, SpiInv
  <2>3. QED
    BY <1>3, <2>1, <2>2 DEF vars, SpiInv
<1>4. QED
  BY <1>1, <1>2, <1>3 DEF FreeNext, CanStep, SpikeStep

LEMMA FreeInvariant == FreeSpec => []SpiInv
BY SpiInit, SpiStep, PTL DEF FreeSpec

LEMMA SpiInvariant == Spec => []SpiInv
BY FreeInvariant, InUseRestricts, PTL

(* Every step of either driver is a step of each abstract semaphore or     *)
(* leaves it alone.                                                        *)
LEMMA SemaphoreStep ==
  SpiInv /\ [FreeNext]_vars =>
    /\ [CanFop!SemNext]_(CanFop!semVars)
    /\ [SpikeFopSem!SemNext]_(SpikeFopSem!semVars)
    /\ [SpikeSpiSem!SemNext]_(SpikeSpiSem!semVars)
<1> SUFFICES ASSUME SpiInv, [FreeNext]_vars
             PROVE  /\ [CanFop!SemNext]_(CanFop!semVars)
                    /\ [SpikeFopSem!SemNext]_(SpikeFopSem!semVars)
                    /\ [SpikeSpiSem!SemNext]_(SpikeSpiSem!semVars)
  OBVIOUS
<1>1. \/ CanNext /\ UNCHANGED spikeVars
      \/ SpikeNext /\ UNCHANGED canVars
      \/ UNCHANGED canVars /\ UNCHANGED spikeVars
  BY DEF FreeNext, CanStep, SpikeStep, vars
<1>2. ASSUME UNCHANGED canVars PROVE [CanFop!SemNext]_(CanFop!semVars)
  BY <1>2 DEF canVars, semaphoreVars, CanFop!semVars
<1>3. ASSUME UNCHANGED spikeVars
      PROVE  /\ [SpikeFopSem!SemNext]_(SpikeFopSem!semVars)
             /\ [SpikeSpiSem!SemNext]_(SpikeSpiSem!semVars)
  BY <1>3 DEF spikeVars, SpikeFopSem!semVars, SpikeSpiSem!semVars
<1>4. QED
  BY <1>1, <1>2, <1>3, FopStep, SpikeSemStep DEF SpiInv

LEMMA SemaphoreInit ==
  Init => CanFop!SemInit /\ SpikeFopSem!SemInit /\ SpikeSpiSem!SemInit
BY DEF Init, CanInit, CanFresh, SpikeInit, CanFop!SemInit, SpikeFopSem!SemInit,
       SpikeSpiSem!SemInit, Inside, HoldsFop, HoldsSpi

LEMMA FreeSemaphores == FreeSpec => CanFopSpec /\ SpikeSemaphores
BY SemaphoreInit, SemaphoreStep, FreeInvariant, PTL
DEF FreeSpec, CanFopSpec, SpikeSemaphores, CanFop!SemSpec,
    SpikeFopSem!SemSpec, SpikeSpiSem!SemSpec

(* A device is bound only while the driver that added it is loaded.        *)
LEMMA UnboundWhenUnloaded ==
  ASSUME SpiInv
  PROVE  \A d \in Drivers : ~Loaded(d) /\ onBus = d => ~claimed
BY DEF SpiInv, BusInv, DeviceIsOwn, BoundIsKnown

(* The variables of both drivers have their types; the semaphores never    *)
(* count beyond 1, although their up is in five places.                    *)
THEOREM SpiTypeCorrect == Spec => []SpiTypeOK
<1>1. SpiInv => SpiTypeOK
  BY DEF SpiInv, BusInv, CanInv, SpikeInv, SpiTypeOK
<1>2. QED
  BY <1>1, SpiInvariant, PTL

(* A driver with a pointer to a device is loaded, and the device is on the *)
(* bus and its own, in every order of loads, unloads, binds and failures.  *)
THEOREM DevicesAreOwn == Spec => []DeviceIsOwn
<1>1. SpiInv => DeviceIsOwn
  BY DEF SpiInv, BusInv
<1>2. QED
  BY <1>1, SpiInvariant, PTL

(* A driver that is not loaded has released what its init functions        *)
(* acquire, all but the receive buffer of can_spi, at whatever step each   *)
(* load of either driver fails; and a device it has left on the bus, which *)
(* it does when it is unloaded while the device is unbound, is bound to    *)
(* nobody.  (What open allocates is not in question: see SpikeMemory.)     *)
THEOREM UnloadedAreReleased == Spec => []UnloadedLetsGo
<1>1. SpiInv => UnloadedLetsGo
  BY UnboundWhenUnloaded DEF SpiInv, BusInv, UnloadedLetsGo
<1>2. QED
  BY <1>1, SpiInvariant, PTL

(* A sleeping reader of the converter is in the queue the handler wakes,   *)
(* for any number of clients, unless open has reset it under a poll.       *)
THEOREM SleepersQueued == Spec => []SleeperQueued
<1>1. SpiInv => SleeperQueued
  BY DEF SpiInv, CanInv, QueueIntact, SleeperQueued
<1>2. QED
  BY <1>1, SpiInvariant, PTL

(* A read that was woken finds a receive buffer.                           *)
THEOREM WokenFindBuffer == Spec => []WokenHasBuffer
<1>1. SpiInv => WokenHasBuffer
  BY DEF SpiInv, CanInv, BufferSet
<1>2. QED
  BY <1>1, SpiInvariant, PTL

(* The memory of the converter's driver is used rightly up to the first    *)
(* close, unless it was loaded onto another driver's device.               *)
THEOREM CanMemory == Spec => []HarmlessUntilClosed
<1>1. SpiInv => HarmlessUntilClosed
  BY DEF SpiInv, CanInv, DamageExplained
<1>2. QED
  BY <1>1, SpiInvariant, PTL

(* The memory of the thermometer's driver is used rightly up to the first  *)
(* sample.                                                                 *)
THEOREM SpikeMemory == Spec => []HarmlessUntilSampled
<1>1. SpiInv => HarmlessUntilSampled
  BY DEF SpiInv, SpikeInv, SampledFirst
<1>2. QED
  BY <1>1, SpiInvariant, PTL

(* No read of the thermometer returns the sample of another read, for any  *)
(* number of users.                                                        *)
THEOREM OwnSample == Spec => []NoForeignSample
<1>1. SpiInv => NoForeignSample
  BY DEF SpiInv, SpikeInv, SampleOwned
<1>2. QED
  BY <1>1, SpiInvariant, PTL

(* The file operations of the converter's driver implement a semaphore     *)
(* that a signal can make them abandon.                                    *)
THEOREM FopIsSemaphore == Spec => CanFopSpec
BY FreeSemaphores, InUseRestricts, PTL

(* Reads, opens and ioctls of the thermometer's driver implement two       *)
(* semaphores that are never abandoned.                                    *)
THEOREM SpikeAreSemaphores == Spec => SpikeSemaphores
BY FreeSemaphores, InUseRestricts, PTL

-----------------------------------------------------------------------------
(* The bound of the run hides nothing: with the files of both drivers open *)
(* at once, their calls interleaved in any way, every invariant and both   *)
(* refinements that the run checks hold as well.                           *)
THEOREM BothInUse ==
  FreeSpec => /\ [](/\ SpiTypeOK /\ DeviceIsOwn /\ UnloadedLetsGo
                    /\ SleeperQueued /\ WokenHasBuffer /\ HarmlessUntilClosed
                    /\ NoForeignSample /\ HarmlessUntilSampled)
              /\ CanFopSpec /\ SpikeSemaphores
<1>1. SpiInv => /\ SpiTypeOK /\ DeviceIsOwn /\ UnloadedLetsGo
                /\ SleeperQueued /\ WokenHasBuffer /\ HarmlessUntilClosed
                /\ NoForeignSample /\ HarmlessUntilSampled
  BY UnboundWhenUnloaded
  DEF SpiInv, BusInv, CanInv, SpikeInv, SpiTypeOK, UnloadedLetsGo, QueueIntact,
      SleeperQueued, BufferSet, DamageExplained, SampledFirst, SampleOwned
<1>2. QED
  BY <1>1, FreeInvariant, FreeSemaphores, PTL

(* A semaphore is taken exactly as long as somebody is between its down    *)
(* and its up.  The converter's is also taken, for good, once a read was   *)
(* interrupted by a signal or killed in its copy: it is lost in no other   *)
(* way, and no failing open, write, read or ioctl of either driver returns *)
(* with a semaphore.                                                       *)
SemaphoresCount ==
  /\ fopSem = 1 <=> ~abandonedSem /\ \A c \in Clients : canPc[c] \notin Inside
  /\ spikeFop = 1 <=> \A u \in Users : spikePc[u] \notin HoldsFop
  /\ spikeSpi = 1 <=> \A u \in Users : spikePc[u] \notin HoldsSpi

(* The three counts are right, for any number of clients and users and     *)
(* with both drivers in use.                                               *)
THEOREM SemaphoresAreNotLost == FreeSpec => []SemaphoresCount
<1>1. SpiInv => SemaphoresCount
  BY DEF SpiInv, CanInv, CanTypeOK, FopExclusive, SpikeInv, SpikeTypeOK,
         SpikeExclusive, SemaphoresCount
<1>2. QED
  BY <1>1, FreeInvariant, PTL

(* In a call of the thermometer's driver u waits for a semaphore, or goes  *)
(* on by himself (the guards of SpikeProgress and SpikeLock).              *)
InSpikeCall(u) == spikePc[u] \notin {"closed", "ready"}
WaitsForSpi(u) == spikePc[u] \in {"fop", "command"} /\ spikeSpi = 0

(* The calls of the thermometer's driver never wait for each other in a    *)
(* circle: a read waits for spi_sem while it holds fop_sem, and whoever    *)
(* waits, for either semaphore, does so while another user is in a call    *)
(* that waits for neither.                                                 *)
NoCircularWait ==
  /\ \A u \in Users : InSpikeCall(u) =>
       \E v \in Users : InSpikeCall(v) /\ ~WaitsForSpi(v)
  /\ spikeFop = 0 => \E v \in Users : InSpikeCall(v) /\ ~WaitsForSpi(v)

(* No set of users of the thermometer's driver is in a deadlock.           *)
THEOREM SpikeNeverStuck == FreeSpec => []NoCircularWait
<1>1. ASSUME SpiInv, NEW u \in Users, InSpikeCall(u)
      PROVE  \E v \in Users : InSpikeCall(v) /\ ~WaitsForSpi(v)
  <2>1. CASE WaitsForSpi(u)
    <3>1. PICK v \in Users : spikePc[v] \in HoldsSpi
      BY <1>1, <2>1 DEF WaitsForSpi, SpiInv, SpikeInv, SpikeExclusive
    <3>2. InSpikeCall(v) /\ ~WaitsForSpi(v)
      BY <3>1 DEF HoldsSpi, InSpikeCall, WaitsForSpi
    <3>3. QED
      BY <3>2
  <2>2. QED
    BY <1>1, <2>1
<1>2. ASSUME SpiInv, spikeFop = 0 PROVE \E u \in Users : InSpikeCall(u)
  BY <1>2 DEF SpiInv, SpikeInv, SpikeExclusive, HoldsFop, InSpikeCall
<1>3. SpiInv => NoCircularWait
  BY <1>1, <1>2 DEF NoCircularWait
<1>4. QED
  BY <1>3, FreeInvariant, PTL
=============================================================================
