---------------------------- MODULE CanSpiProofs ----------------------------
(***************************************************************************)
(* The driver of the converter, for any number of clients: an inductive    *)
(* invariant of its steps, and that they are steps of the semaphore.       *)
(* Module SpiDriversProofs carries both to the two drivers together.       *)
(***************************************************************************)
EXTENDS CanSpi, TLAPS

(* No file is open while the module is not loaded.                         *)
CanClosed == ~Loaded("can_spi") => \A c \in Clients : canPc[c] = "closed"

(* What fop_sem counts: it is 1 if and only if nobody is inside and nobody *)
(* has left without up, and one client at most is inside.                  *)
FopExclusive ==
  /\ \A c, d \in Clients : canPc[c] \in Inside /\ canPc[d] \in Inside => c = d
  /\ fopSem = 1 \/ abandonedSem => \A c \in Clients : canPc[c] \notin Inside
  /\ fopSem = 1 => ~abandonedSem
  /\ fopSem = 0 => abandonedSem \/ \E c \in Clients : canPc[c] \in Inside

(* Whoever waits in the queue is in it, until it is initialized under a    *)
(* client in poll.                                                         *)
QueueIntact ==
  ~torn => \A c \in Clients :
             canPc[c] \in {"asleep", "woken", "polling"} => c \in readWait

BufferSet ==
  /\ handler = "wake" => rxbuff
  /\ WokenHasBuffer

(* Transfers are started by clients with an open file; such a file stays   *)
(* open until the first close.                                             *)
DamageExplained ==
  /\ userBuff = "freed" => closedOnce
  /\ inFlight > 0 \/ handler # "idle" =>
       closedOnce \/ \E c \in Clients : canPc[c] \notin {"closed", "opening"}
  /\ HarmlessUntilClosed

CanInv ==
  /\ CanTypeOK /\ CanClosed
  /\ FopExclusive /\ QueueIntact /\ BufferSet /\ DamageExplained

LEMMA CanInitInv == CanInit => CanInv
<1> SUFFICES ASSUME CanInit PROVE CanInv
  OBVIOUS
<1>1. fopSem \in 0 .. 1 /\ inFlight \in 0 .. Endless
  BY DEF CanInit, CanFresh, Endless
<1>2. CanTypeOK
  BY <1>1 DEF CanInit, CanFresh, CanTypeOK, CanPlaces, Inside
<1>3. CanClosed /\ FopExclusive /\ QueueIntact /\ BufferSet /\ DamageExplained
  BY DEF CanInit, CanFresh, Inside, CanClosed, FopExclusive, QueueIntact,
         BufferSet, WokenHasBuffer, DamageExplained, HarmlessUntilClosed
<1>4. QED
  BY <1>2, <1>3 DEF CanInv

(* Loading and unloading happen while no file is open.                     *)
LEMMA CanModuleInv ==
  ASSUME CanInv, CanModule
  PROVE  CanInv'
<1> USE DEF CanInv, CanTypeOK, CanPlaces, Inside, CanClosed, FopExclusive,
        QueueIntact, BufferSet, WokenHasBuffer, DamageExplained,
        HarmlessUntilClosed
<1>1. CASE ifsttar_can_spi_init
  <2>1. PICK k \in 1 .. 7 :
          /\ Insmod("can_spi", k, CanUndone(k))
          /\ stray' = (k = 7 /\ onBus # "none")
    BY <1>1 DEF ifsttar_can_spi_init
  <2>2. ~Loaded("can_spi")
    BY <2>1 DEF Insmod
  <2>3. stray' \in BOOLEAN
    BY <2>1
  <2>4. fopSem' \in 0 .. 1 /\ inFlight' \in 0 .. Endless
    BY <1>1 DEF ifsttar_can_spi_init, CanReset, Endless
  <2>5. CanTypeOK'
    BY <1>1, <2>3, <2>4 DEF ifsttar_can_spi_init, CanReset
  <2>6. /\ CanClosed' /\ FopExclusive' /\ QueueIntact' /\ BufferSet'
        /\ DamageExplained'
    BY <1>1, <2>2 DEF ifsttar_can_spi_init, CanReset
  <2>7. QED
    BY <2>5, <2>6
<1>2. CASE ifsttar_can_spi_exit
  <2>1. fopSem' \in 0 .. 1 /\ inFlight' \in 0 .. Endless
    BY <1>2 DEF ifsttar_can_spi_exit, CanReset, Endless
  <2>2. CanTypeOK'
    BY <1>2, <2>1 DEF ifsttar_can_spi_exit, CanReset
  <2>3. /\ CanClosed' /\ FopExclusive' /\ QueueIntact' /\ BufferSet'
        /\ DamageExplained'
    BY <1>2 DEF ifsttar_can_spi_exit, CanReset
  <2>4. QED
    BY <2>2, <2>3
<1>3. CASE ifsttar_can_spi_probe \/ ifsttar_can_spi_remove
  BY <1>3 DEF ifsttar_can_spi_probe, ifsttar_can_spi_remove, Bind, Unbind,
              Loaded, canVars, semaphoreVars, flagVars, queueVars, bufferVars,
              transferVars
<1>4. QED
  BY <1>1, <1>2, <1>3 DEF CanModule

(* The completion handler sets rxbuff before it wakes the readers.         *)
LEMMA CanHandlerInv ==
  ASSUME CanInv, CompletionHandler
  PROVE  CanInv'
<1> USE DEF CanInv, CanTypeOK, CanPlaces, Inside, CanClosed, FopExclusive,
        QueueIntact, BufferSet, WokenHasBuffer, DamageExplained,
        HarmlessUntilClosed, Loaded, busVars, semaphoreVars, flagVars,
        queueVars, bufferVars
<1>1. CASE HandlerEnter
  <2>1. inFlight' \in 0 .. Endless
    BY <1>1 DEF HandlerEnter, Completed, Endless
  <2>2. QED
    BY <1>1, <2>1 DEF HandlerEnter
<1>2. CASE HandlerWake
  <2>1. \A c \in Clients :
          \/ canPc'[c] = canPc[c]
          \/ canPc[c] = "asleep" /\ canPc'[c] = "woken"
    BY <1>2 DEF HandlerWake
  <2>2. canPc' \in [Clients -> CanPlaces]
    BY <1>2 DEF HandlerWake
  <2>3. /\ handler = "wake" /\ handler' = "clear"
        /\ UNCHANGED <<busVars, semaphoreVars, flagVars, queueVars, bufferVars,
                       stray, inFlight>>
    BY <1>2 DEF HandlerWake
  <2>4. QED
    BY <2>1, <2>2, <2>3
<1>3. CASE HandlerClear
  BY <1>3 DEF HandlerClear
<1>4. QED
  BY <1>1, <1>2, <1>3 DEF CompletionHandler

(* A client that unlinks itself from an intact queue takes out itself.     *)
LEMMA UnlinkedIntact ==
  ASSUME CanInv, NEW c \in Clients,
         canPc[c] \in {"asleep", "woken", "polling"},
         NEW q \in Unlinked(c)
  PROVE  q \subseteq Clients /\ (~torn => q = readWait \ {c})
BY DEF CanInv, CanTypeOK, QueueIntact, Unlinked

(* The steps that calls take by themselves.                                *)
LEMMA CanProgressInv ==
  ASSUME CanInv, NEW c \in Clients, CanProgress(c)
  PROVE  CanInv'
<1> USE DEF CanInv, CanTypeOK, CanPlaces, Inside, CanClosed, FopExclusive,
        QueueIntact, BufferSet, WokenHasBuffer, DamageExplained,
        HarmlessUntilClosed, Loaded, busVars, semaphoreVars, flagVars,
        queueVars, bufferVars, transferVars, CanGoto, UpFop
<1>1. CASE OpenLeave(c)
  <2>1. /\ canPc[c] = "opening" /\ canPc' \in [Clients -> CanPlaces]
        /\ canPc'[c] \in {"closed", "ready"}
        /\ \A d \in Clients \ {c} : canPc'[d] = canPc[d]
    BY <1>1 DEF OpenLeave
  <2>2. /\ userBuff' \in {"null", "live", "freed"}
        /\ userBuff' = "freed" => userBuff = "freed"
        /\ canDamage' = canDamage
    BY <1>1 DEF OpenLeave, NeedsBuffer
  <2>3. /\ fopSem' = 1 /\ abandonedSem' = FALSE
        /\ fopSem' \in 0 .. 1
    BY <1>1, <2>1 DEF OpenLeave
  <2>4. /\ readWait' = {} /\ torn' \in BOOLEAN
        /\ ~torn' => ~torn /\ \A d \in readWait : canPc[d] # "polling"
        /\ UNCHANGED <<busVars, flagVars, closedOnce, transferVars>>
    BY <1>1 DEF OpenLeave
  <2>5. CanTypeOK' /\ CanClosed'
    BY <2>1, <2>2, <2>3, <2>4
  <2>6. FopExclusive' /\ QueueIntact' /\ BufferSet'
    BY <2>1, <2>3, <2>4
  <2>7. DamageExplained'
    BY <2>1, <2>2, <2>4
  <2>8. QED
    BY <2>5, <2>6, <2>7
<1>2. CASE WriteLeave(c)
  BY <1>2 DEF WriteLeave
<1>3. CASE CanReadCheck(c)
  BY <1>3 DEF CanReadCheck
<1>4. CASE CanReadSleep(c)
  BY <1>4 DEF CanReadSleep
<1>5. CASE CanReadResume(c)
  <2>1. readWait' \subseteq Clients /\ (~torn => readWait' = readWait \ {c})
    BY <1>5, UnlinkedIntact DEF CanReadResume
  <2>2. QED
    BY <1>5, <2>1 DEF CanReadResume
<1>6. CASE CanReadCopy(c)
  BY <1>6 DEF CanReadCopy
<1>7. CASE CanReadNull(c)
  BY <1>7 DEF CanReadNull
<1>8. CASE CanReadMark(c)
  BY <1>8 DEF CanReadMark
<1>9. CASE StartMark(c)
  BY <1>9 DEF StartMark
<1>10. QED
  BY <1>1, <1>2, <1>3, <1>4, <1>5, <1>6, <1>7, <1>8, <1>9 DEF CanProgress

(* The calls, and signals.                                                 *)
LEMMA CanCallInv ==
  ASSUME CanInv, NEW c \in Clients, CanCall(c)
  PROVE  CanInv'
<1> USE DEF CanInv, CanTypeOK, CanPlaces, Inside, CanClosed, FopExclusive,
        QueueIntact, BufferSet, WokenHasBuffer, DamageExplained,
        HarmlessUntilClosed, Loaded, busVars, semaphoreVars, flagVars,
        queueVars, bufferVars, transferVars, CanGoto, DownFop
<1>1. CASE OpenEnter(c)
  BY <1>1 DEF OpenEnter
<1>2. CASE ifsttar_can_spi_close(c)
  BY <1>2 DEF ifsttar_can_spi_close
<1>3. CASE WriteEnter(c)
  BY <1>3 DEF WriteEnter
<1>4. CASE CanReadEnter(c)
  BY <1>4 DEF CanReadEnter
<1>5. CASE CanReadSignal(c)
  <2>1. readWait' \subseteq Clients /\ (~torn => readWait' = readWait \ {c})
    BY <1>5, UnlinkedIntact DEF CanReadSignal
  <2>2. QED
    BY <1>5, <2>1 DEF CanReadSignal
<1>6. CASE spi_poll(c)
  BY <1>6 DEF spi_poll
<1>7. CASE PollEnd(c)
  <2>1. readWait' \subseteq Clients /\ (~torn => readWait' = readWait \ {c})
    BY <1>7, UnlinkedIntact DEF PollEnd
  <2>2. QED
    BY <1>7, <2>1 DEF PollEnd
<1>8. CASE StartSubmit(c)
  <2>1. inFlight' \in 0 .. Endless
    BY <1>8 DEF StartSubmit, Submitted, Endless
  <2>2. QED
    BY <1>8, <2>1 DEF StartSubmit
<1>9. CASE SetupDevice(c)
  BY <1>9 DEF SetupDevice
<1>10. QED
  BY <1>1, <1>2, <1>3, <1>4, <1>5, <1>6, <1>7, <1>8, <1>9 DEF CanCall

LEMMA CanStepInv ==
  ASSUME CanInv, CanNext
  PROVE  CanInv'
BY CanModuleInv, CanHandlerInv, CanProgressInv, CanCallInv
DEF CanNext, CanThread

-----------------------------------------------------------------------------
(* The semaphore.  A step that keeps every client on its side of it, and   *)
(* no client leaves without up, changes nothing of the abstract one.       *)
LEMMA FopStutter ==
  ASSUME \A d \in Clients : (canPc'[d] \in Inside) <=> (canPc[d] \in Inside),
         UNCHANGED abandonedSem
  PROVE  UNCHANGED CanFop!semVars
BY DEF CanFop!semVars

(* A client that enters finds nobody inside: fop_sem was 1.                *)
LEMMA FopEnters ==
  ASSUME CanInv, NEW c \in Clients, NEW from \in CanPlaces \ Inside,
         NEW to \in Inside, DownFop(c, from, to)
  PROVE  CanFop!Down(c)
<1>1. fopSem = 1
  BY DEF CanInv, CanTypeOK, DownFop
<1>2. \A d \in Clients : canPc[d] \notin Inside
  BY <1>1 DEF CanInv, FopExclusive
<1>3. ~abandonedSem /\ UNCHANGED abandonedSem
  BY <1>1 DEF CanInv, FopExclusive, DownFop
<1>4. \A d \in Clients : (canPc'[d] \in Inside) <=> d = c
  BY <1>2 DEF CanInv, CanTypeOK, DownFop, CanGoto
<1>5. QED
  BY <1>2, <1>3, <1>4 DEF CanFop!Down

(* A client that leaves was the only one inside.                           *)
LEMMA FopLeaves ==
  ASSUME CanInv, NEW c \in Clients, canPc[c] \in Inside,
         NEW to \in CanPlaces \ Inside, canPc' = [canPc EXCEPT ![c] = to],
         UNCHANGED abandonedSem \/ abandonedSem' = TRUE
  PROVE  CanFop!Up(c) \/ CanFop!Abandon(c)
<1>1. \A d \in Clients : (canPc[d] \in Inside) <=> d = c
  BY DEF CanInv, FopExclusive
<1>2. \A d \in Clients : canPc'[d] \notin Inside
  BY <1>1 DEF CanInv, CanTypeOK
<1>3. CASE UNCHANGED abandonedSem
  BY <1>1, <1>2, <1>3 DEF CanFop!Up
<1>4. CASE abandonedSem' = TRUE
  BY <1>1, <1>2, <1>4 DEF CanFop!Abandon
<1>5. QED
  BY <1>3, <1>4

(* Every step of the driver is a step of the abstract semaphore or leaves  *)
(* it alone.                                                               *)
LEMMA FopStep ==
  ASSUME CanInv, CanNext
  PROVE  [CanFop!SemNext]_(CanFop!semVars)
<1> USE DEF Inside, CanPlaces
<1>1. CASE CanModule
  <2>1. CASE ifsttar_can_spi_init \/ ifsttar_can_spi_exit
    <3>1. \A c \in Clients : canPc[c] = "closed" /\ canPc'[c] = "closed"
      BY <2>1 DEF ifsttar_can_spi_init, ifsttar_can_spi_exit, Insmod, CanInv,
                  CanClosed
    <3>2. abandonedSem' = FALSE
      BY <2>1 DEF ifsttar_can_spi_init, ifsttar_can_spi_exit, CanReset
    <3>3. CanFop!Reinit
      BY <3>1, <3>2 DEF CanFop!Reinit
    <3>4. QED
      BY <3>3 DEF CanFop!SemNext
  <2>2. CASE ifsttar_can_spi_probe \/ ifsttar_can_spi_remove
    BY <2>2, FopStutter DEF ifsttar_can_spi_probe, ifsttar_can_spi_remove,
                            canVars, semaphoreVars
  <2>3. QED
    BY <1>1, <2>1, <2>2 DEF CanModule
<1>2. CASE CompletionHandler
  <2>1. /\ \A d \in Clients : (canPc'[d] \in Inside) <=> (canPc[d] \in Inside)
        /\ UNCHANGED abandonedSem
    BY <1>2 DEF CompletionHandler, HandlerEnter, HandlerWake, HandlerClear,
                semaphoreVars, CanInv, CanTypeOK
  <2>2. QED
    BY <2>1, FopStutter
<1>3. ASSUME NEW c \in Clients, CanThread(c)
      PROVE  [CanFop!SemNext]_(CanFop!semVars)
  <2>1. CASE OpenEnter(c) \/ WriteEnter(c) \/ CanReadEnter(c)
    <3>1. CanFop!Down(c)
      BY <2>1, FopEnters DEF OpenEnter, WriteEnter, CanReadEnter
    <3>2. QED
      BY <3>1 DEF CanFop!SemNext
  <2>2. CASE \/ OpenLeave(c) \/ WriteLeave(c) \/ CanReadCopy(c)
             \/ CanReadNull(c) \/ CanReadSignal(c)
    <3>1. /\ canPc[c] \in Inside
          /\ \E to \in CanPlaces \ Inside : canPc' = [canPc EXCEPT ![c] = to]
      BY <2>2 DEF OpenLeave, WriteLeave, CanReadCopy, CanReadNull,
                  CanReadSignal, CanGoto
    <3>2. UNCHANGED abandonedSem \/ abandonedSem' = TRUE
      BY <2>2 DEF OpenLeave, WriteLeave, CanReadCopy, CanReadNull,
                  CanReadSignal, UpFop
    <3>3. CanFop!Up(c) \/ CanFop!Abandon(c)
      BY <3>1, <3>2, FopLeaves
    <3>4. QED
      BY <3>3 DEF CanFop!SemNext
  <2>3. CASE \/ CanReadCheck(c) \/ CanReadSleep(c) \/ CanReadResume(c)
             \/ CanReadMark(c) \/ StartMark(c)
    <3>1. /\ \A d \in Clients :
               (canPc'[d] \in Inside) <=> (canPc[d] \in Inside)
          /\ UNCHANGED abandonedSem
      BY <2>3 DEF CanReadCheck, CanReadSleep, CanReadResume, CanReadMark,
                  StartMark, CanGoto, semaphoreVars, CanInv, CanTypeOK
    <3>2. QED
      BY <3>1, FopStutter
  <2>4. CASE \/ ifsttar_can_spi_close(c) \/ spi_poll(c) \/ PollEnd(c)
             \/ StartSubmit(c) \/ SetupDevice(c)
    <3>1. /\ \A d \in Clients :
               (canPc'[d] \in Inside) <=> (canPc[d] \in Inside)
          /\ UNCHANGED abandonedSem
      BY <2>4 DEF ifsttar_can_spi_close, spi_poll, PollEnd, StartSubmit,
                  SetupDevice, CanGoto, semaphoreVars, CanInv, CanTypeOK
    <3>2. QED
      BY <3>1, FopStutter
  <2>5. QED
    BY <1>3, <2>1, <2>2, <2>3, <2>4 DEF CanThread, CanProgress, CanCall
<1>4. QED
  BY <1>1, <1>2, <1>3 DEF CanNext
=============================================================================
