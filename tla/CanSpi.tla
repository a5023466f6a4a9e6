------------------------------- MODULE CanSpi -------------------------------
(***************************************************************************)
(* The driver of the analog to digital converter (ifsttar_can_spi.c):      *)
(* file operations that share one semaphore, an asynchronous transfer      *)
(* whose completion handler wakes the blocking read, and the memory they   *)
(* use.                                                                    *)
(*                                                                         *)
(* The completion handler is called by the work queue of the SPI master,   *)
(* so threads run between its statements; a thread is preempted anywhere.  *)
(* down_interruptible is passed when the semaphore is free; a call that    *)
(* waits for it, or is interrupted while it waits, has changed nothing.    *)
(*                                                                         *)
(* Abstractions.  The samples, the length of a transfer and busy, which    *)
(* only decides whether the command "start" resets two counters that no    *)
(* code reads, are left out.                                               *)
(***************************************************************************)
EXTENDS SpiBus

CONSTANT Clients        \* the threads that use /dev/ifsttar_can_spi

VARIABLES
  canPc,        \* where a client is in the file operations
  fopSem,       \* fop_sem
  running,      \* running
  rxbuff,       \* rxbuff points to the receive buffer (not NULL)
  readWait,     \* Read_wait: the clients in the queue
  userBuff,     \* what user_buff points to: null, live or freed memory
  stray,        \* the static spi_device points to a device that was freed
  inFlight,     \* transfers the SPI master has not completed, or Endless
  handler       \* where ifsttar_can_spi_completion_handler is

(* History variables: they record, no action reads them.                   *)
VARIABLES
  abandonedSem, \* a read has left without up
  torn,         \* the queue was initialized while a poll was in it
  closedOnce,   \* a file has been closed
  canDamage     \* memory was used or freed after it was freed, or lost, or
                \* a transfer was in flight when the module was unloaded

flagVars == <<running, rxbuff>>
transferVars == <<stray, inFlight, handler>>
bufferVars == <<userBuff, closedOnce, canDamage>>
queueVars == <<readWait, torn>>
semaphoreVars == <<fopSem, abandonedSem>>
canVars == <<canPc, semaphoreVars, flagVars, queueVars, bufferVars,
             transferVars>>

(* closed: no file; ready: a file, no call; opening, writing: in open and  *)
(* write with the semaphore; check: in read, before the test of running;   *)
(* tosleep: running was not 0; asleep: in the queue; woken: by the         *)
(* handler; copy: before copy_to_user; mark: after up, before running = 1; *)
(* start: in CMD_SPI_START after spi_async; polling: in poll.              *)
Inside == {"opening", "writing", "check", "tosleep", "asleep", "woken", "copy"}
CanPlaces ==
  Inside \cup {"closed", "ready", "mark", "start", "polling"}

(* The master's queue holds the message as its own successor: the master   *)
(* completes it again and again.                                           *)
Endless == 3

CanTypeOK ==
  /\ canPc \in [Clients -> CanPlaces]
  /\ fopSem \in 0 .. 1 /\ abandonedSem \in BOOLEAN
  /\ running \in BOOLEAN /\ rxbuff \in BOOLEAN
  /\ readWait \subseteq Clients /\ torn \in BOOLEAN
  /\ userBuff \in {"null", "live", "freed"}
  /\ closedOnce \in BOOLEAN /\ canDamage \in BOOLEAN
  /\ stray \in BOOLEAN /\ inFlight \in 0 .. Endless
  /\ handler \in {"idle", "wake", "clear"}

(* The static variables of a module that has just been loaded.             *)
CanFresh ==
  /\ fopSem = 1 /\ abandonedSem = FALSE
  /\ running = FALSE /\ rxbuff = FALSE
  /\ readWait = {}
  /\ userBuff = "null"
  /\ inFlight = 0 /\ handler = "idle"

(* The same, after a load or an unload.                                    *)
CanReset ==
  /\ fopSem' = 1 /\ abandonedSem' = FALSE
  /\ running' = FALSE /\ rxbuff' = FALSE
  /\ readWait' = {}
  /\ userBuff' = "null"
  /\ inFlight' = 0 /\ handler' = "idle"

CanInit ==
  /\ BusInit
  /\ CanFresh
  /\ canPc = [c \in Clients |-> "closed"]
  /\ stray = FALSE /\ torn = FALSE
  /\ closedOnce = FALSE /\ canDamage = FALSE

-----------------------------------------------------------------------------
(* Loading and unloading.                                                  *)

(* Variant: the driver stays registered when its device cannot be added.   *)
CanUndone_KeepsDriver(k) == IF k > 6 THEN {} ELSE {"tx_buff"}

(* ifsttar_can_spi_init_error releases tx_buff, never rx_buff.             *)
CanUndone(k) == IF k > 6 THEN {} ELSE {"tx_buff", "driver"}

ifsttar_can_spi_init ==
  \E k \in 1 .. 7 :
    /\ Insmod("can_spi", k, CanUndone(k))
    /\ CanReset
    /\ stray' = (k = 7 /\ onBus # "none")
    /\ torn' = FALSE /\ closedOnce' = FALSE /\ canDamage' = FALSE
    /\ UNCHANGED canPc

(* rmmod of a module without open files.  rx_buff is not released, and     *)
(* user_buff is released although close has done it.                       *)
ifsttar_can_spi_exit ==
  /\ \A c \in Clients : canPc[c] = "closed"
  /\ Rmmod("can_spi", {"cdev", "class", "tx_buff", "driver"})
  /\ CanReset
  /\ canDamage' = (\/ canDamage \/ userBuff = "freed"
                   \/ inFlight > 0 \/ handler # "idle")
  /\ UNCHANGED <<canPc, stray, torn, closedOnce>>

ifsttar_can_spi_probe == Bind("can_spi") /\ UNCHANGED canVars

ifsttar_can_spi_remove == Unbind("can_spi", TRUE) /\ UNCHANGED canVars

-----------------------------------------------------------------------------
CanGoto(c, from, to) == canPc[c] = from /\ canPc' = [canPc EXCEPT ![c] = to]

DownFop(c, from, to) ==
  /\ CanGoto(c, from, to)
  /\ fopSem > 0
  /\ fopSem' = fopSem - 1
  /\ UNCHANGED abandonedSem

UpFop == fopSem' = fopSem + 1 /\ UNCHANGED abandonedSem

-----------------------------------------------------------------------------
(* open, close and write.                                                  *)

(* Variant: open does not take the semaphore.                              *)
OpenEnter_NoDown(c) ==
  /\ Loaded("can_spi")
  /\ CanGoto(c, "closed", "opening")
  /\ UNCHANGED <<busVars, semaphoreVars, flagVars, queueVars, bufferVars,
                 transferVars>>

OpenEnter(c) ==
  /\ Loaded("can_spi")
  /\ DownFop(c, "closed", "opening")
  /\ UNCHANGED <<busVars, flagVars, queueVars, bufferVars, transferVars>>

(* Variant: a buffer is allocated by every open.                           *)
NeedsBuffer_Always(b) == TRUE

NeedsBuffer(b) == b = "null"

(* kmalloc may fail.  A live buffer that is replaced is lost.  The wait    *)
(* queue is initialized by every open.                                     *)
OpenLeave(c) ==
  /\ userBuff' \in IF NeedsBuffer(userBuff) THEN {"live", "null"}
                   ELSE {userBuff}
  /\ canDamage' = (canDamage \/ (NeedsBuffer(userBuff) /\ userBuff = "live"))
  /\ CanGoto(c, "opening", IF userBuff' = "null" THEN "closed" ELSE "ready")
  /\ readWait' = {}
  /\ torn' = (torn \/ \E p \in readWait : canPc[p] = "polling")
  /\ UpFop
  /\ UNCHANGED <<busVars, flagVars, closedOnce, transferVars>>

(* The buffer is freed, the pointer kept.                                  *)
ifsttar_can_spi_close(c) ==
  /\ CanGoto(c, "ready", "closed")
  /\ userBuff' = IF userBuff = "null" THEN "null" ELSE "freed"
  /\ canDamage' = (canDamage \/ userBuff = "freed")
  /\ closedOnce' = TRUE
  /\ UNCHANGED <<busVars, semaphoreVars, flagVars, queueVars, transferVars>>

WriteEnter(c) ==
  /\ DownFop(c, "ready", "writing")
  /\ UNCHANGED <<busVars, flagVars, queueVars, bufferVars, transferVars>>

(* user_buff is cleared and filled; the two commands only reset counters.  *)
WriteLeave(c) ==
  /\ CanGoto(c, "writing", "ready")
  /\ canDamage' = (canDamage \/ userBuff = "freed")
  /\ UpFop
  /\ UNCHANGED <<busVars, flagVars, queueVars, userBuff, closedOnce,
                 transferVars>>

-----------------------------------------------------------------------------
(* read.                                                                   *)
CanReadEnter(c) ==
  /\ DownFop(c, "ready", "check")
  /\ UNCHANGED <<busVars, flagVars, queueVars, bufferVars, transferVars>>

CanReadCheck(c) ==
  /\ CanGoto(c, "check", IF running THEN "tosleep" ELSE "copy")
  /\ UNCHANGED <<busVars, semaphoreVars, flagVars, queueVars, bufferVars,
                 transferVars>>

(* What is left of the queue when c unlinks itself.  If the queue was      *)
(* initialized while c was in it, c writes to the neighbours it had then,  *)
(* which can drop other members or bring pollers back.                     *)
Unlinked(c) ==
  IF c \in readWait
  THEN {readWait \ {c}}
  ELSE SUBSET ((readWait \cup {p \in Clients : canPc[p] = "polling"}) \ {c})

(* interruptible_sleep_on: joins the queue whatever running is by now.     *)
CanReadSleep(c) ==
  /\ CanGoto(c, "tosleep", "asleep")
  /\ readWait' = readWait \cup {c}
  /\ UNCHANGED <<busVars, semaphoreVars, flagVars, torn, bufferVars,
                 transferVars>>

CanReadResume(c) ==
  /\ CanGoto(c, "woken", "copy")
  /\ readWait' \in Unlinked(c)
  /\ UNCHANGED <<busVars, semaphoreVars, flagVars, torn, bufferVars,
                 transferVars>>

(* A signal ends the sleep or is found pending after it: the read returns  *)
(* without up.                                                             *)
CanReadSignal(c) ==
  /\ \E from \in {"asleep", "woken"} : CanGoto(c, from, "ready")
  /\ readWait' \in Unlinked(c)
  /\ abandonedSem' = TRUE
  /\ UNCHANGED <<busVars, fopSem, flagVars, torn, bufferVars, transferVars>>

CanReadCopy(c) ==
  /\ CanGoto(c, "copy", "mark")
  /\ UpFop
  /\ UNCHANGED <<busVars, flagVars, queueVars, bufferVars, transferVars>>

(* Before the first completion rxbuff is NULL.  The copy faults: the       *)
(* process is killed where it is, or copy_to_user reports an error and the *)
(* read goes on as CanReadCopy.                                            *)
CanReadNull(c) ==
  /\ ~rxbuff
  /\ CanGoto(c, "copy", "ready")
  /\ abandonedSem' = TRUE
  /\ UNCHANGED <<busVars, fopSem, flagVars, queueVars, bufferVars,
                 transferVars>>

CanReadMark(c) ==
  /\ CanGoto(c, "mark", "ready")
  /\ running' = TRUE
  /\ UNCHANGED <<busVars, semaphoreVars, rxbuff, queueVars, bufferVars,
                 transferVars>>

-----------------------------------------------------------------------------
(* poll: joins the queue, reports nothing, leaves it after its timeout or  *)
(* a signal.                                                               *)
spi_poll(c) ==
  /\ CanGoto(c, "ready", "polling")
  /\ readWait' = readWait \cup {c}
  /\ UNCHANGED <<busVars, semaphoreVars, flagVars, torn, bufferVars,
                 transferVars>>

PollEnd(c) ==
  /\ CanGoto(c, "polling", "ready")
  /\ readWait' \in Unlinked(c)
  /\ UNCHANGED <<busVars, semaphoreVars, flagVars, torn, bufferVars,
                 transferVars>>

-----------------------------------------------------------------------------
(* The ioctls.  They take no semaphore.                                    *)

(* ifsttar_can_spi_queue_spi_write up to spin_unlock.  The one message is  *)
(* initialized and submitted whether or not it is in flight.  If the       *)
(* master has it in hand, it is completed once or twice; if it is still in *)
(* the queue, linking it again links it to itself, and nothing takes it    *)
(* off any more.                                                           *)
Submitted(n) ==
  CASE n = 0       -> {1}
    [] n \in 1 .. 2 -> {1, 2, Endless}
    [] n = Endless -> {Endless}

(* spi_async may refuse the message.                                       *)
StartSubmit(c) ==
  \/ /\ known["can_spi"]
     /\ CanGoto(c, "ready", "start")
     /\ inFlight' \in Submitted(inFlight)
     /\ UNCHANGED <<busVars, semaphoreVars, flagVars, queueVars,
                    bufferVars, stray, handler>>
  \/ /\ CanGoto(c, "ready", "start")
     /\ UNCHANGED <<busVars, semaphoreVars, flagVars, queueVars,
                    bufferVars, transferVars>>

(* running is set even if nothing was submitted.                           *)
StartMark(c) ==
  /\ CanGoto(c, "start", "ready")
  /\ running' = TRUE
  /\ UNCHANGED <<busVars, semaphoreVars, rxbuff, queueVars, bufferVars,
                 transferVars>>

(* CMD_SPI_FREQUENCY and CMD_SPI_BITS_PER_WORD write to the static         *)
(* spi_device.  The other commands set the length of the next transfer.    *)
SetupDevice(c) ==
  /\ canPc[c] = "ready"
  /\ canDamage' = (canDamage \/ stray)
  /\ UNCHANGED <<busVars, canPc, semaphoreVars, flagVars, queueVars,
                 userBuff, closedOnce, transferVars>>

-----------------------------------------------------------------------------
(* ifsttar_can_spi_completion_handler, called by the SPI master.           *)

(* What is in flight when the master has completed a transfer.             *)
Completed(n) == IF n = Endless THEN Endless ELSE n - 1

(* Variant: rxbuff is not set before the wake-up.                          *)
HandlerEnter_NoBuffer ==
  /\ handler = "idle" /\ inFlight > 0
  /\ inFlight' = Completed(inFlight)
  /\ handler' = "wake"
  /\ UNCHANGED <<busVars, canPc, semaphoreVars, flagVars, queueVars,
                 bufferVars, stray>>

HandlerEnter ==
  /\ handler = "idle" /\ inFlight > 0
  /\ inFlight' = Completed(inFlight)
  /\ rxbuff' = TRUE
  /\ handler' = "wake"
  /\ UNCHANGED <<busVars, canPc, semaphoreVars, running, queueVars,
                 bufferVars, stray>>

(* Variant: wake_up_interruptible is missing.                              *)
HandlerWake_None ==
  /\ handler = "wake"
  /\ handler' = "clear"
  /\ UNCHANGED <<busVars, canPc, semaphoreVars, flagVars, queueVars,
                 bufferVars, stray, inFlight>>

HandlerWake ==
  /\ handler = "wake"
  /\ handler' = "clear"
  /\ canPc' = [c \in Clients |->
                 IF c \in readWait /\ canPc[c] = "asleep" THEN "woken"
                 ELSE canPc[c]]
  /\ UNCHANGED <<busVars, semaphoreVars, flagVars, queueVars, bufferVars,
                 stray, inFlight>>

HandlerClear ==
  /\ handler = "clear"
  /\ handler' = "idle"
  /\ running' = FALSE
  /\ UNCHANGED <<busVars, canPc, semaphoreVars, rxbuff, queueVars,
                 bufferVars, stray, inFlight>>

-----------------------------------------------------------------------------
CompletionHandler == HandlerEnter \/ HandlerWake \/ HandlerClear

CanProgress(c) ==
  \/ OpenLeave(c) \/ WriteLeave(c)
  \/ CanReadCheck(c) \/ CanReadSleep(c) \/ CanReadResume(c)
  \/ CanReadCopy(c) \/ CanReadNull(c) \/ CanReadMark(c)
  \/ StartMark(c)

CanCall(c) ==
  \/ OpenEnter(c) \/ ifsttar_can_spi_close(c)
  \/ WriteEnter(c) \/ CanReadEnter(c) \/ CanReadSignal(c)
  \/ spi_poll(c) \/ PollEnd(c)
  \/ StartSubmit(c) \/ SetupDevice(c)

CanModule ==
  \/ ifsttar_can_spi_init \/ ifsttar_can_spi_exit
  \/ ifsttar_can_spi_probe \/ ifsttar_can_spi_remove

CanThread(c) == CanProgress(c) \/ CanCall(c)

CanNext == CanModule \/ CompletionHandler \/ \E c \in Clients : CanThread(c)

CanSpec == CanInit /\ [][CanNext]_<<busVars, canVars>>

-----------------------------------------------------------------------------
(* fop_sem as the abstract semaphore: the clients inside are the ones      *)
(* between down and up, by their places.                                   *)
CanFop == INSTANCE Semaphore WITH
            Threads <- Clients, MayAbandon <- TRUE,
            inside <- {c \in Clients : canPc[c] \in Inside},
            abandoned <- abandonedSem

(* The file operations implement the semaphore's specification: one client *)
(* at a time is between down and up, and after a read that was interrupted *)
(* by a signal (which returns without up) nobody ever enters again before  *)
(* the module is reloaded.                                                 *)
CanFopSpec == CanFop!SemSpec

(* A reader that sleeps is in the queue that the handler wakes, although   *)
(* every open initializes that queue: open waits for the semaphore, which  *)
(* the sleeper holds.  Only clients in poll, who do not hold it, can be    *)
(* dropped, and drop others in turn.                                       *)
SleeperQueued ==
  ~torn => \A c \in Clients : canPc[c] = "asleep" => c \in readWait

(* A read that was woken finds a buffer: rxbuff is set before the wake-up. *)
(* (A read that did not sleep need not: running is 0 at first.)            *)
WokenHasBuffer == \A c \in Clients : canPc[c] = "woken" => rxbuff

(* Memory is used as long as it lives and freed once until the first       *)
(* close, which frees user_buff and keeps the pointer, unless the module   *)
(* was loaded while another device was on the bus: it then keeps a pointer *)
(* to the device it has freed.                                             *)
HarmlessUntilClosed == canDamage => closedOnce \/ stray

(* Of what its init function acquires, a driver that is not loaded (after  *)
(* an unload or a load that failed) holds nothing but rx_buff.             *)
CanHoldsOnlyRx == ~Loaded("can_spi") => held["can_spi"] \subseteq {"rx_buff"}

(* The handler ends the blocked read: a reader that sleeps while a         *)
(* transfer is in flight returns to its caller.  (One that goes to sleep   *)
(* after the last transfer has completed need not: the test of running and *)
(* the sleep are two steps.)                                               *)
SleeperServed ==
  \A c \in Clients :
    canPc[c] = "asleep" /\ inFlight > 0 /\ ~torn
      ~> canPc[c] = "ready" \/ torn
=============================================================================
