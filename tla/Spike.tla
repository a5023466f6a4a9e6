------------------------------- MODULE Spike --------------------------------
(***************************************************************************)
(* The driver of the LM74 thermometer (spike.c): reads and one ioctl that  *)
(* share two semaphores, one message and its two buffers.  fop_sem         *)
(* excludes reads and opens from each other, spi_sem the transfers; the    *)
(* ioctl takes only the second, and a read goes on using the buffers after *)
(* it has released each.                                                   *)
(*                                                                         *)
(* Abstractions.  The contents of the receive buffer are zero, the sample  *)
(* of one client's read, the answer to a mode command, or a text.  A read  *)
(* at an offset other than 0 returns 0 at once and is left out.            *)
(***************************************************************************)
EXTENDS SpiBus

CONSTANT Users          \* the threads that use /dev/spike

ASSUME UsersAssumption == Users \cap {"zero", "answer", "text"} = {}

VARIABLES
  spikePc,      \* where a user is in the file operations
  spikeFop,     \* spike_dev.fop_sem
  spikeSpi,     \* spike_dev.spi_sem
  spikeUser,    \* what user_buff points to: null, own (128 bytes) or rx
  rxData        \* the contents of rx_buff (4 bytes)

(* History variables: they record, no action reads them.                   *)
VARIABLES
  sampled,      \* a read has got a sample
  spikeDamage   \* memory was overrun, lost, or freed twice

spikeVars == <<spikePc, spikeFop, spikeSpi, spikeUser, rxData, sampled,
               spikeDamage>>

(* closed: no file; ready: a file, no call; opening: in open.              *)
(* fop: in read with fop_sem; transfer: with both; got, failed: after      *)
(* spike_do_one_message; copy: before copy_to_user; clear: after up.       *)
(* command: in the ioctl; setting: with spi_sem; answered, refused: before *)
(* the text is written.                                                    *)
HoldsFop == {"opening", "fop", "transfer", "got", "failed", "copy"}
HoldsSpi == {"transfer", "setting"}
SpikePlaces == HoldsFop \cup HoldsSpi \cup
  {"closed", "ready", "clear", "command", "answered", "refused"}

SpikeTypeOK ==
  /\ spikePc \in [Users -> SpikePlaces]
  /\ spikeFop \in 0 .. 1 /\ spikeSpi \in 0 .. 1
  /\ spikeUser \in {"null", "own", "rx"}
  /\ rxData \in Users \cup {"zero", "answer", "text"}
  /\ sampled \in BOOLEAN /\ spikeDamage \in BOOLEAN

(* The static variables of a module that has just been loaded.             *)
SpikeFresh ==
  /\ spikeFop = 1 /\ spikeSpi = 1
  /\ spikeUser = "null" /\ rxData = "zero"

(* The same, after a load or an unload.                                    *)
SpikeReset ==
  /\ spikeFop' = 1 /\ spikeSpi' = 1
  /\ spikeUser' = "null" /\ rxData' = "zero"

SpikeInit ==
  /\ BusInit
  /\ SpikeFresh
  /\ spikePc = [u \in Users |-> "closed"]
  /\ sampled = FALSE /\ spikeDamage = FALSE

-----------------------------------------------------------------------------
(* Loading and unloading.                                                  *)

SpikeUndone(k) == IF k > 6 THEN {} ELSE {"tx_buff", "rx_buff", "driver"}

spike_init ==
  \E k \in 1 .. 7 :
    /\ Insmod("spike", k, SpikeUndone(k))
    /\ SpikeReset
    /\ sampled' = FALSE /\ spikeDamage' = FALSE
    /\ UNCHANGED spikePc

(* rx_buff and then user_buff are freed: twice the same memory after a     *)
(* sample, and the buffer of open never.                                   *)
spike_exit ==
  /\ \A u \in Users : spikePc[u] = "closed"
  /\ Rmmod("spike", Resources)
  /\ SpikeReset
  /\ spikeDamage' = (spikeDamage \/ spikeUser = "rx")
  /\ UNCHANGED <<spikePc, sampled>>

(* spi_sem is awaited.  A signal ends the wait: probe then fails, and      *)
(* remove leaves the pointer as it is.                                     *)
spike_probe == spikeSpi > 0 /\ Bind("spike") /\ UNCHANGED spikeVars

spike_remove == Unbind("spike", spikeSpi > 0) /\ UNCHANGED spikeVars

-----------------------------------------------------------------------------
SpikeGoto(u, from, to) ==
  spikePc[u] = from /\ spikePc' = [spikePc EXCEPT ![u] = to]

SpikeOpenEnter(u) ==
  /\ Loaded("spike")
  /\ SpikeGoto(u, "closed", "opening")
  /\ spikeFop > 0 /\ spikeFop' = spikeFop - 1
  /\ UNCHANGED <<busVars, spikeSpi, spikeUser, rxData, sampled, spikeDamage>>

(* kmalloc may fail.                                                       *)
SpikeOpenLeave(u) ==
  /\ spikeUser' \in IF spikeUser = "null" THEN {"own", "null"} ELSE {spikeUser}
  /\ SpikeGoto(u, "opening", IF spikeUser' = "null" THEN "closed" ELSE "ready")
  /\ spikeFop' = spikeFop + 1
  /\ UNCHANGED <<busVars, spikeSpi, rxData, sampled, spikeDamage>>

(* The driver has no release operation.                                    *)
SpikeClose(u) ==
  /\ SpikeGoto(u, "ready", "closed")
  /\ UNCHANGED <<busVars, spikeFop, spikeSpi, spikeUser, rxData, sampled,
                 spikeDamage>>

-----------------------------------------------------------------------------
(* A transfer under spi_sem, by a read (from fop) and by the ioctl (from   *)
(* command): the receive buffer is cleared and the transfer runs.          *)
TransferBegin(u, from, to) ==
  /\ SpikeGoto(u, from, to)
  /\ spikeSpi > 0 /\ known["spike"]
  /\ spikeSpi' = spikeSpi - 1
  /\ rxData' = "zero"
  /\ UNCHANGED <<busVars, spikeFop, spikeUser, sampled, spikeDamage>>

(* Variant: the error path keeps the semaphore.                            *)
TransferRefused_NoUp(u, from, to) ==
  /\ SpikeGoto(u, from, to)
  /\ IF spikeSpi > 0 /\ ~known["spike"] THEN spikeSpi' = spikeSpi - 1
     ELSE spikeSpi = 0 /\ UNCHANGED spikeSpi
  /\ UNCHANGED <<busVars, spikeFop, spikeUser, rxData, sampled, spikeDamage>>

(* No device, or a signal while it waits for the semaphore.                *)
TransferRefused(u, from, to) ==
  /\ SpikeGoto(u, from, to)
  /\ spikeSpi > 0 => ~known["spike"]
  /\ UNCHANGED <<busVars, spikeFop, spikeSpi, spikeUser, rxData, sampled,
                 spikeDamage>>

(* spi_sync returns, in success with data or with an error.                *)
TransferEnd(u, from, to, data) ==
  /\ SpikeGoto(u, from, to)
  /\ spikeSpi' = spikeSpi + 1
  /\ rxData' = data
  /\ UNCHANGED <<busVars, spikeFop, spikeUser, sampled, spikeDamage>>

(* sprintf to user_buff: longer than the receive buffer, if that is where  *)
(* the pointer leads.                                                      *)
WriteText ==
  /\ rxData' = IF spikeUser = "rx" THEN "text" ELSE rxData
  /\ spikeDamage' = (spikeDamage \/ spikeUser = "rx")

-----------------------------------------------------------------------------
(* spike_read.                                                             *)

(* Variant: the read does not take fop_sem.                                *)
SpikeReadEnter_NoDown(u) ==
  /\ SpikeGoto(u, "ready", "fop")
  /\ UNCHANGED <<busVars, spikeFop, spikeSpi, spikeUser, rxData, sampled,
                 spikeDamage>>

SpikeReadEnter(u) ==
  /\ SpikeGoto(u, "ready", "fop")
  /\ spikeFop > 0 /\ spikeFop' = spikeFop - 1
  /\ UNCHANGED <<busVars, spikeSpi, spikeUser, rxData, sampled, spikeDamage>>

SpikeReadBegin(u) == TransferBegin(u, "fop", "transfer")

SpikeReadRefused(u) == TransferRefused(u, "fop", "failed")

SpikeReadEnd(u) ==
  \/ TransferEnd(u, "transfer", "got", u)
  \/ TransferEnd(u, "transfer", "failed", rxData)

(* user_buff is made to point to the receive buffer; the memory it pointed *)
(* to is lost.                                                             *)
SpikeReadGot(u) ==
  /\ SpikeGoto(u, "got", "copy")
  /\ spikeUser' = "rx"
  /\ sampled' = TRUE
  /\ spikeDamage' = (spikeDamage \/ spikeUser = "own")
  /\ UNCHANGED <<busVars, spikeFop, spikeSpi, rxData>>

(* Variant: the pointer is set before the result is looked at.             *)
SpikeReadFailed_Aliases(u) ==
  /\ SpikeGoto(u, "failed", "copy")
  /\ spikeUser' = "rx" /\ rxData' = "text" /\ spikeDamage' = TRUE
  /\ UNCHANGED <<busVars, spikeFop, spikeSpi, sampled>>

SpikeReadFailed(u) ==
  /\ SpikeGoto(u, "failed", "copy")
  /\ WriteText
  /\ UNCHANGED <<busVars, spikeFop, spikeSpi, spikeUser, sampled>>

SpikeReadCopy(u) ==
  /\ SpikeGoto(u, "copy", "clear")
  /\ spikeFop' = spikeFop + 1
  /\ UNCHANGED <<busVars, spikeSpi, spikeUser, rxData, sampled, spikeDamage>>

(* The first bytes of both buffers are cleared, without any semaphore.     *)
SpikeReadClear(u) ==
  /\ SpikeGoto(u, "clear", "ready")
  /\ rxData' = "zero"
  /\ UNCHANGED <<busVars, spikeFop, spikeSpi, spikeUser, sampled,
                 spikeDamage>>

-----------------------------------------------------------------------------
(* spike_ioctl, LM74_IOCTL_SET_MODE; any other command changes nothing.    *)
SpikeIoctlEnter(u) ==
  /\ \E to \in {"command", "refused"} : SpikeGoto(u, "ready", to)
  /\ UNCHANGED <<busVars, spikeFop, spikeSpi, spikeUser, rxData, sampled,
                 spikeDamage>>

SpikeIoctlBegin(u) == TransferBegin(u, "command", "setting")

SpikeIoctlRefused(u) == TransferRefused(u, "command", "refused")

SpikeIoctlEnd(u) ==
  \/ TransferEnd(u, "setting", "answered", "answer")
  \/ TransferEnd(u, "setting", "refused", rxData)

SpikeIoctlReport(u) ==
  /\ \E from \in {"answered", "refused"} : SpikeGoto(u, from, "ready")
  /\ WriteText
  /\ UNCHANGED <<busVars, spikeFop, spikeSpi, spikeUser, sampled>>

-----------------------------------------------------------------------------
SpikeLock(u) == SpikeReadBegin(u) \/ SpikeIoctlBegin(u)

(* Without a device the calls go on to their error path by themselves.     *)
SpikeProgress(u) ==
  \/ SpikeOpenLeave(u)
  \/ spikeSpi > 0 /\ SpikeReadRefused(u)
  \/ SpikeReadEnd(u) \/ SpikeReadGot(u) \/ SpikeReadFailed(u)
  \/ SpikeReadCopy(u) \/ SpikeReadClear(u)
  \/ spikeSpi > 0 /\ SpikeIoctlRefused(u)
  \/ SpikeIoctlEnd(u) \/ SpikeIoctlReport(u)

SpikeModule == spike_init \/ spike_exit \/ spike_probe \/ spike_remove

SpikeThread(u) ==
  \/ SpikeOpenEnter(u) \/ SpikeClose(u)
  \/ SpikeReadEnter(u) \/ SpikeReadRefused(u)
  \/ SpikeIoctlEnter(u) \/ SpikeIoctlRefused(u)
  \/ SpikeLock(u) \/ SpikeProgress(u)

SpikeNext == SpikeModule \/ \E u \in Users : SpikeThread(u)

SpikeSpec == SpikeInit /\ [][SpikeNext]_<<busVars, spikeVars>>

-----------------------------------------------------------------------------
(* The two semaphores as abstract ones, by the places of the users.        *)
SpikeFopSem == INSTANCE Semaphore WITH
                 Threads <- Users, MayAbandon <- FALSE,
                 inside <- {u \in Users : spikePc[u] \in HoldsFop},
                 abandoned <- FALSE

SpikeSpiSem == INSTANCE Semaphore WITH
                 Threads <- Users, MayAbandon <- FALSE,
                 inside <- {u \in Users : spikePc[u] \in HoldsSpi},
                 abandoned <- FALSE

(* Reads and opens exclude each other, transfers exclude each other, and   *)
(* no error path of read or ioctl leaves without up.                       *)
SpikeSemaphores == SpikeFopSem!SemSpec /\ SpikeSpiSem!SemSpec

(* A read returns its own sample or none, never the sample of another      *)
(* read: what it copies from the receive buffer is its own sample, zeros   *)
(* (a read that had already released the semaphore has cleared it), or     *)
(* what an ioctl has put there.                                            *)
NoForeignSample ==
  \A u \in Users : spikePc[u] \in {"got", "copy"} => rxData \notin Users \ {u}

(* Memory is written within its bounds and freed once until the first      *)
(* successful read, which replaces user_buff by the receive buffer.        *)
HarmlessUntilSampled == spikeDamage => sampled

(* Of what its init function acquires, a driver that is not loaded holds   *)
(* nothing.  (The buffer of open is another matter: see spikeDamage.)      *)
SpikeHoldsNothing == ~Loaded("spike") => held["spike"] = {}

(* Every read and every ioctl that holds or waits for spi_sem returns.     *)
SpikeReturns ==
  \A u \in Users :
    spikePc[u] \notin {"ready", "closed"} ~> spikePc[u] \in {"ready", "closed"}
=============================================================================
