------------------------------ MODULE ReadWait ------------------------------
(***************************************************************************)
(* The blocking read of the synchronization driver                         *)
(* (ifsttar-synchronization-drv.c, Synchronization_read).                  *)
(*                                                                         *)
(* The two interrupt handlers (real Pps, simulated Pps) announce an event  *)
(* through three shared objects: the flag m_bReadDone, the event kind      *)
(* m_uiReadKind and the wait queue Read_wait.  Every process that reads    *)
(* the device uses the same three objects.  No lock protects them: an      *)
(* interrupt can arrive between any two statements of a read, and on a     *)
(* preemptible kernel so can another read.  Each statement of the read     *)
(* that touches shared state is therefore an action of its own.            *)
(***************************************************************************)
EXTENDS Naturals

CONSTANT Readers        \* the processes that read /dev/synchronization

VARIABLES
  readDone,     \* m_bReadDone : an event has happened and no read took it
  readKind,     \* m_uiReadKind: 0 none, 1 real Pps, 2 simulated Pps
  pc,           \* pc[r]: where reader r is in Synchronization_read
  unreported    \* history: the last event has not been copied to any reader

readVars == <<readDone, readKind, pc, unreported>>

Kinds == {1, 2}

(* idle    : not in a read                                                 *)
(* checked : saw m_bReadDone == 0, has not joined the wait queue yet       *)
(* asleep  : in the wait queue                                             *)
(* woken   : out of schedule(), signal_pending not yet tested              *)
(* take    : before the test-and-clear of m_bReadDone                      *)
(* kind    : before the test of m_uiReadKind                               *)
(* reset   : string copied, m_uiReadKind not yet cleared                   *)
ReaderPlaces == {"idle", "checked", "asleep", "woken", "take", "kind", "reset"}

ReadTypeOK ==
  /\ readDone \in BOOLEAN
  /\ readKind \in {0} \cup Kinds
  /\ pc \in [Readers -> ReaderPlaces]
  /\ unreported \in BOOLEAN

ReadInit ==
  /\ readDone = FALSE
  /\ readKind = 0
  /\ pc = [r \in Readers |-> "idle"]
  /\ unreported = FALSE

-----------------------------------------------------------------------------
(* Variant: wake_up_interruptible is missing.                              *)
Wake_None(p) == p

(* What an interrupt handler does to announce an event: kind, flag, and    *)
(* wake_up_interruptible on every process of the queue.                    *)
Wake(p) == [r \in Readers |-> IF p[r] = "asleep" THEN "woken" ELSE p[r]]

Unlock(kind) ==
  /\ readKind' = kind
  /\ readDone' = TRUE
  /\ pc' = Wake(pc)
  /\ unreported' = TRUE

-----------------------------------------------------------------------------
Goto(r, from, to) == pc[r] = from /\ pc' = [pc EXCEPT ![r] = to]

ReadCheck(r) ==
  /\ Goto(r, "idle", IF readDone THEN "take" ELSE "checked")
  /\ UNCHANGED <<readDone, readKind, unreported>>

(* interruptible_sleep_on: joins the queue whatever m_bReadDone is by now. *)
ReadSleep(r) ==
  /\ Goto(r, "checked", "asleep")
  /\ UNCHANGED <<readDone, readKind, unreported>>

(* A signal ends the sleep, or is found pending after a wake-up.           *)
ReadSignal(r) ==
  /\ \E from \in {"asleep", "woken"} : Goto(r, from, "idle")
  /\ UNCHANGED <<readDone, readKind, unreported>>

ReadResume(r) ==
  /\ Goto(r, "woken", "take")
  /\ UNCHANGED <<readDone, readKind, unreported>>

ReadTake(r) ==
  /\ Goto(r, "take", "kind")
  /\ readDone' = FALSE
  /\ UNCHANGED <<readKind, unreported>>

(* No event kind: the read returns 0 bytes.                                *)
ReadEmpty(r) ==
  /\ readKind = 0
  /\ Goto(r, "kind", "idle")
  /\ UNCHANGED <<readDone, readKind, unreported>>

(* copy_to_user of the string that names the kind of the event.            *)
ReadCopy(r) ==
  /\ readKind # 0
  /\ Goto(r, "kind", "reset")
  /\ unreported' = FALSE
  /\ UNCHANGED <<readDone, readKind>>

(* Variant: the kind is not cleared.                                       *)
ReadReset_KeepsKind(r) ==
  /\ Goto(r, "reset", "idle")
  /\ UNCHANGED <<readDone, readKind, unreported>>

ReadReset(r) ==
  /\ Goto(r, "reset", "idle")
  /\ readKind' = 0
  /\ UNCHANGED <<readDone, unreported>>

(* The steps a read in progress takes by itself.                           *)
ReadProgress(r) ==
  \/ ReadSleep(r) \/ ReadResume(r) \/ ReadTake(r)
  \/ ReadEmpty(r) \/ ReadCopy(r)   \/ ReadReset(r)

ReaderStep(r) == ReadCheck(r) \/ ReadSignal(r) \/ ReadProgress(r)

(* The protocol on its own: events of either kind at any time.             *)
ReadNext ==
  \/ \E kind \in Kinds : Unlock(kind)
  \/ \E r \in Readers : ReaderStep(r)

ReadSpec == ReadInit /\ [][ReadNext]_readVars

(* A process in the kernel is scheduled eventually, and the Pps (real or   *)
(* simulated) never stops for good.  Whether an application calls read,    *)
(* and whether a signal comes, is left open.                               *)
ReadFairness ==
  /\ \A r \in Readers : WF_readVars(ReadProgress(r))
  /\ WF_readVars(\E kind \in Kinds : Unlock(kind))

ReadFairSpec == ReadSpec /\ ReadFairness

-----------------------------------------------------------------------------
(* An event whose flag has been taken is never left behind: if a kind is   *)
(* recorded and m_bReadDone is clear, some reader is between the test of   *)
(* m_bReadDone and the reset of m_uiReadKind, and will deal with it.       *)
NoStrandedEvent ==
  readKind # 0 /\ ~readDone => \E r \in Readers : pc[r] \in {"kind", "reset"}

(* With one reader, an event is reported at most once: when the read is    *)
(* about to copy a kind, that event has not been copied before.            *)
ReportedOnce ==
  \A r \in Readers : pc[r] = "kind" /\ readKind # 0 => unreported

(* Every read returns: no reader sleeps for ever, although the test of     *)
(* m_bReadDone and the sleep are not atomic and the sleep is not in a loop.*)
ReadReturns ==
  \A r \in Readers : pc[r] # "idle" ~> pc[r] = "idle"

(* "send back the reason of why the read has been unlocked : real or       *)
(* simulated Pps" (ifsttar-synchronization-drv.c:1044): a read that was    *)
(* unlocked finds one of the two reasons.                                  *)
ReadGivesReason ==
  \A r \in Readers : pc[r] = "kind" => readKind # 0
=============================================================================
