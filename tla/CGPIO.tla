------------------------------- MODULE CGPIO --------------------------------
(***************************************************************************)
(* The class CGPIO over one gpio of the driver: an object in Input/Output  *)
(* mode reads and writes the pin; one in interrupt mode runs a thread that *)
(* polls the driver, reads the event and calls the registered callbacks.   *)
(*                                                                         *)
(* The thread is launched through a local variable that hides the member   *)
(* m_oThreadEvent: it is detached when RegisterCallback returns, and every *)
(* join() of the class waits for nothing.  So an old thread may be alive   *)
(* when the next one is launched, and when the object is destroyed.        *)
(*                                                                         *)
(* The methods are called by one thread of the program, as the programs of *)
(* this repository do, and not by the callbacks as well, so each is one    *)
(* action: the class has no lock, and a method that two threads call at    *)
(* once, which nothing forbids, is outside this module.  What the driver   *)
(* does with one gpio is modelled as far as the class sees it; module Gpio *)
(* models the driver.                                                      *)
(*                                                                         *)
(* Abstractions.  Values of the pin, dates and user pointers are left out. *)
(* Threads bounds how many threads are alive at once, Callbacks how many   *)
(* functions are connected at once.                                        *)
(***************************************************************************)
CONSTANTS
  Threads,      \* names for the event threads
  Callbacks     \* names for connections: each registration makes one

(* The object. *)
VARIABLES
  mode,         \* m_iMode: IO, IT, or gone (the object is destroyed)
  direction,    \* m_iDirection
  fd,           \* m_fd: none (negative), open, or closed behind its back
  running,      \* m_bThreadRunning
  slots,        \* the connections of m_oSigOnGpioEvent
  pc            \* where a thread is in OnGpioEvent

(* The driver's table entry. *)
VARIABLES
  bIsOpened, bDirection, bDone,
  armed,        \* its interrupt handler is registered
  orphan        \* the descriptor was closed while a thread used its file

(* History variables: they record, no action reads them. *)
VARIABLES
  byHand,       \* a callback was disconnected by its connection
  rushed,       \* the first callback was registered, or the gpio opened,
                \* before the previous thread had ended
  asked,        \* the methods among Read and Write that were called
  refused       \* one of them failed because of the direction

objectVars == <<mode, direction, running, slots>>
fileVars == <<bIsOpened, armed, orphan>>
driverVars == <<fileVars, bDirection>>
historyVars == <<byHand, rushed, asked, refused>>
vars == <<objectVars, fd, pc, driverVars, bDone, historyVars>>

(* none: no thread; poll: before poll; polling: in it, on an open          *)
(* descriptor; read: before read; blocked: in Gpio_read; take: there,      *)
(* before bDone = 0; call: before the callbacks; delete: before the CEvent *)
(* goes; check: before the test of the flag.                               *)
InRead == {"blocked", "take"}

(* The system calls that hold a reference to the file.                     *)
InFile == InRead \cup {"polling"}
Places == InFile \cup {"none", "poll", "read", "call", "delete", "check"}

Alive == {t \in Threads : pc[t] # "none"}

(* The variables of an object and its driver have their types.             *)
TypeOK ==
  /\ mode \in {"IO", "IT", "gone"}
  /\ direction \in {"INPUT", "OUTPUT"} /\ bDirection \in {"INPUT", "OUTPUT"}
  /\ fd \in {"none", "open", "closed"}
  /\ slots \subseteq Callbacks
  /\ pc \in [Threads -> Places]
  /\ running \in BOOLEAN /\ bIsOpened \in BOOLEAN /\ bDone \in BOOLEAN
  /\ armed \in BOOLEAN /\ orphan \in BOOLEAN
  /\ byHand \in BOOLEAN /\ rushed \in BOOLEAN /\ refused \in BOOLEAN
  /\ asked \subseteq {"Read", "Write"}

(* The two constructors.                                                   *)
Constructed(m, d, f, r, s) ==
  /\ \/ m = "IO" /\ d \in {"INPUT", "OUTPUT"}
     \/ m = "IT" /\ d = "INPUT"
  /\ f = "none" /\ r = FALSE /\ s = {}

Init ==
  /\ mode \in {"IO", "IT"} /\ direction \in {"INPUT", "OUTPUT"}
  /\ fd = "none" /\ running = FALSE /\ slots = {}
  /\ Constructed(mode, direction, fd, running, slots)
  /\ pc = [t \in Threads |-> "none"]
  /\ bIsOpened = FALSE /\ bDirection = "INPUT" /\ bDone = FALSE
  /\ armed = FALSE /\ orphan = FALSE
  /\ byHand = FALSE /\ rushed = FALSE /\ asked = {} /\ refused = FALSE

-----------------------------------------------------------------------------
(* The driver.                                                             *)

(* GpioIrqHandler: an event.                                               *)
Event ==
  /\ armed
  /\ bDone' = TRUE
  /\ UNCHANGED <<objectVars, fd, pc, driverVars, historyVars>>

(* The descriptor is closed, or a poll or read after that returns.         *)
(* Gpio_close is called when the last reference is gone: none of users is  *)
(* in a poll or a read.                                                    *)
Close(users) ==
  LET used == \E t \in users : pc[t] \in InFile
  IN /\ orphan' = used
     /\ bIsOpened' = used
     /\ armed' = (armed /\ used)

-----------------------------------------------------------------------------
(* Open.                                                                   *)

(* The driver refuses a gpio that is open.  m_fd is overwritten.           *)
OpenFails ==
  /\ mode # "gone"
  /\ fd' = "none"
  /\ UNCHANGED <<objectVars, pc, driverVars, bDone, historyVars>>

(* In interrupt mode the configuration may fail: the descriptor stays open *)
(* and no handler is registered.  Setting the direction of a booked pin is *)
(* assumed not to fail.                                                    *)
OpenSucceeds ==
  /\ mode # "gone" /\ ~bIsOpened
  /\ fd' = "open"
  /\ bIsOpened' = TRUE /\ bDone' = FALSE
  /\ bDirection' = IF mode = "IO" THEN direction ELSE "INPUT"
  /\ orphan' = FALSE
  /\ armed' \in IF mode = "IT" THEN BOOLEAN ELSE {FALSE}
  /\ rushed' = (rushed \/ Alive # {})
  /\ UNCHANGED <<objectVars, pc, byHand, asked, refused>>

(* Read and Write: they set the direction of the pin if the one the object *)
(* was constructed with is the wrong one; m_iDirection never changes.  The *)
(* driver refuses a call in the wrong direction.                           *)

(* Variant: the direction is set when the object already has it.           *)
ReadDirection_Swapped ==
  IF direction = "INPUT" THEN "INPUT" ELSE bDirection

ReadDirection == IF direction = "OUTPUT" THEN "INPUT" ELSE bDirection

WriteDirection == IF direction = "INPUT" THEN "OUTPUT" ELSE bDirection

Access(method, set, needed) ==
  /\ mode = "IO" /\ fd = "open"
  /\ bDirection' = set
  /\ asked' = asked \cup {method}
  /\ refused' = (refused \/ set # needed)
  /\ UNCHANGED <<objectVars, fd, pc, fileVars, bDone, byHand, rushed>>

Read == Access("Read", ReadDirection, "INPUT")
Write == Access("Write", WriteDirection, "OUTPUT")

-----------------------------------------------------------------------------
(* OnGpioEvent.                                                            *)
Goto(t, from, to) == pc[t] = from /\ pc' = [pc EXCEPT ![t] = to]

(* A descriptor that is closed is reported ready (POLLNVAL) at once, a     *)
(* negative one is ignored until the timeout.                              *)
PollCalled(t) ==
  /\ Goto(t, "poll", CASE fd = "open" -> "polling"
                       [] fd = "closed" -> "read"
                       [] fd = "none" -> "check")
  /\ UNCHANGED <<objectVars, fd, driverVars, bDone, historyVars>>

(* The reference to the file is given back: the last one closes an orphan. *)
LeaveFile(t) == IF orphan THEN Close(Threads \ {t}) ELSE UNCHANGED fileVars

(* Variant: the poll's result is not looked at.                            *)
Ready_Always == TRUE

(* The poll ends with an event, or at the timeout, when it looks again and *)
(* finds a descriptor that was closed in between not to be one.            *)
Ready == bDone \/ orphan

PollReturns(t) ==
  /\ Goto(t, "polling", IF Ready THEN "read" ELSE "check")
  /\ LeaveFile(t)
  /\ UNCHANGED <<objectVars, fd, bDirection, bDone, historyVars>>

(* read fails on a descriptor that is not open.                            *)
ReadCalled(t) ==
  /\ Goto(t, "read", IF fd = "open" THEN "blocked" ELSE "call")
  /\ UNCHANGED <<objectVars, fd, driverVars, bDone, historyVars>>

ReadUnlocks(t) ==
  /\ Goto(t, "blocked", "take")
  /\ bDone
  /\ UNCHANGED <<objectVars, fd, driverVars, bDone, historyVars>>

ReadReturns(t) ==
  /\ Goto(t, "take", "call")
  /\ bDone' = FALSE
  /\ LeaveFile(t)
  /\ UNCHANGED <<objectVars, fd, bDirection, historyVars>>

(* The callbacks return in the end.                                        *)
CallsCallbacks(t) ==
  /\ Goto(t, "call", "delete")
  /\ UNCHANGED <<objectVars, fd, driverVars, bDone, historyVars>>

(* ~CEvent closes m_iSynchronizationFd, which the constructor that takes   *)
(* the driver's data does not initialize: nothing that matters here is     *)
(* closed, or the gpio is.                                                 *)
DeletesEvent(t) ==
  /\ Goto(t, "delete", "check")
  /\ \/ UNCHANGED <<fd, fileVars>>
     \/ fd = "open" /\ fd' = "closed" /\ Close(Threads)
  /\ UNCHANGED <<objectVars, bDirection, bDone, historyVars>>

(* Variant: the loop is left when the flag is set.                         *)
ChecksFlag_Inverted(t) ==
  /\ \/ ~running /\ Goto(t, "check", "poll")
     \/ running /\ Goto(t, "check", "none")
  /\ UNCHANGED <<objectVars, fd, driverVars, bDone, historyVars>>

(* A destroyed object's flag reads as anything.                            *)
ChecksFlag(t) ==
  /\ \/ (running \/ mode = "gone") /\ Goto(t, "check", "poll")
     \/ (~running \/ mode = "gone") /\ Goto(t, "check", "none")
  /\ UNCHANGED <<objectVars, fd, driverVars, bDone, historyVars>>

ThreadStep(t) ==
  \/ PollCalled(t) \/ PollReturns(t)
  \/ ReadCalled(t) \/ ReadUnlocks(t) \/ ReadReturns(t)
  \/ CallsCallbacks(t) \/ DeletesEvent(t) \/ ChecksFlag(t)

-----------------------------------------------------------------------------
(* Registering and unregistering.                                          *)

Launching == slots = {}

(* The thread it would stop belongs to callbacks that were disconnected by *)
(* hand.                                                                   *)
RegisterRefused ==
  /\ mode = "IT" /\ slots = {} /\ running
  /\ running' = FALSE
  /\ UNCHANGED <<mode, direction, slots, fd, pc, driverVars, bDone, historyVars>>

RegisterCallback(f) ==
  /\ mode = "IT" /\ (slots = {} => ~running) /\ f \notin slots
  /\ slots' = slots \cup {f}
  /\ running' = (running \/ Launching)
  /\ rushed' = (rushed \/ (slots = {} /\ Alive # {}))
  /\ IF Launching THEN \E t \in Threads : Goto(t, "none", "poll")
     ELSE UNCHANGED pc
  /\ UNCHANGED <<mode, direction, fd, driverVars, bDone, byHand, asked, refused>>

(* Variant: the flag is left alone.                                        *)
UnregisterCallback_Running(f) ==
  /\ mode = "IT" /\ f \in slots
  /\ slots' = slots \ {f}
  /\ UNCHANGED <<mode, direction, running, fd, pc, driverVars, bDone,
                 historyVars>>

(* Without f among the connected functions nothing changes.                *)
UnregisterCallback(f) ==
  /\ mode = "IT" /\ f \in slots
  /\ slots' = slots \ {f}
  /\ running' = (running /\ slots' # {})
  /\ UNCHANGED <<mode, direction, fd, pc, driverVars, bDone, historyVars>>

UnregisterAllCallbacks ==
  /\ mode = "IT" /\ slots # {}
  /\ slots' = {} /\ running' = FALSE
  /\ UNCHANGED <<mode, direction, fd, pc, driverVars, bDone, historyVars>>

(* The program calls disconnect of a connection it got from GetLastFctId.  *)
Disconnect(f) ==
  /\ f \in slots
  /\ slots' = slots \ {f}
  /\ byHand' = TRUE
  /\ UNCHANGED <<mode, direction, running, fd, pc, driverVars, bDone, rushed,
                 asked, refused>>

(* ~CGPIO: without connected functions the flag is not changed.            *)
Destroy ==
  /\ mode # "gone"
  /\ mode' = "gone" /\ slots' = {}
  /\ running' = (running /\ (mode = "IO" \/ slots = {}))
  /\ IF fd = "open" THEN fd' = "closed" /\ Close(Threads)
     ELSE UNCHANGED <<fd, fileVars>>
  /\ UNCHANGED <<direction, pc, bDirection, bDone, historyVars>>

(* The process exits, and the kernel closes what it had open.              *)
ProcessExits ==
  /\ mode' = "gone" /\ slots' = {} /\ running' = FALSE /\ fd' = "none"
  /\ pc' = [t \in Threads |-> "none"]
  /\ bIsOpened' = FALSE /\ armed' = FALSE /\ orphan' = FALSE
  /\ UNCHANGED <<direction, bDirection, bDone, historyVars>>

(* A new object, when the threads of the old one have ended.               *)
Construct ==
  /\ mode = "gone" /\ Alive = {}
  /\ mode' \in {"IO", "IT"} /\ direction' \in {"INPUT", "OUTPUT"}
  /\ fd' = "none" /\ running' = FALSE /\ slots' = {}
  /\ Constructed(mode', direction', fd', running', slots')
  /\ byHand' = FALSE /\ rushed' = FALSE /\ asked' = {} /\ refused' = FALSE
  /\ UNCHANGED <<pc, driverVars, bDone>>

-----------------------------------------------------------------------------
Next ==
  \/ Event
  \/ OpenFails \/ OpenSucceeds \/ Read \/ Write
  \/ RegisterRefused \/ UnregisterAllCallbacks
  \/ \E f \in Callbacks :
       RegisterCallback(f) \/ UnregisterCallback(f) \/ Disconnect(f)
  \/ Destroy \/ Construct \/ ProcessExits
  \/ \E t \in Threads : ThreadStep(t)

Spec == Init /\ [][Next]_vars

(* Threads are scheduled, callbacks return, and events keep happening.     *)
Fairness == WF_vars(Event) /\ \A t \in Threads : WF_vars(ThreadStep(t))

FairSpec == Spec /\ Fairness

-----------------------------------------------------------------------------
(* The flag says whether functions are connected, so the error "the thread *)
(* is already launched while no callbacks are connected" is only met by a  *)
(* program that disconnects a callback by its connection.                  *)
RunningIffConnected ==
  mode # "gone" /\ ~byHand => (running <=> slots # {})

(* While the flag of a living object is set there is a thread, although    *)
(* nothing waits for the old one to end, and a registration may set the    *)
(* flag again before the old one has looked at it, or after.               *)
AlwaysServed == mode # "gone" /\ running => Alive # {}

(* "Launch the poll (which remplace a blockinck reading)": the read after  *)
(* the poll finds its event and does not block, as long as the thread is   *)
(* the only one.                                                           *)
PollReplacesRead ==
  ~rushed => \A t \in Threads : pc[t] \in {"read"} \cup InRead /\ fd = "open"
                                  => bDone

(* A call of Read or Write is refused for its direction only if the object *)
(* is used in both: setting the direction leaves m_iDirection as it was.   *)
OneWayNeverRefused == refused => asked = {"Read", "Write"}

(* While callbacks are registered, every event that the driver has         *)
(* recorded is fetched: there is always a thread, also after any sequence  *)
(* of registrations and unregistrations.                                   *)
EventFetched ==
  running /\ fd = "open" /\ bDone
    ~> ~bDone \/ ~running \/ fd # "open" \/ mode = "gone"

(* A thread that was told to stop ends, if it is not told otherwise before *)
(* it looks, even if another one has fetched the event it waited for.      *)
ThreadsEnd ==
  <>[](~running /\ mode = "IT" /\ armed) => <>[](Alive = {})
=============================================================================
