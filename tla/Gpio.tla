-------------------------------- MODULE Gpio --------------------------------
(***************************************************************************)
(* The gpio driver (ifsttar-gpio-drv.c): one table of attributes, the pin  *)
(* multiplexer, the kernel's booking of pins and its interrupt handlers,   *)
(* and the blocking read that every gpio's reader shares.                  *)
(*                                                                         *)
(* The kernel is preemptible with one core.  One application opens,        *)
(* configures and closes the gpios from one thread; each open gpio has one *)
(* event thread, which reads it and asks for the date of its last event,   *)
(* as class CGPIO does.  Local variables of the driver are declared        *)
(* static: the variable minor of Gpio_read is shared by all reads, the one *)
(* of Gpio_ioctl by all ioctls.  Gpio_open and Gpio_close are called from  *)
(* one thread, on a gpio no other thread uses, so each is one action; the  *)
(* reads and ioctls are cut where what they share can change.              *)
(*                                                                         *)
(* Abstractions.  A gpio has one multiplexer register.  The value of a     *)
(* pin, the date of its last event, the trigger and the debounce delay are *)
(* left out: an answer of a read is the gpio whose value it holds.         *)
(***************************************************************************)
CONSTANTS
  Gpios,            \* the minors
  Minor0,           \* minor 0: what a static variable holds at first
  Contended,        \* the pins that the rest of the kernel books as well
  Faulty,           \* the pins on which calls of the kernel may fail
  SerialIoctls      \* event threads wait for the configuring thread's ioctl

ASSUME GpioAssumption ==
  /\ Minor0 \in Gpios
  /\ Contended \subseteq Gpios /\ Faulty \subseteq Gpios
  /\ SerialIoctls \in BOOLEAN

VARIABLES
  opened,       \* bIsOpened
  mode,         \* bMode: "IO", "IT", or "none" for the abstract mode 0
  done,         \* bDone
  previous,     \* uiPreviousMode
  default,      \* uiDefaultMode
  mux,          \* the multiplexer register of the pin
  booked,       \* for whom the pin is booked: driver, other, nobody
  claimed,      \* the rest of the kernel has booked and not yet freed the pin
  irq,          \* GpioIrqHandler is registered for the pin
  readMinor,    \* static minor of Gpio_read
  ioctlMinor,   \* static minor of Gpio_ioctl
  pc,           \* pc[g]: where the event thread of g is in Gpio_read
  ctl,          \* where the configuring thread is in Gpio_ioctl
  faulted,      \* history: an open of g failed or a register was not mapped
  usurped       \* history: the driver freed the pin while another had it booked

muxVars == <<previous, default, mux, faulted>>
bookVars == <<booked, claimed, usurped>>
pinVars == <<opened, mode, irq, muxVars, bookVars>>
vars == <<pinVars, done, readMinor, ioctlMinor, pc, ctl>>

Modes == {"none", "IO", "IT"}
MuxModes == {"native", "gpio", "safe"}

(* loop: before the test of bDone; checked: bDone was 0, not yet asleep;   *)
(* take: before bDone = 0; copy: before the copy to the user.              *)
ReadPlaces == {"idle", "loop", "checked", "asleep", "woken", "take", "copy"}

(* dispatch: minor is set.  In SET_INTERRUPT freeIrq, freePin: before      *)
(* free_irq or gpio_free; setIT: before bMode = IT_MODE; request, clear:   *)
(* before request_irq and before bDone = 0.  In FREE_INTERRUPT dropIrq,    *)
(* book: before free_irq and before gpio_request; setIO, setNone: before   *)
(* the mode is set; unlock: before bDone = 1.                              *)
CtlPlaces == {"idle", "dispatch", "freeIrq", "freePin", "setIT", "request",
              "clear", "dropIrq", "book", "setIO", "setNone", "unlock"}

TypeOK ==
  /\ opened \in [Gpios -> BOOLEAN] /\ mode \in [Gpios -> Modes]
  /\ done \in [Gpios -> BOOLEAN]
  /\ previous \in [Gpios -> MuxModes] /\ default \in [Gpios -> MuxModes]
  /\ mux \in [Gpios -> MuxModes]
  /\ booked \in [Gpios -> {"nobody", "driver", "other"}]
  /\ claimed \in [Gpios -> BOOLEAN] /\ irq \in [Gpios -> BOOLEAN]
  /\ readMinor \in Gpios /\ ioctlMinor \in Gpios
  /\ pc \in [Gpios -> ReadPlaces] /\ ctl \in CtlPlaces
  /\ faulted \in [Gpios -> BOOLEAN] /\ usurped \in [Gpios -> BOOLEAN]

(* The attributes of the table as Gpio_initialize leaves them.             *)
TableInitialized(o, m, d, p) ==
  /\ o = [g \in Gpios |-> FALSE] /\ m = [g \in Gpios |-> "IO"]
  /\ d = [g \in Gpios |-> FALSE] /\ p = [g \in Gpios |-> "safe"]

SaveDefaultMode(x, d) == d = x

Init ==
  /\ TableInitialized(opened, mode, done, previous)
  /\ mux = [g \in Gpios |-> "native"] /\ SaveDefaultMode(mux, default)
  /\ booked = [g \in Gpios |-> "nobody"] /\ claimed = [g \in Gpios |-> FALSE]
  /\ irq = [g \in Gpios |-> FALSE]
  /\ readMinor = Minor0 /\ ioctlMinor = Minor0
  /\ pc = [g \in Gpios |-> "idle"] /\ ctl = "idle"
  /\ faulted = [g \in Gpios |-> FALSE] /\ usurped = [g \in Gpios |-> FALSE]

-----------------------------------------------------------------------------
(* Gpio_open and Gpio_close.                                               *)

(* Variant: the mode the pin had is not saved.                             *)
ForceGpioMode_NotSaved(g) ==
  /\ mux' = [mux EXCEPT ![g] = "gpio"]
  /\ UNCHANGED previous

(* The register is saved and set; Gpio_open does not look at the result.   *)
ForceGpioMode(g) ==
  /\ previous' = [previous EXCEPT ![g] = mux[g]]
  /\ mux' = [mux EXCEPT ![g] = "gpio"]

RegisterNotMapped(g) == g \in Faulty /\ UNCHANGED <<previous, mux>>

RestorePreviousGpioMode(g) ==
  /\ previous' = [previous EXCEPT ![g] = mux[g]]
  /\ mux' = [mux EXCEPT ![g] = previous[g]]

OpenSucceeds(g) ==
  /\ booked[g] = "nobody"
  /\ booked' = [booked EXCEPT ![g] = "driver"]
  /\ mode' = [mode EXCEPT ![g] = "IO"]
  /\ done' = [done EXCEPT ![g] = FALSE]
  /\ opened' = [opened EXCEPT ![g] = TRUE]

(* The pin is booked elsewhere, or its direction cannot be set: the code   *)
(* returns without undoing what it did.                                    *)
OpenFails(g) ==
  /\ \/ booked[g] # "nobody" /\ UNCHANGED booked
     \/ /\ g \in Faulty /\ booked[g] = "nobody"
        /\ booked' = [booked EXCEPT ![g] = "driver"]
  /\ UNCHANGED <<mode, done, opened>>

Gpio_open(g) ==
  /\ ctl = "idle" /\ ~opened[g]
  /\ \/ /\ ForceGpioMode(g)
        /\ OpenSucceeds(g)
        /\ UNCHANGED faulted
     \/ /\ ForceGpioMode(g)
        /\ OpenFails(g)
        /\ faulted' = [faulted EXCEPT ![g] = TRUE]
     \/ /\ RegisterNotMapped(g)
        /\ OpenSucceeds(g) \/ OpenFails(g)
        /\ faulted' = [faulted EXCEPT ![g] = TRUE]
  /\ UNCHANGED <<irq, default, claimed, usurped, readMinor, ioctlMinor, pc, ctl>>

(* Variant: the interrupt is not given back.                               *)
ReleasePin_KeepsIrq(g) ==
  /\ booked' = IF mode[g] = "IO" THEN [booked EXCEPT ![g] = "nobody"] ELSE booked
  /\ UNCHANGED irq

(* The pin or the interrupt is given back, as the mode says.               *)
ReleasePin(g) ==
  /\ booked' = IF mode[g] = "IO" THEN [booked EXCEPT ![g] = "nobody"] ELSE booked
  /\ irq' = IF mode[g] = "IT" THEN [irq EXCEPT ![g] = FALSE] ELSE irq

(* The last reference to the file is gone: no read of g is in progress.    *)
Gpio_close(g) ==
  /\ ctl = "idle" /\ opened[g] /\ pc[g] = "idle"
  /\ ReleasePin(g)
  /\ opened' = [opened EXCEPT ![g] = FALSE]
  /\ \/ RestorePreviousGpioMode(g) /\ UNCHANGED faulted
     \/ RegisterNotMapped(g) /\ faulted' = [faulted EXCEPT ![g] = TRUE]
  /\ UNCHANGED <<mode, done, default, claimed, usurped, readMinor, ioctlMinor, pc,
                 ctl>>

(* Gives every pin the mode it had when the module was loaded.  The loop   *)
(* ends at the first register that cannot be mapped: the pins from there   *)
(* on (left) keep the mode they have.                                      *)
RestoreAllChangedMux ==
  \E left \in SUBSET Gpios :
    /\ left = {} \/ left \cap Faulty # {}
    /\ mux' = [g \in Gpios |-> IF g \in left THEN mux[g] ELSE default[g]]

(* rmmod, then insmod: Gpio_cleanup restores the multiplexer, a new table  *)
(* is made and the modes found are saved.  The module is not in use.       *)
Reload ==
  /\ ctl = "idle" /\ \A g \in Gpios : ~opened[g]
  /\ RestoreAllChangedMux
  /\ TableInitialized(opened', mode', done', previous')
  /\ SaveDefaultMode(mux', default')
  /\ faulted' = [g \in Gpios |-> FALSE]
  /\ readMinor' = Minor0 /\ ioctlMinor' = Minor0
  /\ UNCHANGED <<bookVars, irq, pc, ctl>>

-----------------------------------------------------------------------------
(* Gpio_ioctl.                                                             *)
(* Variant: wake_up_interruptible is missing.                              *)
Woken_None(p) == p

Woken(p) == [g \in Gpios |-> IF p[g] = "asleep" THEN "woken" ELSE p[g]]

IoctlEnter(g) ==
  /\ ctl = "idle" /\ opened[g]
  /\ ioctlMinor' = g
  /\ ctl' = "dispatch"
  /\ UNCHANGED <<pinVars, done, readMinor, pc>>

(* Every command that is refused, or touches no state modelled here.       *)
IoctlReturns ==
  /\ ctl = "dispatch"
  /\ ctl' = "idle"
  /\ UNCHANGED <<pinVars, done, readMinor, ioctlMinor, pc>>

(* The configuring thread goes from one kernel call or access to the table *)
(* to the next.  Each of them reads the static minor again.                *)
CtlGoto(from, to) == ctl = from /\ ctl' = to

(* GPIO_IOCTL_SET_INTERRUPT: a registered handler is removed, otherwise    *)
(* the pin is given back (even one in the abstract mode, which the driver  *)
(* does not hold) and then its mode set.                                   *)
SetInterrupt ==
  /\ CtlGoto("dispatch", IF mode[ioctlMinor] = "IT" THEN "freeIrq" ELSE "freePin")
  /\ UNCHANGED <<pinVars, done, readMinor, ioctlMinor, pc>>

SetInterruptFreeIrq ==
  /\ CtlGoto("freeIrq", "request")
  /\ irq' = [irq EXCEPT ![ioctlMinor] = FALSE]
  /\ UNCHANGED <<opened, mode, muxVars, bookVars, done, readMinor, ioctlMinor,
                 pc>>

SetInterruptFreePin ==
  /\ CtlGoto("freePin", "setIT")
  /\ booked' = [booked EXCEPT ![ioctlMinor] = "nobody"]
  /\ usurped' = [usurped EXCEPT ![ioctlMinor] = @ \/ booked[ioctlMinor] = "other"]
  /\ UNCHANGED <<opened, mode, irq, muxVars, claimed, done, readMinor,
                 ioctlMinor, pc>>

SetMode(from, m, to) ==
  /\ CtlGoto(from, to)
  /\ mode' = [mode EXCEPT ![ioctlMinor] = m]
  /\ UNCHANGED <<opened, irq, muxVars, bookVars, done, readMinor, ioctlMinor,
                 pc>>

SetInterruptMode == SetMode("setIT", "IT", "request")

SetInterruptRequest ==
  /\ ctl = "request"
  /\ \/ /\ ~irq[ioctlMinor]
        /\ irq' = [irq EXCEPT ![ioctlMinor] = TRUE]
        /\ ctl' = "clear"
     \/ /\ irq[ioctlMinor] \/ ioctlMinor \in Faulty
        /\ ctl' = "idle"
        /\ UNCHANGED irq
  /\ UNCHANGED <<opened, mode, muxVars, bookVars, done, readMinor, ioctlMinor,
                 pc>>

SetInterruptClear ==
  /\ ctl = "clear"
  /\ done' = [done EXCEPT ![ioctlMinor] = FALSE]
  /\ ctl' = "idle"
  /\ UNCHANGED <<pinVars, readMinor, ioctlMinor, pc>>

(* GPIO_IOCTL_FREE_INTERRUPT: the handler is removed and the pin booked    *)
(* again, which fails if somebody else took it meanwhile.                  *)
FreeInterrupt ==
  /\ mode[ioctlMinor] = "IT"
  /\ CtlGoto("dispatch", "dropIrq")
  /\ UNCHANGED <<pinVars, done, readMinor, ioctlMinor, pc>>

FreeInterruptFreeIrq ==
  /\ CtlGoto("dropIrq", "book")
  /\ irq' = [irq EXCEPT ![ioctlMinor] = FALSE]
  /\ UNCHANGED <<opened, mode, muxVars, bookVars, done, readMinor, ioctlMinor,
                 pc>>

(* Variant: the booking is taken for granted.                              *)
FreeInterruptBook_AlwaysIO ==
  /\ CtlGoto("book", "setIO")
  /\ booked' = IF booked[ioctlMinor] = "nobody"
               THEN [booked EXCEPT ![ioctlMinor] = "driver"] ELSE booked
  /\ UNCHANGED <<opened, mode, irq, muxVars, claimed, usurped, done, readMinor,
                 ioctlMinor, pc>>

FreeInterruptBook ==
  /\ \/ /\ booked[ioctlMinor] = "nobody"
        /\ booked' = [booked EXCEPT ![ioctlMinor] = "driver"]
        /\ CtlGoto("book", "setIO")
     \/ /\ booked[ioctlMinor] # "nobody"
        /\ CtlGoto("book", "setNone")
        /\ UNCHANGED booked
  /\ UNCHANGED <<opened, mode, irq, muxVars, claimed, usurped, done, readMinor,
                 ioctlMinor, pc>>

FreeInterruptMode ==
  SetMode("setIO", "IO", "unlock") \/ SetMode("setNone", "none", "unlock")

FreeInterruptUnlock ==
  /\ ctl = "unlock"
  /\ done' = [done EXCEPT ![ioctlMinor] = TRUE]
  /\ pc' = Woken(pc)
  /\ ctl' = "idle"
  /\ UNCHANGED <<pinVars, readMinor, ioctlMinor>>

CtlProgress ==
  \/ IoctlReturns
  \/ SetInterrupt \/ SetInterruptFreeIrq \/ SetInterruptFreePin
  \/ SetInterruptMode \/ SetInterruptRequest \/ SetInterruptClear
  \/ FreeInterrupt \/ FreeInterruptFreeIrq \/ FreeInterruptBook
  \/ FreeInterruptMode \/ FreeInterruptUnlock

(* GPIO_IOCTL_GET_LAST_IT_GD_DATA, by the event thread of g.               *)
GetLastIt(g) ==
  /\ SerialIoctls => ctl = "idle"
  /\ opened[g] /\ pc[g] = "idle"
  /\ ioctlMinor' = g
  /\ UNCHANGED <<pinVars, done, readMinor, pc, ctl>>

-----------------------------------------------------------------------------
(* GpioIrqHandler: runs to its end, with interrupts disabled.              *)
GpioIrqHandler(g) ==
  /\ irq[g]
  /\ done' = [done EXCEPT ![g] = TRUE]
  /\ pc' = Woken(pc)
  /\ UNCHANGED <<pinVars, readMinor, ioctlMinor, ctl>>

-----------------------------------------------------------------------------
(* Gpio_read, by the event thread of g.                                    *)
Goto(g, from, to) == pc[g] = from /\ pc' = [pc EXCEPT ![g] = to]

(* Only a read in interrupt mode waits; the others return a value or an    *)
(* error at once.                                                          *)
ReadEnter(g) ==
  /\ opened[g]
  /\ readMinor' = g
  /\ Goto(g, "idle", IF mode[g] = "IT" THEN "loop" ELSE "idle")
  /\ UNCHANGED <<pinVars, done, ioctlMinor, ctl>>

ReadCheck(g) ==
  /\ Goto(g, "loop", IF done[readMinor] THEN "take" ELSE "checked")
  /\ UNCHANGED <<pinVars, done, readMinor, ioctlMinor, ctl>>

ReadSleep(g) ==
  /\ Goto(g, "checked", "asleep")
  /\ UNCHANGED <<pinVars, done, readMinor, ioctlMinor, ctl>>

ReadSignal(g) ==
  /\ \E from \in {"asleep", "woken"} : Goto(g, from, "idle")
  /\ UNCHANGED <<pinVars, done, readMinor, ioctlMinor, ctl>>

ReadAgain(g) ==
  /\ Goto(g, "woken", "loop")
  /\ UNCHANGED <<pinVars, done, readMinor, ioctlMinor, ctl>>

ReadTake(g) ==
  /\ Goto(g, "take", "copy")
  /\ done' = [done EXCEPT ![readMinor] = FALSE]
  /\ UNCHANGED <<pinVars, readMinor, ioctlMinor, ctl>>

ReadCopy(g) ==
  /\ Goto(g, "copy", "idle")
  /\ UNCHANGED <<pinVars, done, readMinor, ioctlMinor, ctl>>

ReadProgress(g) ==
  \/ ReadCheck(g) \/ ReadSleep(g) \/ ReadAgain(g) \/ ReadTake(g) \/ ReadCopy(g)

-----------------------------------------------------------------------------
(* The rest of the kernel books and frees pins too.  It frees what it has  *)
(* booked, whoever the pin is booked for by then.                          *)
OtherRequests(g) ==
  /\ g \in Contended /\ booked[g] = "nobody" /\ ~claimed[g]
  /\ booked' = [booked EXCEPT ![g] = "other"]
  /\ claimed' = [claimed EXCEPT ![g] = TRUE]
  /\ UNCHANGED <<opened, mode, irq, muxVars, usurped, done, readMinor,
                 ioctlMinor, pc, ctl>>

OtherFrees(g) ==
  /\ claimed[g]
  /\ booked' = [booked EXCEPT ![g] = "nobody"]
  /\ claimed' = [claimed EXCEPT ![g] = FALSE]
  /\ UNCHANGED <<opened, mode, irq, muxVars, usurped, done, readMinor,
                 ioctlMinor, pc, ctl>>

Next ==
  \/ Reload
  \/ CtlProgress
  \/ \E g \in Gpios :
       \/ Gpio_open(g) \/ Gpio_close(g)
       \/ IoctlEnter(g) \/ GetLastIt(g)
       \/ GpioIrqHandler(g)
       \/ ReadEnter(g) \/ ReadSignal(g) \/ ReadProgress(g)
       \/ OtherRequests(g) \/ OtherFrees(g)

Spec == Init /\ [][Next]_vars

(* A thread inside a system call is scheduled, and the events a handler is *)
(* registered for keep happening.                                          *)
Fairness ==
  /\ WF_vars(CtlProgress)
  /\ \A g \in Gpios : WF_vars(ReadProgress(g)) /\ WF_vars(GpioIrqHandler(g))

FairSpec == Spec /\ Fairness

-----------------------------------------------------------------------------
(* No interrupt handler outlives the use of its pin: one is registered     *)
(* only for an open gpio in interrupt mode, whatever failed before.        *)
HandlerOwned == \A g \in Gpios : irq[g] => opened[g] /\ mode[g] = "IT"

(* The driver holds a pin that is in Input/Output mode, where reads,       *)
(* writes and ioctls drive or sample it, although it gives the pin away    *)
(* for the time it is in interrupt mode and others may take it then.       *)
(* There are two exceptions and no other: SET_INTERRUPT gives the pin back *)
(* before it sets the mode, so that in between a pin nobody or another     *)
(* holds passes for the driver's; and a pin that the driver once freed     *)
(* under somebody else can be freed under the driver in turn.              *)
PinHeld ==
  \A g \in Gpios :
    /\ opened[g] /\ mode[g] = "IO" /\ ~usurped[g]
    /\ ~(ctl = "setIT" /\ ioctlMinor = g)
    => booked[g] = "driver"

(* Gpio_close gives a pin the mode it had when the module was loaded, over *)
(* any number of opens and closes, as long as every open succeeded and     *)
(* every register could be mapped; while it is open, the pin is a gpio.    *)
MuxRestored ==
  \A g \in Gpios :
    ~faulted[g] => mux[g] = IF opened[g] THEN "gpio" ELSE default[g]

(* What makes MuxRestored inductive: the mode that was saved.              *)
MuxInv ==
  /\ MuxRestored
  /\ \A g \in Gpios : ~faulted[g] /\ opened[g] => previous[g] = default[g]

(* Whose a claimed pin is.                                                 *)
ClaimInv == \A g \in Gpios : claimed[g] /\ ~usurped[g] => booked[g] = "other"

(* What makes PinHeld and HandlerOwned inductive: where the configuring    *)
(* thread is, and that no ioctl of an event thread has replaced the static *)
(* minor.  A mode is set, and an interrupt requested, for the pin that was *)
(* given back or booked before.                                            *)
CtlInv ==
  /\ ctl # "idle" => opened[ioctlMinor]
  /\ ctl \in {"request", "book", "setIO", "setNone"} =>
       mode[ioctlMinor] = "IT" /\ ~irq[ioctlMinor]
  /\ ctl \in {"freeIrq", "dropIrq"} => mode[ioctlMinor] = "IT"
  /\ ctl \in {"freePin", "setIT"} => mode[ioctlMinor] # "IT"
  /\ ctl = "setIO" /\ ~usurped[ioctlMinor] => booked[ioctlMinor] = "driver"

PinInv == PinHeld /\ HandlerOwned /\ ClaimInv /\ CtlInv

(* A read of g returns if in the end g has its handler and no later read   *)
(* of another gpio has replaced the minor of Gpio_read.                    *)
ReadUnlocks ==
  \A g \in Gpios :
    <>[](irq[g] /\ readMinor = g) => (pc[g] # "idle" ~> pc[g] = "idle")

(* "the read become a blocking read which is unlock when the event         *)
(* specified during gpio interrupt request happened"                       *)
(* (ifsttar-gpio-drv.c:578): a read returns the event of its own gpio.     *)
ReadOwnEvent == \A g \in Gpios : pc[g] = "copy" => readMinor = g
=============================================================================
