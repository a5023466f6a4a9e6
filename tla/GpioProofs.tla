----------------------------- MODULE GpioProofs -----------------------------
(***************************************************************************)
(* The ownership of pins, handlers and multiplexer registers in the gpio   *)
(* driver, for any set of gpios, contended and failing in any way.         *)
(***************************************************************************)
EXTENDS Gpio, TLAPS

GpioInv == TypeOK /\ MuxInv

LEMMA GpioInit == Init => GpioInv
BY GpioAssumption
DEF Init, TableInitialized, SaveDefaultMode, GpioInv, TypeOK, MuxInv,
    MuxRestored, Modes, MuxModes, ReadPlaces, CtlPlaces

(* Opening, closing and reloading: one thread, on a closed or unused gpio. *)
LEMMA OpenCloseStep ==
  ASSUME GpioInv,
         Reload \/ \E g \in Gpios : Gpio_open(g) \/ Gpio_close(g)
  PROVE  GpioInv'
<1> USE GpioAssumption DEF GpioInv, TypeOK, MuxInv, MuxRestored, Modes,
        MuxModes, ReadPlaces, CtlPlaces, bookVars
<1>1. CASE Reload
  BY <1>1 DEF Reload, RestoreAllChangedMux, TableInitialized, SaveDefaultMode
<1>2. ASSUME NEW g \in Gpios, Gpio_open(g) PROVE GpioInv'
  <2>1. CASE ForceGpioMode(g) /\ OpenSucceeds(g) /\ UNCHANGED faulted
    BY <1>2, <2>1 DEF Gpio_open, ForceGpioMode, OpenSucceeds
  <2>2. CASE /\ ForceGpioMode(g) /\ OpenFails(g)
             /\ faulted' = [faulted EXCEPT ![g] = TRUE]
    BY <1>2, <2>2 DEF Gpio_open, ForceGpioMode, OpenFails
  <2>3. CASE /\ RegisterNotMapped(g) /\ OpenSucceeds(g)
             /\ faulted' = [faulted EXCEPT ![g] = TRUE]
    BY <1>2, <2>3 DEF Gpio_open, RegisterNotMapped, OpenSucceeds
  <2>4. CASE /\ RegisterNotMapped(g) /\ OpenFails(g)
             /\ faulted' = [faulted EXCEPT ![g] = TRUE]
    BY <1>2, <2>4 DEF Gpio_open, RegisterNotMapped, OpenFails
  <2>5. QED
    BY <1>2, <2>1, <2>2, <2>3, <2>4 DEF Gpio_open
<1>3. ASSUME NEW g \in Gpios, Gpio_close(g) PROVE GpioInv'
  <2>1. CASE RestorePreviousGpioMode(g) /\ UNCHANGED faulted
    BY <1>3, <2>1 DEF Gpio_close, ReleasePin, RestorePreviousGpioMode
  <2>2. CASE RegisterNotMapped(g) /\ faulted' = [faulted EXCEPT ![g] = TRUE]
    BY <1>3, <2>2 DEF Gpio_close, ReleasePin, RegisterNotMapped
  <2>3. QED
    BY <1>3, <2>1, <2>2 DEF Gpio_close
<1>4. QED
  BY <1>1, <1>2, <1>3

(* The ioctls touch no multiplexer, whatever gpio the static minor says.   *)
LEMMA IoctlStep ==
  ASSUME GpioInv,
         CtlProgress \/ \E g \in Gpios : IoctlEnter(g) \/ GetLastIt(g)
  PROVE  GpioInv'
<1>1. UNCHANGED <<opened, muxVars>>
  BY DEF CtlProgress, IoctlReturns, SetInterrupt, SetInterruptFreeIrq,
     SetInterruptFreePin, SetInterruptMode, SetInterruptRequest,
     SetInterruptClear, FreeInterrupt, FreeInterruptFreeIrq, FreeInterruptBook,
     FreeInterruptMode, FreeInterruptUnlock, SetMode, IoctlEnter, GetLastIt,
     pinVars
<1>2. MuxInv'
  BY <1>1 DEF GpioInv, MuxInv, MuxRestored, muxVars
<1>3. TypeOK'
  <2> USE DEF GpioInv, TypeOK, Modes, ReadPlaces, CtlPlaces, CtlGoto, SetMode,
          pinVars, muxVars, bookVars
  <2>1. CASE IoctlReturns \/ SetInterrupt \/ FreeInterrupt
    BY <2>1 DEF IoctlReturns, SetInterrupt, FreeInterrupt
  <2>2. CASE SetInterruptFreeIrq \/ FreeInterruptFreeIrq
    BY <2>2 DEF SetInterruptFreeIrq, FreeInterruptFreeIrq
  <2>3. CASE SetInterruptFreePin
    BY <2>3 DEF SetInterruptFreePin
  <2>4. CASE FreeInterruptBook
    BY <2>4 DEF FreeInterruptBook
  <2>5. CASE SetInterruptMode \/ FreeInterruptMode
    BY <2>5 DEF SetInterruptMode, FreeInterruptMode
  <2>6. CASE SetInterruptRequest
    BY <2>6 DEF SetInterruptRequest
  <2>7. CASE SetInterruptClear \/ FreeInterruptUnlock
    BY <2>7 DEF SetInterruptClear, FreeInterruptUnlock, Woken
  <2>8. CASE \E g \in Gpios : IoctlEnter(g) \/ GetLastIt(g)
    BY <2>8 DEF IoctlEnter, GetLastIt
  <2>9. QED
    BY <2>1, <2>2, <2>3, <2>4, <2>5, <2>6, <2>7, <2>8 DEF CtlProgress
<1>4. QED
  BY <1>2, <1>3 DEF GpioInv

(* Interrupts, reads and the rest of the kernel.                           *)
OtherActions(g) ==
  \/ GpioIrqHandler(g)
  \/ ReadEnter(g) \/ ReadSignal(g) \/ ReadProgress(g)
  \/ OtherRequests(g) \/ OtherFrees(g)

LEMMA OtherStep ==
  ASSUME GpioInv, \E g \in Gpios : OtherActions(g)
  PROVE  GpioInv'
<1> USE DEF GpioInv, TypeOK, MuxInv, MuxRestored, Modes, MuxModes, ReadPlaces,
        CtlPlaces, pinVars, muxVars, bookVars
<1>1. PICK g \in Gpios : OtherActions(g)
  OBVIOUS
<1>2. CASE GpioIrqHandler(g)
  BY <1>2 DEF GpioIrqHandler, Woken
<1>3. CASE ReadEnter(g) \/ ReadSignal(g)
  BY <1>3 DEF ReadEnter, ReadSignal, Goto
<1>4. CASE ReadProgress(g)
  <2>1. CASE ReadCheck(g)
    BY <2>1 DEF ReadCheck, Goto
  <2>2. CASE ReadSleep(g) \/ ReadAgain(g) \/ ReadCopy(g)
    BY <2>2 DEF ReadSleep, ReadAgain, ReadCopy, Goto
  <2>3. CASE ReadTake(g)
    BY <2>3 DEF ReadTake, Goto
  <2>4. QED
    BY <1>4, <2>1, <2>2, <2>3 DEF ReadProgress
<1>5. CASE OtherRequests(g)
  BY <1>5 DEF OtherRequests
<1>6. CASE OtherFrees(g)
  BY <1>6 DEF OtherFrees
<1>7. QED
  BY <1>1, <1>2, <1>3, <1>4, <1>5, <1>6 DEF OtherActions

LEMMA GpioStep ==
  ASSUME GpioInv, [Next]_vars
  PROVE  GpioInv'
<1>1. CASE Reload \/ \E g \in Gpios : Gpio_open(g) \/ Gpio_close(g)
  BY <1>1, OpenCloseStep
<1>2. CASE CtlProgress \/ \E g \in Gpios : IoctlEnter(g) \/ GetLastIt(g)
  BY <1>2, IoctlStep
<1>3. CASE \E g \in Gpios : OtherActions(g)
  BY <1>3, OtherStep
<1>4. CASE UNCHANGED vars
  <2>1. TypeOK'
    BY <1>4 DEF vars, pinVars, muxVars, bookVars, GpioInv, TypeOK
  <2>2. MuxInv'
    BY <1>4 DEF vars, pinVars, muxVars, GpioInv, MuxInv, MuxRestored
  <2>3. QED
    BY <2>1, <2>2 DEF GpioInv
<1>5. QED
  BY <1>1, <1>2, <1>3, <1>4 DEF Next, OtherActions

LEMMA GpioInvariant == Spec => []GpioInv
<1>1. GpioInv /\ [Next]_vars => GpioInv'
  BY GpioStep
<1>2. QED
  BY <1>1, GpioInit, PTL DEF Spec

(* For any number of gpios, also if the event threads' ioctls change the   *)
(* static minor under the configuring thread, a pin that met no failure    *)
(* gets the multiplexer mode it had at loading back when it is closed.     *)
THEOREM MuxIsRestored == Spec => []MuxRestored
<1>1. GpioInv => MuxRestored
  BY DEF GpioInv, MuxInv
<1>2. QED
  BY <1>1, GpioInvariant, PTL

-----------------------------------------------------------------------------
(* Pins and handlers.  The kernel calls and accesses of an ioctl use the   *)
(* same minor only because no other thread is in Gpio_ioctl meanwhile.     *)
LEMMA PinOpenStep ==
  ASSUME GpioInv, PinInv, NEW g \in Gpios, Gpio_open(g)
  PROVE  PinInv'
<1> USE DEF GpioInv, TypeOK, PinInv, PinHeld, HandlerOwned, ClaimInv, CtlInv
<1>1. /\ ~opened[g] /\ ctl = "idle"
      /\ UNCHANGED <<irq, claimed, usurped, ioctlMinor, ctl>>
  BY DEF Gpio_open
<1>2. CASE OpenSucceeds(g)
  BY <1>1, <1>2 DEF OpenSucceeds
<1>3. CASE OpenFails(g)
  <2>1. /\ UNCHANGED <<opened, mode>>
        /\ \/ UNCHANGED booked
           \/ booked[g] = "nobody" /\ booked' = [booked EXCEPT ![g] = "driver"]
    BY <1>3 DEF OpenFails
  <2>2. QED
    BY <1>1, <2>1
<1>4. QED
  BY <1>2, <1>3 DEF Gpio_open

LEMMA PinCloseStep ==
  ASSUME GpioInv, PinInv, NEW g \in Gpios, Gpio_close(g)
  PROVE  PinInv'
<1> USE DEF GpioInv, TypeOK, PinInv, PinHeld, HandlerOwned, ClaimInv, CtlInv
<1>1. /\ opened[g] /\ ctl = "idle"
      /\ opened' = [opened EXCEPT ![g] = FALSE]
      /\ UNCHANGED <<mode, claimed, usurped, ioctlMinor, ctl>>
  BY DEF Gpio_close
<1>2. CASE mode[g] = "IO"
  <2>1. booked' = [booked EXCEPT ![g] = "nobody"] /\ irq' = irq
    BY <1>2 DEF Gpio_close, ReleasePin
  <2>2. claimed[g] => usurped[g]
    BY <1>1, <1>2
  <2>3. QED
    BY <1>1, <1>2, <2>1, <2>2
<1>3. CASE mode[g] # "IO"
  <2>1. booked' = booked
        /\ irq' = IF mode[g] = "IT" THEN [irq EXCEPT ![g] = FALSE] ELSE irq
    BY <1>3 DEF Gpio_close, ReleasePin
  <2>2. QED
    BY <1>1, <1>3, <2>1
<1>4. QED
  BY <1>2, <1>3

LEMMA PinIoctlStep ==
  ASSUME GpioInv, PinInv, CtlProgress
  PROVE  PinInv'
<1> USE DEF GpioInv, TypeOK, PinInv, PinHeld, HandlerOwned, ClaimInv, CtlInv,
        CtlGoto, SetMode, pinVars, bookVars
<1>1. CASE IoctlReturns \/ SetInterrupt \/ FreeInterrupt
  BY <1>1 DEF IoctlReturns, SetInterrupt, FreeInterrupt
<1>2. CASE SetInterruptFreeIrq \/ FreeInterruptFreeIrq
  BY <1>2 DEF SetInterruptFreeIrq, FreeInterruptFreeIrq
<1>3. CASE SetInterruptFreePin
  BY <1>3 DEF SetInterruptFreePin
<1>4. CASE SetInterruptMode
  BY <1>4 DEF SetInterruptMode
<1>5. CASE SetInterruptRequest
  BY <1>5 DEF SetInterruptRequest
<1>6. CASE SetInterruptClear \/ FreeInterruptUnlock
  BY <1>6 DEF SetInterruptClear, FreeInterruptUnlock
<1>7. CASE FreeInterruptBook
  BY <1>7 DEF FreeInterruptBook
<1>8. CASE FreeInterruptMode
  BY <1>8 DEF FreeInterruptMode
<1>9. QED
  BY <1>1, <1>2, <1>3, <1>4, <1>5, <1>6, <1>7, <1>8 DEF CtlProgress

LEMMA PinStep ==
  ASSUME GpioInv, PinInv, SerialIoctls, [Next]_vars
  PROVE  PinInv'
<1> USE DEF GpioInv, TypeOK, PinInv, PinHeld, HandlerOwned, ClaimInv, CtlInv
<1>1. CASE Reload
  BY <1>1 DEF Reload, TableInitialized, bookVars
<1>2. CASE \E g \in Gpios : Gpio_open(g) \/ Gpio_close(g)
  BY <1>2, PinOpenStep, PinCloseStep
<1>3. CASE CtlProgress
  BY <1>3, PinIoctlStep
<1>4. ASSUME NEW g \in Gpios, IoctlEnter(g) \/ GetLastIt(g) PROVE PinInv'
  BY <1>4 DEF IoctlEnter, GetLastIt, pinVars, bookVars
<1>5. ASSUME NEW g \in Gpios, OtherRequests(g) PROVE PinInv'
  BY <1>5 DEF OtherRequests
<1>6. ASSUME NEW g \in Gpios, OtherFrees(g) PROVE PinInv'
  <2>1. booked[g] = "driver" => usurped[g]
    BY <1>6 DEF OtherFrees
  <2>2. QED
    BY <1>6, <2>1 DEF OtherFrees
<1>7. CASE UNCHANGED <<pinVars, ctl, ioctlMinor>>
  BY <1>7 DEF pinVars, bookVars
<1>8. ASSUME NEW g \in Gpios,
             GpioIrqHandler(g) \/ ReadEnter(g) \/ ReadSignal(g) \/ ReadProgress(g)
      PROVE  UNCHANGED <<pinVars, ctl, ioctlMinor>>
  BY <1>8 DEF GpioIrqHandler, ReadEnter, ReadSignal, ReadProgress, ReadCheck,
     ReadSleep, ReadAgain, ReadTake, ReadCopy
<1>9. QED
  BY <1>1, <1>2, <1>3, <1>4, <1>5, <1>6, <1>7, <1>8 DEF Next, vars

LEMMA PinInvariant ==
  ASSUME SerialIoctls
  PROVE  Spec => []PinInv
<1>1. Init => PinInv
  BY DEF Init, TableInitialized, PinInv, PinHeld, HandlerOwned, ClaimInv, CtlInv
<1>2. GpioInv /\ PinInv /\ [Next]_vars => PinInv'
  BY PinStep
<1>3. QED
  BY <1>1, <1>2, GpioInvariant, PTL DEF Spec

(* If the ioctls of different threads do not overlap, the driver holds     *)
(* every open pin in Input/Output mode, whatever calls of the kernel fail, *)
(* except one it freed under somebody else, and except between gpio_free   *)
(* and the setting of the mode in SET_INTERRUPT.                           *)
THEOREM PinsOwned ==
  ASSUME SerialIoctls
  PROVE  Spec => []PinHeld
<1>1. PinInv => PinHeld
  BY DEF PinInv
<1>2. QED
  BY <1>1, PinInvariant, PTL

(* A handler never outlives the use of its pin: one is registered only for *)
(* an open gpio in interrupt mode, if the ioctls of different threads do   *)
(* not overlap (TLC refutes it if they do).                                *)
THEOREM HandlersOwned ==
  ASSUME SerialIoctls
  PROVE  Spec => []HandlerOwned
<1>1. PinInv => HandlerOwned
  BY DEF PinInv
<1>2. QED
  BY <1>1, PinInvariant, PTL

-----------------------------------------------------------------------------
(* No Gpio_read begins while another one is in progress.                   *)
ReadsDoNotOverlap ==
  [][\A g \in Gpios : ReadEnter(g) => \A h \in Gpios : pc[h] = "idle"]_vars

(* How far "unlock when the event specified during gpio interrupt request  *)
(* happened" is true: a read returns the event of its own gpio, and clears *)
(* no other's, if reads of the driver do not overlap in time.              *)
THEOREM OwnEventIfAlone ==
  Spec /\ ReadsDoNotOverlap =>
    [](\A g \in Gpios : pc[g] \in {"take", "copy"} => readMinor = g)
<1> DEFINE Own == \A g \in Gpios : pc[g] # "idle" => readMinor = g /\ opened[g]
           Alone == \A g \in Gpios : ReadEnter(g) => \A h \in Gpios : pc[h] = "idle"
<1>1. Init => Own
  BY DEF Init
<1>2. GpioInv /\ Own /\ [Next]_vars /\ [Alone]_vars => Own'
  <2> SUFFICES ASSUME GpioInv, Own, [Next]_vars, [Alone]_vars PROVE Own'
    OBVIOUS
  <2> USE DEF GpioInv, TypeOK
  <2>1. CASE UNCHANGED vars
    BY <2>1 DEF vars, pinVars
  <2>2. CASE Reload
    BY <2>2 DEF Reload, TableInitialized
  <2>3. ASSUME NEW g \in Gpios, Gpio_open(g) \/ Gpio_close(g) PROVE Own'
    BY <2>3 DEF Gpio_open, OpenSucceeds, OpenFails, Gpio_close
  <2>4. ASSUME NEW g \in Gpios, ReadEnter(g), Alone PROVE Own'
    <3>1. \A h \in Gpios : pc[h] = "idle"
      BY <2>4
    <3>2. QED
      BY <2>4, <3>1 DEF ReadEnter, Goto, pinVars
  <2>5. ASSUME NEW g \in Gpios, ReadSignal(g) \/ ReadProgress(g) PROVE Own'
    <3>1. UNCHANGED <<readMinor, opened>>
      BY <2>5 DEF ReadSignal, ReadProgress, ReadCheck, ReadSleep, ReadAgain,
         ReadTake, ReadCopy, pinVars
    <3>2. pc[g] # "idle" /\ \A h \in Gpios \ {g} : pc'[h] = pc[h]
      BY <2>5 DEF ReadSignal, ReadProgress, ReadCheck, ReadSleep, ReadAgain,
         ReadTake, ReadCopy, Goto
    <3>3. QED
      BY <3>1, <3>2
  <2>6. CASE FreeInterruptUnlock \/ \E g \in Gpios : GpioIrqHandler(g)
    BY <2>6 DEF FreeInterruptUnlock, GpioIrqHandler, Woken, pinVars
  <2>7. CASE UNCHANGED <<pc, readMinor, opened>>
    BY <2>7
  <2>8. CASE CtlProgress /\ ~FreeInterruptUnlock
    BY <2>7, <2>8 DEF CtlProgress, IoctlReturns, SetInterrupt,
       SetInterruptFreeIrq, SetInterruptFreePin, SetInterruptMode,
       SetInterruptRequest, SetInterruptClear, FreeInterrupt,
       FreeInterruptFreeIrq, FreeInterruptBook, FreeInterruptMode, SetMode,
       pinVars
  <2>9. CASE \E g \in Gpios : \/ IoctlEnter(g) \/ GetLastIt(g)
                              \/ OtherRequests(g) \/ OtherFrees(g)
    BY <2>7, <2>9 DEF IoctlEnter, GetLastIt, OtherRequests, OtherFrees, pinVars
  <2>10. QED
    BY <2>1, <2>2, <2>3, <2>4, <2>5, <2>6, <2>8, <2>9 DEF Next
<1>3. Own => \A g \in Gpios : pc[g] \in {"take", "copy"} => readMinor = g
  OBVIOUS
<1> HIDE DEF Own
<1>4. QED
  BY <1>1, <1>2, <1>3, GpioInvariant, PTL DEF Spec, ReadsDoNotOverlap
=============================================================================
