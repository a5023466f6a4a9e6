---------------------------- MODULE MCGpioClient ----------------------------
(***************************************************************************)
(* The class CGPIO and the gpio driver it uses, each with small sets.  A   *)
(* behaviour exercises one of them (side): CGPIO has its own view of the   *)
(* driver's table entry, in which several threads use one gpio.            *)
(***************************************************************************)
EXTENDS CGPIO

CONSTANTS t1, t2, t3, f1, f2, g1, g2

MCThreads == {t1, t2, t3}
MCCallbacks == {f1, f2}
MCGpios == {g1, g2}

VARIABLES
  dOpened, dMode, dDone, dPrevious, dDefault, dMux, dBooked, dClaimed, dIrq,
  dReadMinor, dIoctlMinor, dPc, dCtl, dFaulted, dUsurped,
  side          \* driver or class: what a behaviour exercises

Driver == INSTANCE Gpio WITH
            Gpios <- MCGpios, Minor0 <- g1, Contended <- {}, Faulty <- {},
            SerialIoctls <- TRUE,
            opened <- dOpened, mode <- dMode, done <- dDone,
            previous <- dPrevious, default <- dDefault, mux <- dMux,
            booked <- dBooked, claimed <- dClaimed, irq <- dIrq,
            readMinor <- dReadMinor, ioctlMinor <- dIoctlMinor, pc <- dPc,
            ctl <- dCtl, faulted <- dFaulted, usurped <- dUsurped

gpioVars == <<dOpened, dMode, dDone, dPrevious, dDefault, dMux, dBooked,
              dClaimed, dIrq, dReadMinor, dIoctlMinor, dPc, dCtl, dFaulted,
              dUsurped>>
allVars == <<vars, gpioVars, side>>

DriverStep(A) == side = "driver" /\ A /\ UNCHANGED <<vars, side>>
ClassStep(A) == side = "class" /\ A /\ UNCHANGED <<gpioVars, side>>

BothInit == Init /\ Driver!Init /\ side \in {"driver", "class"}
BothNext == DriverStep(Driver!Next) \/ ClassStep(Next)

(* The fairness of FairSpec of both modules.                               *)
BothSpec ==
  /\ BothInit /\ [][BothNext]_allVars
  /\ WF_allVars(DriverStep(Driver!CtlProgress))
  /\ \A g \in MCGpios : /\ WF_allVars(DriverStep(Driver!ReadProgress(g)))
                        /\ WF_allVars(DriverStep(Driver!GpioIrqHandler(g)))
  /\ WF_allVars(ClassStep(Event))
  /\ \A t \in Threads : WF_allVars(ClassStep(ThreadStep(t)))

-----------------------------------------------------------------------------
(* ReadUnlocks of module Gpio: a read of a gpio whose events go on returns *)
(* if no later read of another gpio has replaced the minor of Gpio_read.   *)
GpioReadUnlocks == Driver!ReadUnlocks
=============================================================================
