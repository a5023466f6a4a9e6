------------------------ MODULE SynchronizationLoad -------------------------
(***************************************************************************)
(* The life of the synchronization driver's module: insmod, which acquires *)
(* resources one by one while interrupts of those it has already arrive,   *)
(* its failure labels, rmmod, and the readers that keep the module loaded. *)
(* What a failed load does not give back stays for the next one.           *)
(*                                                                         *)
(* Abstractions.  The state machine is reduced to the order of its states; *)
(* module Synchronization has the rest.  insmod and rmmod each take less   *)
(* than a second, so that at most one Pps is handled before insmod ends.   *)
(* The device is read only after insmod has returned.                      *)
(***************************************************************************)
EXTENDS ReadWait, Sequences

VARIABLES
  phase,        \* out, init (in insmod), in (loaded), exit (in rmmod), or
                \* stuck (rmmod was killed)
  step,         \* the next step of insmod or rmmod
  held,         \* what the module has acquired and not given back
  gone,         \* the registered handlers whose module is gone
  state,        \* m_DriverCurrentState
  ppsRuns,      \* the capture timer runs
  relayRuns,    \* the relay timer runs
  relayInt,     \* its overflow interrupt is enabled
  hot           \* history: the module was unloaded in Switch_Gps_to_Off

timerVars == <<state, ppsRuns, relayRuns, relayInt>>
loadVars == <<phase, step, held, gone, timerVars, hot>>
vars == <<readVars, loadVars>>

(* Synchronization_initialize with the three configuration functions.  A   *)
(* pin is the multiplexer register of a pin in the driver's mode.          *)
InitSteps ==
  <<"region", "cdev", "class", "device", "proc",
    "relayPin", "relayTimer", "relaySetup", "relayIrq", "relayInt",
    "gpsPin", "gpsGpio", "gpsSetup",
    "ppsPins", "ppsTimer", "ppsSetup", "ppsIrq",
    "start", "state">>

CleanupSteps ==
  <<"ppsStop", "ppsTimer", "ppsIrq", "ppsPins",
    "relayStop", "relayTimer", "relayIrq", "class", "rest">>

Irqs == {"ppsIrq", "relayIrq"}
Resources ==
  Irqs \cup {"region", "cdev", "class", "device", "proc", "relayPin",
             "relayTimer", "gpsPin", "gpsGpio", "ppsPins", "ppsTimer"}

(* The kernel gives these to one owner at a time.                          *)
Exclusive ==
  Irqs \cup {"class", "relayTimer", "gpsGpio", "ppsTimer"}

(* What a Pps does to the state.                                           *)
Transitions ==
  {<<"Initialization", "Wait_for_Gps_Fixed">>,
   <<"Wait_for_Gps_Fixed", "Wait_for_Gps_Fixed">>,
   <<"Wait_for_Gps_Fixed", "Gps_Fixed">>,
   <<"Gps_Fixed", "Wait_for_Gps_Fixed">>,
   <<"Gps_Fixed", "Gps_Fixed">>,
   <<"Gps_Fixed", "Switch_Gps_to_Off">>,
   <<"Switch_Gps_to_Off", "Gps_Off">>,
   <<"Gps_Off", "Gps_Off">>}

Init ==
  /\ ReadInit
  /\ phase = "out" /\ step = 1
  /\ held = {} /\ gone = {}
  /\ state = "Initialization"
  /\ ppsRuns = FALSE /\ relayRuns = FALSE /\ relayInt = FALSE
  /\ hot = FALSE

-----------------------------------------------------------------------------
(* Loading.                                                                *)

(* A fresh copy of the module: its variables have their initial values.    *)
Insmod ==
  /\ phase = "out"
  /\ phase' = "init" /\ step' = 1
  /\ state' = "Initialization"
  /\ readDone' = FALSE /\ readKind' = 0 /\ unreported' = FALSE
  /\ UNCHANGED <<pc, held, gone, ppsRuns, relayRuns, relayInt, hot>>

InitStep == InitSteps[step]

(* Setting up the relay timer disables its interrupt, the step relayInt    *)
(* enables it.  A /proc entry that could not be made is not noticed, since *)
(* the error is NULL and IS_ERR is tested.                                 *)
StepSucceeds ==
  /\ phase = "init"
  /\ InitStep \in Exclusive => InitStep \notin held
  /\ held' \in {held \cup ({InitStep} \cap Resources)}
                 \cup (IF InitStep = "proc" THEN {held} ELSE {})
  /\ relayInt' = (InitStep = "relayInt" \/ (relayInt /\ InitStep # "relaySetup"))
  /\ ppsRuns' = (ppsRuns \/ InitStep = "start")
  /\ state' = IF InitStep = "state" THEN "Initialization" ELSE state
  /\ IF step = Len(InitSteps) THEN phase' = "in" /\ step' = 1
     ELSE step' = step + 1 /\ UNCHANGED phase
  /\ UNCHANGED <<readVars, gone, relayRuns, hot>>

(* What the configuration functions release when their step fails.         *)
UndoneByConfiguration(s) ==
  {r \in Resources :
     \/ r = "relayTimer" /\ s \in {"relaySetup", "relayIrq", "relayInt"}
     \/ r = "gpsPin" /\ s \in {"gpsGpio", "gpsSetup"}
     \/ r = "gpsGpio" /\ s = "gpsSetup"
     \/ r = "ppsPins" /\ s \in {"ppsTimer", "ppsSetup", "ppsIrq"}
     \/ r = "ppsTimer" /\ s \in {"ppsSetup", "ppsIrq"}}

(* What the labels of Synchronization_initialize release: not the class,   *)
(* nor what an earlier configuration function has set up.                  *)
UndoneByLabels(k) ==
  {r \in Resources : \/ r = "region"
                     \/ r = "cdev" /\ k > 2
                     \/ r \in {"device", "proc"} /\ k > 5}

(* The module goes; its registered handlers stay.                          *)
Leave(h) ==
  /\ phase' = "out" /\ step' = 1
  /\ held' = h
  /\ gone' = h \cap Irqs

(* If the second or third pin of the capture timer cannot be mapped, those *)
(* before it keep the driver's mode.                                       *)
StepFails ==
  /\ phase = "init"
  /\ InitStep \notin {"proc", "start", "state"}
  /\ \E left \in {{}, {InitStep} \cap {"ppsPins"}} :
       Leave((held \ (UndoneByConfiguration(InitStep) \cup UndoneByLabels(step)))
               \cup left)
  /\ \/ InitStep \in {"relaySetup", "relayIrq", "relayInt"} /\ relayInt' = FALSE
     \/ InitStep \notin {"relayIrq", "relayInt"} /\ UNCHANGED relayInt
  /\ UNCHANGED <<readVars, state, ppsRuns, relayRuns, hot>>

-----------------------------------------------------------------------------
(* Unloading.                                                              *)

(* A process in a read has the device open.                                *)
Rmmod ==
  /\ phase = "in"
  /\ \A r \in Readers : pc[r] = "idle"
  /\ phase' = "exit" /\ step' = 1
  /\ UNCHANGED <<readVars, held, gone, timerVars, hot>>

CleanupStep == CleanupSteps[step]

(* What rmmod releases up to the first unregistration of the class, and    *)
(* after the second.  The mode of the relay timer's pin is not restored.   *)
ReleasedWithClass == {"gpsGpio", "gpsPin", "proc", "device", "class"}
ReleasedLast == {"cdev", "region"}

(* Variant: the relay timer is not stopped.                                *)
StopsRelay_Never == FALSE

(* It is stopped in one of the two states in which it runs.                *)
StopsRelay == CleanupStep = "relayStop" /\ state = "Gps_Off"

(* A timer that is released while it runs may go on.                       *)
Cleanup ==
  /\ phase = "exit"
  /\ IF CleanupStep = "rest" THEN Leave(held \ ReleasedLast)
     ELSE /\ held' = held \ (IF CleanupStep = "class" THEN ReleasedWithClass
                             ELSE {CleanupStep})
          /\ step' = step + 1
          /\ UNCHANGED <<phase, gone>>
  /\ ppsRuns' = (ppsRuns /\ CleanupStep # "ppsStop")
  /\ \/ relayRuns' = (relayRuns /\ ~StopsRelay)
     \/ CleanupStep = "relayTimer" /\ relayRuns' = FALSE
  /\ hot' = \/ hot
            \/ CleanupStep = "relayStop" /\ state = "Switch_Gps_to_Off"
  /\ UNCHANGED <<readVars, state, relayInt>>

(* class_unregister frees the class and class_destroy unregisters it once  *)
(* more.  What the second call finds in the freed memory may let it pass,  *)
(* as in Cleanup, or kill rmmod: the module is then neither in use nor     *)
(* gone, and the kernel refuses to load one of its name.                   *)
ClassDestroyKills ==
  /\ phase = "exit" /\ CleanupStep = "rest"
  /\ phase' = "stuck"
  /\ UNCHANGED <<readVars, step, held, gone, timerVars, hot>>

InsmodRefused == phase = "stuck" /\ UNCHANGED vars

-----------------------------------------------------------------------------
(* Interrupts.                                                             *)
PpsDelivered == ppsRuns /\ "ppsIrq" \in held
RelayDelivered == relayRuns /\ relayInt /\ "relayIrq" \in held

PpsTimerIrqHandler ==
  /\ PpsDelivered /\ "ppsIrq" \notin gone
  /\ phase = "init" => state = "Initialization"
  /\ \E t \in Transitions : state = t[1] /\ state' = t[2]
  /\ relayRuns' = (relayRuns \/ state' = "Switch_Gps_to_Off")
  /\ Unlock(1)
  /\ UNCHANGED <<phase, step, held, gone, ppsRuns, relayInt, hot>>

(* In another state it only complains that "the timer relay is still       *)
(* running besides the Gps is not Off".                                    *)
RelayTimerIrqHandler ==
  /\ RelayDelivered /\ "relayIrq" \notin gone
  /\ state = "Gps_Off"
  /\ Unlock(2)
  /\ UNCHANGED loadVars

Reading(r) ==
  /\ phase = "in"
  /\ ReaderStep(r)
  /\ UNCHANGED loadVars

-----------------------------------------------------------------------------
Next ==
  \/ Insmod \/ InsmodRefused \/ StepSucceeds \/ StepFails
  \/ Rmmod \/ Cleanup \/ ClassDestroyKills
  \/ PpsTimerIrqHandler \/ RelayTimerIrqHandler
  \/ \E r \in Readers : Reading(r)

Spec == Init /\ [][Next]_vars

(* The GPS pulses now and then, and a process in the kernel is scheduled.  *)
Fairness ==
  /\ WF_vars(PpsTimerIrqHandler)
  /\ \A r \in Readers : WF_vars(phase = "in" /\ ReadProgress(r)
                                /\ UNCHANGED loadVars)

FairSpec == Spec /\ Fairness

-----------------------------------------------------------------------------
(* An interrupt finds its driver: when one can be delivered, the handler's *)
(* module is in memory, its timer is allocated, and the simulated Pps is   *)
(* due in the current state, through any sequence of loads that fail at    *)
(* any step, loads and unloads.  It takes the handler that a failed load   *)
(* leaves registered into account.  Excepted are modules loaded after an   *)
(* unload in Switch_Gps_to_Off, which does not stop the relay timer.       *)
InterruptFindsDriver ==
  ~hot =>
    /\ PpsDelivered => /\ "ppsIrq" \notin gone
                       /\ {"ppsTimer", "relayTimer"} \subseteq held
    /\ RelayDelivered => /\ "relayIrq" \notin gone
                         /\ "relayTimer" \in held
                         /\ state \in {"Switch_Gps_to_Off", "Gps_Off"}
=============================================================================
