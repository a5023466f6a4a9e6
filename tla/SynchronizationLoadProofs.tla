--------------------- MODULE SynchronizationLoadProofs ----------------------
(***************************************************************************)
(* Theorems about loading and unloading the synchronization driver, for    *)
(* any set of readers and any sequence of loads, failures and unloads.     *)
(***************************************************************************)
EXTENDS SynchronizationLoad, ReadWaitProofs

States == {"Initialization", "Wait_for_Gps_Fixed", "Gps_Fixed",
           "Switch_Gps_to_Off", "Gps_Off"}

LoadTypeOK ==
  /\ phase \in {"out", "init", "in", "exit", "stuck"}
  /\ step \in Nat
  /\ phase = "init" => step \in 1 .. 19
  /\ phase = "exit" => step \in 1 .. 9
  /\ held \subseteq Resources /\ gone \subseteq Irqs
  /\ state \in States
  /\ ppsRuns \in BOOLEAN /\ relayRuns \in BOOLEAN
  /\ relayInt \in BOOLEAN /\ hot \in BOOLEAN

(* A handler that is left behind blocks the next load at its third step,   *)
(* because the class is left behind with it.                               *)
GoneBlocks ==
  /\ gone # {} => /\ "class" \in held
                  /\ phase = "out" \/ (phase = "init" /\ step <= 3)
  /\ phase = "out" \/ (phase = "init" /\ step <= 3) => held \cap Irqs = gone
  /\ phase = "init" /\ step > 3 => "class" \in held
  /\ phase = "exit" /\ step > 3 => "ppsIrq" \notin held
  /\ phase = "exit" /\ step > 7 => "relayIrq" \notin held

(* Where the timers are allocated.                                         *)
TimersHeld ==
  /\ phase = "init" /\ step > 7 => "relayTimer" \in held
  /\ phase = "init" /\ step > 15 => "ppsTimer" \in held
  /\ phase = "in" => {"ppsTimer", "relayTimer"} \subseteq held
  /\ phase = "exit" /\ step <= 2 => "ppsTimer" \in held
  /\ phase = "exit" /\ step <= 6 => "relayTimer" \in held

(* Where they run.                                                         *)
TimersRun ==
  /\ ppsRuns => \/ phase = "init" /\ step = 19
                \/ phase = "in"
                \/ phase = "exit" /\ step = 1
  /\ ~hot /\ relayRuns => /\ state \in {"Switch_Gps_to_Off", "Gps_Off"}
                          /\ phase = "in" \/ (phase = "exit" /\ step <= 5)

LoadInv == LoadTypeOK /\ GoneBlocks /\ TimersHeld /\ TimersRun

-----------------------------------------------------------------------------
(* Where the steps that matter stand in the two functions.                 *)
LEMMA StepNumbers ==
  /\ Len(InitSteps) = 19
  /\ \A i \in 1 .. 19 : /\ InitSteps[i] = "class" <=> i = 3
                        /\ InitSteps[i] = "proc" <=> i = 5
                        /\ InitSteps[i] = "relayTimer" <=> i = 7
                        /\ InitSteps[i] = "relayIrq" <=> i = 9
                        /\ InitSteps[i] = "ppsTimer" <=> i = 15
                        /\ InitSteps[i] = "ppsIrq" <=> i = 17
                        /\ InitSteps[i] = "start" <=> i = 18
                        /\ InitSteps[i] = "state" <=> i = 19
  /\ \A i \in 1 .. 9 : /\ CleanupSteps[i] = "ppsStop" <=> i = 1
                       /\ CleanupSteps[i] = "ppsTimer" <=> i = 2
                       /\ CleanupSteps[i] = "ppsIrq" <=> i = 3
                       /\ CleanupSteps[i] = "relayStop" <=> i = 5
                       /\ CleanupSteps[i] = "relayTimer" <=> i = 6
                       /\ CleanupSteps[i] = "relayIrq" <=> i = 7
                       /\ CleanupSteps[i] = "class" <=> i = 8
                       /\ CleanupSteps[i] = "rest" <=> i = 9
<1>1. Len(InitSteps) = 19
  BY DEF InitSteps
<1>2. ASSUME NEW i \in 1 .. 19
      PROVE  /\ InitSteps[i] = "class" <=> i = 3
             /\ InitSteps[i] = "proc" <=> i = 5
             /\ InitSteps[i] = "relayTimer" <=> i = 7
             /\ InitSteps[i] = "relayIrq" <=> i = 9
             /\ InitSteps[i] = "ppsTimer" <=> i = 15
             /\ InitSteps[i] = "ppsIrq" <=> i = 17
             /\ InitSteps[i] = "start" <=> i = 18
             /\ InitSteps[i] = "state" <=> i = 19
  BY DEF InitSteps
<1>3. ASSUME NEW i \in 1 .. 9
      PROVE  /\ CleanupSteps[i] = "ppsStop" <=> i = 1
             /\ CleanupSteps[i] = "ppsTimer" <=> i = 2
             /\ CleanupSteps[i] = "ppsIrq" <=> i = 3
             /\ CleanupSteps[i] = "relayStop" <=> i = 5
             /\ CleanupSteps[i] = "relayTimer" <=> i = 6
             /\ CleanupSteps[i] = "relayIrq" <=> i = 7
             /\ CleanupSteps[i] = "class" <=> i = 8
             /\ CleanupSteps[i] = "rest" <=> i = 9
  BY DEF CleanupSteps
<1>4. QED
  BY <1>1, <1>2, <1>3

(* A step of insmod that succeeds.  It acquires the class only if nothing  *)
(* was left behind.                                                        *)
LEMMA SucceedsInv ==
  ASSUME LoadInv, StepSucceeds
  PROVE  LoadInv'
<1>1. step \in 1 .. 19 /\ phase = "init"
  BY DEF LoadInv, LoadTypeOK, StepSucceeds
<1>2. held \subseteq held'
      /\ held' \subseteq held \cup ({InitStep} \cap Resources)
      /\ (step # 5 => held' = held \cup ({InitStep} \cap Resources))
      /\ (step = 3 => "class" \notin held)
  BY <1>1, StepNumbers DEF StepSucceeds, InitStep, Exclusive
<1>3. IF step = 19 THEN phase' = "in" /\ step' = 1
      ELSE phase' = "init" /\ step' = step + 1
  BY <1>1, StepNumbers DEF StepSucceeds
<1>4. LoadTypeOK'
  BY <1>1, <1>2, <1>3 DEF LoadInv, LoadTypeOK, StepSucceeds, States
<1>5. GoneBlocks'
  <2>1. gone' = gone
    BY DEF StepSucceeds
  <2>2. step = 3 => gone = {} /\ "class" \in held'
    BY <1>1, <1>2, StepNumbers
    DEF LoadInv, GoneBlocks, InitStep, Resources
  <2>3. step < 3 => held' \cap Irqs = held \cap Irqs
    BY <1>1, <1>2, StepNumbers DEF InitStep, Irqs
  <2>4. QED
    BY <1>1, <1>2, <1>3, <2>1, <2>2, <2>3 DEF LoadInv, GoneBlocks
<1>6. TimersHeld'
  <2>1. /\ step = 7 => "relayTimer" \in held'
        /\ step = 15 => "ppsTimer" \in held'
    BY <1>1, <1>2, StepNumbers DEF InitStep, Resources
  <2>2. QED
    BY <1>1, <1>2, <1>3, <2>1 DEF LoadInv, TimersHeld
<1>7. TimersRun'
  <2>1. /\ ppsRuns' => ppsRuns \/ step = 18
        /\ relayRuns' = relayRuns /\ hot' = hot
    BY <1>1, StepNumbers DEF StepSucceeds, InitStep, LoadInv, LoadTypeOK
  <2>2. QED
    BY <1>1, <1>3, <2>1 DEF LoadInv, TimersRun
<1>8. QED
  BY <1>4, <1>5, <1>6, <1>7 DEF LoadInv

(* A step of insmod that fails: a handler stays only with the class.       *)
LEMMA FailsInv ==
  ASSUME LoadInv, StepFails
  PROVE  LoadInv'
<1>1. step \in 1 .. 19 /\ phase = "init"
  BY DEF LoadInv, LoadTypeOK, StepFails
<1>2. PICK h : /\ Leave(h)
               /\ h \subseteq held \cup {"ppsPins"}
               /\ "class" \in held => "class" \in h
  <2>1. PICK left \in {{}, {InitStep} \cap {"ppsPins"}} :
          Leave((held \ (UndoneByConfiguration(InitStep)
                           \cup UndoneByLabels(step))) \cup left)
    BY DEF StepFails
  <2>2. "class" \notin UndoneByConfiguration(InitStep) \cup UndoneByLabels(step)
    BY DEF UndoneByConfiguration, UndoneByLabels
  <2>3. QED
    BY <2>1, <2>2
<1>3. phase' = "out" /\ step' = 1 /\ held' = h /\ gone' = h \cap Irqs
  BY <1>2 DEF Leave
<1>4. LoadTypeOK'
  BY <1>1, <1>2, <1>3 DEF LoadInv, LoadTypeOK, StepFails, Resources
<1>5. GoneBlocks'
  BY <1>1, <1>2, <1>3 DEF LoadInv, GoneBlocks, Irqs
<1>6. TimersHeld'
  BY <1>3 DEF TimersHeld
<1>7. TimersRun'
  <2>1. ~ppsRuns
    BY <1>1, StepNumbers DEF LoadInv, TimersRun, StepFails, InitStep
  <2>2. QED
    BY <1>1, <2>1 DEF LoadInv, TimersRun, StepFails
<1>8. QED
  BY <1>4, <1>5, <1>6, <1>7 DEF LoadInv

(* A step of rmmod: the handlers are gone before the module is.            *)
LEMMA CleanupInv ==
  ASSUME LoadInv, Cleanup
  PROVE  LoadInv'
<1>1. step \in 1 .. 9 /\ phase = "exit" /\ gone = {}
  BY DEF LoadInv, LoadTypeOK, GoneBlocks, Cleanup
<1>2. /\ ppsRuns' \in BOOLEAN /\ relayRuns' \in BOOLEAN
      /\ relayInt' \in BOOLEAN /\ hot' \in BOOLEAN /\ state' = state
      /\ ppsRuns' => ppsRuns /\ step # 1
      /\ relayRuns' /\ ~hot' => relayRuns /\ ~hot
      /\ relayRuns' /\ ~hot' /\ step = 5 => state \notin {"Switch_Gps_to_Off", "Gps_Off"}
  BY <1>1, StepNumbers
  DEF Cleanup, StopsRelay, CleanupStep, LoadInv, LoadTypeOK
<1>3. CASE step = 9
  <2>1. /\ phase' = "out" /\ step' = 1
        /\ held' = held \ ReleasedLast /\ gone' = held' \cap Irqs
    BY <1>1, <1>3, StepNumbers DEF Cleanup, CleanupStep, Leave
  <2>2. gone' = {}
    BY <1>1, <1>3, <2>1 DEF LoadInv, GoneBlocks, Irqs
  <2>3. LoadTypeOK' /\ GoneBlocks' /\ TimersHeld'
    BY <1>1, <1>2, <2>1, <2>2
    DEF LoadInv, LoadTypeOK, GoneBlocks, TimersHeld
  <2>4. TimersRun'
    BY <1>1, <1>2, <1>3, <2>1 DEF LoadInv, TimersRun
  <2>5. QED
    BY <2>3, <2>4 DEF LoadInv
<1>4. CASE step # 9
  <2>1. /\ phase' = "exit" /\ step' = step + 1 /\ gone' = {}
        /\ held' = held \ (IF step = 8 THEN ReleasedWithClass ELSE {CleanupStep})
    BY <1>1, <1>4, StepNumbers DEF Cleanup, CleanupStep
  <2>2. LoadTypeOK'
    BY <1>1, <1>2, <1>4, <2>1 DEF LoadInv, LoadTypeOK
  <2>3. GoneBlocks'
    BY <1>1, <1>4, <2>1, StepNumbers DEF LoadInv, GoneBlocks, CleanupStep
  <2>4. TimersHeld'
    BY <1>1, <1>4, <2>1, StepNumbers DEF LoadInv, TimersHeld, CleanupStep
  <2>5. TimersRun'
    BY <1>1, <1>2, <1>4, <2>1 DEF LoadInv, TimersRun
  <2>6. QED
    BY <2>2, <2>3, <2>4, <2>5 DEF LoadInv
<1>5. QED
  BY <1>3, <1>4

(* The relay timer is started by a Pps only in a loaded module.            *)
LEMMA PpsInv ==
  ASSUME LoadInv, PpsTimerIrqHandler
  PROVE  LoadInv'
<1>1. /\ state' \in States
      /\ state' = "Switch_Gps_to_Off" => state = "Gps_Fixed"
      /\ state \in {"Switch_Gps_to_Off", "Gps_Off"} => state' = "Gps_Off"
  BY DEF LoadInv, LoadTypeOK, PpsTimerIrqHandler, Transitions, States
<1>2. LoadTypeOK' /\ GoneBlocks' /\ TimersHeld'
  BY <1>1
  DEF LoadInv, LoadTypeOK, GoneBlocks, TimersHeld, PpsTimerIrqHandler
<1>3. TimersRun'
  BY <1>1 DEF LoadInv, LoadTypeOK, TimersRun, PpsTimerIrqHandler, PpsDelivered
<1>4. QED
  BY <1>2, <1>3 DEF LoadInv

(* The invariant of the module's life.                                     *)
LEMMA LoadInvariant == Spec => []LoadInv
<1>1. Init => LoadInv
  <2> SUFFICES ASSUME Init PROVE LoadInv
    OBVIOUS
  <2>1. LoadTypeOK
    BY DEF Init, LoadTypeOK, States
  <2>2. GoneBlocks /\ TimersHeld /\ TimersRun
    BY DEF Init, GoneBlocks, TimersHeld, TimersRun
  <2>3. QED
    BY <2>1, <2>2 DEF LoadInv
<1>2. LoadInv /\ [Next]_vars => LoadInv'
  <2> SUFFICES ASSUME LoadInv, [Next]_vars PROVE LoadInv'
    OBVIOUS
  <2>1. CASE Insmod
    BY <2>1 DEF Insmod, LoadInv, LoadTypeOK, GoneBlocks, TimersHeld,
                TimersRun, States
  <2>2. CASE Rmmod
    BY <2>2 DEF Rmmod, timerVars, LoadInv, LoadTypeOK, GoneBlocks,
                TimersHeld, TimersRun
  <2>3. CASE UNCHANGED loadVars
    BY <2>3 DEF loadVars, timerVars, LoadInv, LoadTypeOK, GoneBlocks,
                TimersHeld, TimersRun
  <2>4. CASE ClassDestroyKills
    BY <2>4, StepNumbers
    DEF ClassDestroyKills, CleanupStep, timerVars, LoadInv, LoadTypeOK,
        GoneBlocks, TimersHeld, TimersRun
  <2>5. QED
    BY <2>1, <2>2, <2>3, <2>4, SucceedsInv, FailsInv, CleanupInv, PpsInv
    DEF Next, vars, InsmodRefused, RelayTimerIrqHandler, Reading
<1>3. QED
  BY <1>1, <1>2, PTL DEF Spec

(* Interrupts find their driver, whatever loads fail at whatever step.     *)
THEOREM InterruptsFindDriver == Spec => []InterruptFindsDriver
<1>1. LoadInv => InterruptFindsDriver
  BY DEF LoadInv, LoadTypeOK, GoneBlocks, TimersHeld, TimersRun, InterruptFindsDriver,
         PpsDelivered, RelayDelivered
<1>2. QED
  BY <1>1, LoadInvariant, PTL

(* No event is stranded while the module comes and goes: every step is one *)
(* of the read protocol, or leaves its variables alone, or begins a load.  *)
THEOREM LoadStrandsNoEvent == Spec => []NoStrandedEvent
<1>1. Init => ReadTypeOK /\ NoStrandedEvent
  BY DEF Init, ReadInit, ReadTypeOK, NoStrandedEvent, ReaderPlaces, Kinds
<1>2. ASSUME ReadTypeOK, NoStrandedEvent, [Next]_vars
      PROVE  (ReadTypeOK /\ NoStrandedEvent)'
  <2>1. CASE Insmod
    BY <1>2, <2>1 DEF Insmod, ReadTypeOK, NoStrandedEvent, Kinds
  <2>2. CASE [ReadNext]_readVars
    BY <1>2, <2>2, ReadTypeStep, StrandedStep
  <2>3. QED
    BY <1>2, <2>1, <2>2
    DEF Next, vars, InsmodRefused, StepSucceeds, StepFails, Rmmod, Cleanup,
        ClassDestroyKills, PpsTimerIrqHandler, RelayTimerIrqHandler, Reading, ReadNext, Kinds
<1>3. QED
  BY <1>1, <1>2, PTL DEF Spec

-----------------------------------------------------------------------------
(* A module that is out without having left the class behind has left      *)
(* nothing but the mode of the relay timer's pin.                          *)
OutIsClean == phase = "out" /\ "class" \notin held => held \subseteq {"relayPin"}

(* What makes it inductive: what insmod has acquired before the class, and *)
(* what rmmod has released by which step.                                  *)
Leftovers ==
  /\ OutIsClean
  /\ phase = "init" /\ "class" \notin held =>
       held \subseteq {"relayPin", "region", "cdev"} /\ ("cdev" \in held => step = 3)
  /\ phase = "exit" => /\ step > 2 => "ppsTimer" \notin held
                       /\ step > 4 => "ppsPins" \notin held
                       /\ step > 6 => "relayTimer" \notin held
                       /\ step > 8 => held \cap ReleasedWithClass = {}

LEMMA LeftoversStep ==
  ASSUME LoadInv, Leftovers, [Next]_vars
  PROVE  Leftovers'
<1> USE DEF Leftovers, OutIsClean
<1>1. CASE Insmod
  BY <1>1 DEF Insmod
<1>2. CASE StepSucceeds
  <2>1. step \in 1 .. 19 /\ phase = "init"
    BY <1>2 DEF LoadInv, LoadTypeOK, StepSucceeds
  <2>2. /\ held \subseteq held'
        /\ held' \subseteq held \cup ({InitStep} \cap Resources)
        /\ step # 5 => held' = held \cup ({InitStep} \cap Resources)
    BY <1>2, <2>1, StepNumbers DEF StepSucceeds, InitStep
  <2>3. phase' \in {"init", "in"} /\ (step # 19 => step' = step + 1)
    BY <1>2, <2>1, StepNumbers DEF StepSucceeds
  <2>4. step >= 3 => "class" \in held'
    BY <2>1, <2>2, StepNumbers DEF LoadInv, GoneBlocks, InitStep, Resources
  <2>5. step = 1 => InitStep = "region"
    BY DEF InitStep, InitSteps
  <2>6. step = 2 => InitStep = "cdev"
    BY DEF InitStep, InitSteps
  <2>7. QED
    BY <2>1, <2>2, <2>3, <2>4, <2>5, <2>6
<1>3. CASE StepFails
  <2>1. step \in 1 .. 19 /\ phase = "init"
    BY <1>3 DEF LoadInv, LoadTypeOK, StepFails
  <2>2. PICK left \in {{}, {InitStep} \cap {"ppsPins"}} :
          Leave((held \ (UndoneByConfiguration(InitStep)
                           \cup UndoneByLabels(step))) \cup left)
    BY <1>3 DEF StepFails
  <2>3. /\ phase' = "out"
        /\ held' = (held \ (UndoneByConfiguration(InitStep)
                              \cup UndoneByLabels(step))) \cup left
    BY <2>2 DEF Leave
  <2>4. "class" \in held => "class" \in held'
    BY <2>3 DEF UndoneByConfiguration, UndoneByLabels
  <2>5. ASSUME "class" \notin held PROVE held' \subseteq {"relayPin"}
    <3>1. step \in 1 .. 3
      BY <2>1, <2>5 DEF LoadInv, GoneBlocks
    <3>2. InitStep \in {"region", "cdev", "class"}
      BY <3>1 DEF InitStep, InitSteps
    <3>3. left = {}
      BY <2>2, <3>2
    <3>4. "region" \in UndoneByLabels(step)
      BY DEF UndoneByLabels, Resources
    <3>5. "cdev" \in held => "cdev" \in UndoneByLabels(step)
      BY <2>1, <2>5 DEF UndoneByLabels, Resources
    <3>6. QED
      BY <2>1, <2>3, <2>5, <3>3, <3>4, <3>5
  <2>6. QED
    BY <2>3, <2>4, <2>5
<1>4. CASE Rmmod
  BY <1>4 DEF Rmmod
<1>5. CASE Cleanup
  <2>1. step \in 1 .. 9 /\ phase = "exit"
    BY <1>5 DEF LoadInv, LoadTypeOK, Cleanup
  <2>2. CASE step = 9
    <3>1. phase' = "out" /\ held' = held \ ReleasedLast
      BY <1>5, <2>1, <2>2, StepNumbers DEF Cleanup, CleanupStep, Leave
    <3>2. held \subseteq {"relayPin"} \cup ReleasedLast
      BY <2>1, <2>2 DEF LoadInv, LoadTypeOK, GoneBlocks, Resources, Irqs,
                        ReleasedWithClass, ReleasedLast
    <3>3. QED
      BY <3>1, <3>2
  <2>3. CASE step # 9
    <3>1. /\ phase' = "exit" /\ step' = step + 1
          /\ held' = held \ (IF step = 8 THEN ReleasedWithClass ELSE {CleanupStep})
      BY <1>5, <2>1, <2>3, StepNumbers DEF Cleanup, CleanupStep
    <3>2. step = 4 => CleanupStep = "ppsPins"
      BY DEF CleanupStep, CleanupSteps
    <3>3. QED
      BY <2>1, <3>1, <3>2, StepNumbers DEF CleanupStep
  <2>4. QED
    BY <2>2, <2>3
<1>6. CASE UNCHANGED <<phase, step, held>>
  BY <1>6
<1>7. CASE ClassDestroyKills
  BY <1>7 DEF ClassDestroyKills
<1>8. QED
  BY <1>1, <1>2, <1>3, <1>4, <1>5, <1>6, <1>7
  DEF Next, vars, loadVars, InsmodRefused, PpsTimerIrqHandler,
      RelayTimerIrqHandler, Reading

(* An unload that ends, and a load that fails before it has made the       *)
(* class, leave nothing that the next load could fail for.                 *)
THEOREM UnloadIsClean == Spec => []OutIsClean
<1>1. Init => Leftovers
  BY DEF Init, Leftovers, OutIsClean
<1>2. LoadInv /\ Leftovers /\ [Next]_vars => Leftovers'
  BY LeftoversStep
<1>3. Leftovers => OutIsClean
  BY DEF Leftovers
<1>4. QED
  BY <1>1, <1>2, <1>3, LoadInvariant, PTL DEF Spec

(* After a load that failed later than that, none succeeds before the      *)
(* system is restarted: no label of Synchronization_initialize destroys    *)
(* the class, which cannot be created twice.                               *)
THEOREM FailedLoadIsLast ==
  Spec => [](phase = "out" /\ "class" \in held => [](phase # "in"))
<1> DEFINE Blocked == /\ "class" \in held
                      /\ phase = "out" \/ (phase = "init" /\ step <= 3)
<1>1. LoadInv /\ Blocked /\ [Next]_vars => Blocked'
  <2> SUFFICES ASSUME LoadInv, Blocked, [Next]_vars PROVE Blocked'
    OBVIOUS
  <2>1. CASE Insmod
    BY <2>1 DEF Insmod
  <2>2. CASE StepSucceeds
    <3>1. step \in 1 .. 19 /\ phase = "init"
      BY <2>2 DEF LoadInv, LoadTypeOK, StepSucceeds
    <3>2. step # 3
      BY <2>2, <3>1, StepNumbers DEF StepSucceeds, InitStep, Exclusive
    <3>3. phase' = "init" /\ step' = step + 1 /\ held \subseteq held'
      BY <2>2, <3>1, <3>2, StepNumbers DEF StepSucceeds
    <3>4. QED
      BY <3>1, <3>2, <3>3
  <2>3. CASE StepFails
    <3>1. PICK left \in {{}, {InitStep} \cap {"ppsPins"}} :
            Leave((held \ (UndoneByConfiguration(InitStep)
                             \cup UndoneByLabels(step))) \cup left)
      BY <2>3 DEF StepFails
    <3>2. QED
      BY <3>1 DEF Leave, UndoneByConfiguration, UndoneByLabels
  <2>4. CASE Rmmod \/ Cleanup \/ ClassDestroyKills
    BY <2>4 DEF Rmmod, Cleanup, ClassDestroyKills
  <2>5. CASE UNCHANGED <<phase, step, held>>
    BY <2>5
  <2>6. QED
    BY <2>1, <2>2, <2>3, <2>4, <2>5
    DEF Next, vars, loadVars, InsmodRefused, PpsTimerIrqHandler,
        RelayTimerIrqHandler, Reading
<1>2. phase = "out" /\ "class" \in held => Blocked
  OBVIOUS
<1>3. Blocked => phase # "in"
  OBVIOUS
<1> HIDE DEF Blocked
<1>4. QED
  BY <1>1, <1>2, <1>3, LoadInvariant, PTL DEF Spec
=============================================================================
