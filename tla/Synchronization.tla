--------------------------- MODULE Synchronization ---------------------------
(***************************************************************************)
(* The synchronization driver (ifsttar-synchronization-drv.c): the state   *)
(* machine that the capture timer's interrupt (real Pps) and the relay     *)
(* timer's interrupt (simulated Pps) drive, the ioctls that feed and       *)
(* configure it, and the blocking read they unlock (module ReadWait).      *)
(*                                                                         *)
(* Both handlers are registered with IRQF_DISABLED on a one-core OMAP3:    *)
(* each runs to its end, so each is one action.  They, and the second      *)
(* itself, interleave with the statements of the ioctls and of the reads.  *)
(*                                                                         *)
(* Abstractions.  GPS data is its quality.  The official time is the       *)
(* number of seconds SecondIncrements has added since the current second   *)
(* began.  A timer value is the number of whole seconds it spans, so an    *)
(* entry of the quartz error table is the length of the interval it was    *)
(* measured over, 0 for an entry that memset cleared.                      *)
(***************************************************************************)
EXTENDS ReadWait, Integers

CONSTANTS
  WORD,                           \* 2^32: unsigned counters count modulo WORD
  QUARTZ_DRIFT_NUMBER,            \* 16: size of the quartz error table
  PREEMPTION_TIME_VALUE_NUMBER,   \* 32: size of the preemption time ring
  GPS_MAXIMUM_OFF_TIME,           \* 60: largest off time the ioctl accepts
  MINUTE,                         \* 60 seconds
  DEFAULT_OFF_TIME,               \* 5: off time set by the initialization
  CORRECTION_IRQ,                 \* 10: relay interrupt that realigns the timer
  SAME_CLOCK,                     \* the two timers have the same input clock
  MaxGap,                         \* Pps gaps of MaxGap or more seconds are one
  StallSeconds,                   \* seconds the 32-bit timer takes to wrap
  ModeArgs, OffTimeArgs,          \* what applications pass to the two ioctls
  Qualities                       \* qualities of the data they supply

ASSUME SynchronizationAssumption ==
  /\ WORD \in Nat /\ WORD > 1
  /\ QUARTZ_DRIFT_NUMBER \in Nat \ {0} /\ QUARTZ_DRIFT_NUMBER < WORD
  /\ PREEMPTION_TIME_VALUE_NUMBER \in Nat \ {0}
  /\ GPS_MAXIMUM_OFF_TIME \in Nat /\ MINUTE \in Nat \ {0}
  /\ GPS_MAXIMUM_OFF_TIME * MINUTE < WORD
  /\ DEFAULT_OFF_TIME \in 0 .. GPS_MAXIMUM_OFF_TIME
  /\ CORRECTION_IRQ \in Nat
  /\ SAME_CLOCK \in BOOLEAN
  /\ MaxGap \in Nat \ {0}
  /\ StallSeconds \in Nat \ {0}
  /\ ModeArgs \subseteq Nat /\ OffTimeArgs \subseteq Nat /\ Qualities \subseteq Nat
  /\ 0 \in Qualities

MODE1 == 901
MODE3 == 903

VARIABLES
  state,          \* m_DriverCurrentState
  mode,           \* m_uiDriverRunningMode
  gpsStatus,      \* m_bGpsStatus: what the driver takes the GPS for (the line
                  \* that drives its pin low is commented out)
  timeToOff,      \* m_uiGpsTimeToOff, in seconds
  relayLeft,      \* m_uiRelayTimerLeftTime
  drift,          \* m_uiTimerDriftCounter
  errIdx,         \* m_uiLastUsedTimerErrorValueTableCase
  errTable,       \* m_iPpsTimerErrorValueTable
  average,        \* m_iAverageTimerErrorValue, as the entries it averages
  official,       \* m_oGpsOfficialData.iQuality
  temporary,      \* m_oGpsTemporaryData.iQuality
  dataSupplied,   \* m_bDataSupplied
  preemptIdx,     \* m_uiLastUsedPreemptTimeValueTableCase
  added           \* m_oGpsOfficialData.oTimeTTimeInSeconds: seconds added
                  \* since the current second began

measureVars == <<drift, errIdx, errTable, average>>

(* What no ioctl writes.                                                   *)
handlerVars == <<state, gpsStatus, relayLeft, measureVars, official, preemptIdx,
                 added>>

driverVars == <<handlerVars, mode, timeToOff, temporary, dataSupplied>>

VARIABLES
  sinceEdge,      \* seconds since the last Pps edge (0: in this second)
  interval,       \* seconds between the last two captured edges
  ppsPending,     \* the capture interrupt is raised
  relayPeriod,    \* seconds between two relay overflows, 0: timer stopped
  relayIn,        \* seconds until the next overflow
  relayPending,   \* the overflow interrupt is raised
  relayIrqs,      \* the static counter i of RelayTimerIrqHandler
  copying         \* a SET_TEMPORARY_GPS_DATA ioctl has copied, not flagged

timerVars == <<sinceEdge, interval, ppsPending, relayPeriod, relayIn,
               relayPending, relayIrqs>>

(* History variables: they record, no action reads them.                   *)
VARIABLES
  settled,        \* the driver was already in Gps_Off when this second began
  astray,         \* the realignment used the capture of an earlier second
  loadedOff,      \* off time loaded when the relay timer was started
  offCount        \* simulated Pps handled since the GPS was turned off

historyVars == <<settled, astray, loadedOff, offCount>>

vars == <<readVars, driverVars, timerVars, copying, historyVars>>

States == {"Initialization", "Wait_for_Gps_Fixed", "Gps_Fixed",
           "Switch_Gps_to_Off", "Gps_Off"}

Word == 0 .. WORD - 1
Slots == 0 .. QUARTZ_DRIFT_NUMBER - 1

TypeOK ==
  /\ ReadTypeOK
  /\ state \in States
  /\ mode \in Nat
  /\ gpsStatus \in BOOLEAN
  /\ timeToOff \in Word /\ relayLeft \in Word /\ drift \in Word
  /\ errIdx \in 0 .. QUARTZ_DRIFT_NUMBER
  /\ errTable \in [Slots -> 0 .. MaxGap]
  /\ average \in SUBSET (0 .. MaxGap)
  /\ official \in Qualities /\ temporary \in Qualities
  /\ dataSupplied \in BOOLEAN
  /\ preemptIdx \in 0 .. PREEMPTION_TIME_VALUE_NUMBER
  /\ added \in Nat
  /\ sinceEdge \in 0 .. MaxGap /\ interval \in 1 .. MaxGap
  /\ relayPeriod \in 0 .. MaxGap /\ relayIn \in Nat
  /\ ppsPending \in BOOLEAN /\ relayPending \in BOOLEAN
  /\ relayIrqs \in Nat
  /\ copying \in BOOLEAN
  /\ settled \in BOOLEAN /\ astray \in BOOLEAN
  /\ loadedOff \in Word /\ offCount \in Word

(* The state Synchronization_initialize leaves behind.                     *)
Init ==
  /\ ReadInit
  /\ state = "Initialization" /\ mode = MODE1 /\ gpsStatus = TRUE
  /\ timeToOff = DEFAULT_OFF_TIME * MINUTE /\ relayLeft = 0
  /\ drift = 0 /\ errIdx = 0 /\ errTable = [i \in Slots |-> 0] /\ average = {}
  /\ official = 0 /\ temporary = 0 /\ dataSupplied = FALSE
  /\ preemptIdx = 0 /\ added = 0
  /\ sinceEdge = MaxGap /\ interval = MaxGap /\ ppsPending = FALSE
  /\ relayPeriod = 0 /\ relayIn = 0 /\ relayPending = FALSE /\ relayIrqs = 0
  /\ copying = FALSE
  /\ settled = FALSE /\ astray = FALSE /\ loadedOff = 0 /\ offCount = 0

-----------------------------------------------------------------------------
(* Unsigned arithmetic.                                                    *)
Inc(x) == IF x = WORD - 1 THEN 0 ELSE x + 1
Dec(x) == IF x = 0 THEN WORD - 1 ELSE x - 1
Sub(x, y) == IF x >= y THEN x - y ELSE x - y + WORD

SecondIncrements == added' = added + 1

(* Variant: the ring index is never taken back to the start.               *)
SavePreemptTime_NoWrap == preemptIdx' = preemptIdx + 1

(* The two handlers share one ring of preemption times.                    *)
SavePreemptTime ==
  preemptIdx' = IF preemptIdx >= PREEMPTION_TIME_VALUE_NUMBER THEN 1
                                                              ELSE preemptIdx + 1

-----------------------------------------------------------------------------
(* The capture timer's handler, by state.  What all states share comes     *)
(* last in the code and is PpsEpilogue here.                               *)

ValidQuality(q) == q \in {1, 2}

(* In Wait_for_Gps_Fixed and Gps_Fixed: the supplied data becomes          *)
(* official, then ComputeAndAddQuartzError tests it.                       *)
PublishSuppliedData == official' = IF dataSupplied THEN temporary ELSE official

ComputeAndAddQuartzError ==
  IF dataSupplied /\ ValidQuality(temporary) /\ ValidQuality(official')
  THEN LET i == IF errIdx >= QUARTZ_DRIFT_NUMBER THEN 0 ELSE errIdx
       IN /\ errTable' = [errTable EXCEPT ![i] = interval]
          /\ errIdx' = i + 1
          /\ drift' = Inc(drift)
  ELSE /\ drift' = IF drift > 0 THEN drift - 1 ELSE drift
       /\ UNCHANGED <<errTable, errIdx>>

GetAverageQuartzError == average' = {errTable'[i] : i \in Slots}

PpsInitialization ==
  /\ state = "Initialization"
  /\ gpsStatus' = TRUE
  /\ relayLeft' = timeToOff
  /\ drift' = 0
  /\ errIdx' = 0
  /\ errTable' = [i \in Slots |-> 0]
  /\ official' = 0
  /\ temporary' = 0
  /\ state' = "Wait_for_Gps_Fixed"
  /\ UNCHANGED <<average, added, relayPeriod, relayIn, historyVars>>

(* Variant: one measurement too few is taken for enough.                   *)
PpsWaitForGpsFixed_TooEarly ==
  /\ state = "Wait_for_Gps_Fixed"
  /\ PublishSuppliedData
  /\ ComputeAndAddQuartzError
  /\ state' = IF drift' >= QUARTZ_DRIFT_NUMBER - 1 THEN "Gps_Fixed" ELSE state
  /\ UNCHANGED <<gpsStatus, relayLeft, average, temporary, added, relayPeriod,
                 relayIn, historyVars>>

PpsWaitForGpsFixed ==
  /\ state = "Wait_for_Gps_Fixed"
  /\ PublishSuppliedData
  /\ ComputeAndAddQuartzError
  /\ state' = IF drift' >= QUARTZ_DRIFT_NUMBER THEN "Gps_Fixed" ELSE state
  /\ UNCHANGED <<gpsStatus, relayLeft, average, temporary, added, relayPeriod,
                 relayIn, historyVars>>

(* Variants: the timer is loaded but not started; the time left is not     *)
(* loaded with the off time.                                               *)
StartRelayTimer_NotStarted ==
  /\ relayLeft' = timeToOff
  /\ loadedOff' = timeToOff
  /\ state' = "Switch_Gps_to_Off"
  /\ UNCHANGED <<relayPeriod, relayIn>>

StartRelayTimer_NoReload ==
  /\ relayPeriod' = interval
  /\ relayIn' = interval
  /\ loadedOff' = timeToOff
  /\ state' = "Switch_Gps_to_Off"
  /\ UNCHANGED relayLeft

(* The relay timer is loaded with the last interval and started.           *)
StartRelayTimer ==
  /\ relayPeriod' = interval
  /\ relayIn' = interval
  /\ relayLeft' = timeToOff
  /\ loadedOff' = timeToOff
  /\ state' = "Switch_Gps_to_Off"

(* Variant: the switch is decided on the mode alone.                       *)
PpsGpsFixed_NoDriftTest ==
  /\ state = "Gps_Fixed"
  /\ PublishSuppliedData
  /\ ComputeAndAddQuartzError
  /\ GetAverageQuartzError
  /\ IF mode = MODE3 /\ SAME_CLOCK
     THEN StartRelayTimer
     ELSE UNCHANGED <<state, relayPeriod, relayIn, relayLeft, loadedOff>>
  /\ UNCHANGED <<gpsStatus, temporary, added, settled, astray, offCount>>

PpsGpsFixed ==
  /\ state = "Gps_Fixed"
  /\ PublishSuppliedData
  /\ ComputeAndAddQuartzError
  /\ GetAverageQuartzError
  /\ IF drift' >= QUARTZ_DRIFT_NUMBER /\ mode = MODE3 /\ SAME_CLOCK
     THEN StartRelayTimer
     ELSE /\ state' = IF drift' < QUARTZ_DRIFT_NUMBER THEN "Wait_for_Gps_Fixed"
                                                      ELSE state
          /\ UNCHANGED <<relayPeriod, relayIn, relayLeft, loadedOff>>
  /\ UNCHANGED <<gpsStatus, temporary, added, settled, astray, offCount>>

PpsSwitchGpsToOff ==
  /\ state = "Switch_Gps_to_Off"
  /\ gpsStatus' = FALSE
  /\ SecondIncrements
  /\ state' = "Gps_Off"
  /\ offCount' = 0
  /\ UNCHANGED <<relayLeft, measureVars, official, temporary, relayPeriod,
                 relayIn, settled, astray, loadedOff>>

(* Variant: the real Pps is counted beside the simulated one.              *)
PpsGpsOff_CountsToo ==
  /\ state = "Gps_Off"
  /\ SecondIncrements
  /\ UNCHANGED <<state, gpsStatus, relayLeft, measureVars, official, temporary,
                 relayPeriod, relayIn, historyVars>>

(* The code that left Gps_Off is commented out.                            *)
PpsGpsOff ==
  /\ state = "Gps_Off"
  /\ UNCHANGED <<state, gpsStatus, relayLeft, measureVars, official, temporary,
                 added, relayPeriod, relayIn, historyVars>>

(* Variant: the flag and the kind are set, the queue is not woken.         *)
PpsEpilogue_NoWake ==
  /\ dataSupplied' = FALSE
  /\ readKind' = 1 /\ readDone' = TRUE /\ unreported' = TRUE /\ UNCHANGED pc
  /\ SavePreemptTime

PpsEpilogue ==
  /\ dataSupplied' = FALSE
  /\ Unlock(1)
  /\ SavePreemptTime

PpsTimerIrqHandler ==
  /\ ppsPending
  /\ ppsPending' = FALSE
  /\ \/ PpsInitialization
     \/ PpsWaitForGpsFixed
     \/ PpsGpsFixed
     \/ PpsSwitchGpsToOff
     \/ PpsGpsOff
  /\ PpsEpilogue
  /\ UNCHANGED <<mode, timeToOff, sinceEdge, interval, relayPending, relayIrqs,
                 copying>>

-----------------------------------------------------------------------------
(* The relay timer's handler.                                              *)

(* Variants: the time left is tested before it is decremented; it is not   *)
(* decremented.                                                            *)
RelayCountsSecond_TestFirst ==
  /\ SecondIncrements
  /\ relayLeft' = Dec(relayLeft)
  /\ gpsStatus' = (gpsStatus \/ relayLeft = 0)
  /\ offCount' = IF gpsStatus THEN offCount ELSE Inc(offCount)
  /\ Unlock(2)

RelayCountsSecond_NoDecrement ==
  /\ SecondIncrements
  /\ gpsStatus' = (gpsStatus \/ relayLeft = 0)
  /\ offCount' = IF gpsStatus THEN offCount ELSE Inc(offCount)
  /\ Unlock(2)
  /\ UNCHANGED relayLeft

RelayCountsSecond ==
  /\ SecondIncrements
  /\ relayLeft' = Dec(relayLeft)
  /\ gpsStatus' = (gpsStatus \/ relayLeft' = 0)
  /\ offCount' = IF gpsStatus THEN offCount ELSE Inc(offCount)
  /\ Unlock(2)

(* One interrupt adds the distance between the overflow and the last       *)
(* captured edge to the counter.  With the edge of this second that is a   *)
(* phase shift.  With the edge of an earlier second it moves the counter   *)
(* by whole seconds: to an earlier overflow, past the wrap (the timer then *)
(* runs through its full width), or to just below the wrap (a second       *)
(* overflow at once).                                                      *)
RelayRealign ==
  \/ /\ relayIrqs # CORRECTION_IRQ \/ sinceEdge = 0
     /\ relayPending' = FALSE
     /\ UNCHANGED <<relayIn, astray>>
  \/ /\ relayIrqs = CORRECTION_IRQ /\ sinceEdge > 0
     /\ astray' = TRUE
     /\ \/ /\ sinceEdge < relayPeriod
           /\ relayIn' = relayPeriod - sinceEdge
           /\ relayPending' = FALSE
        \/ /\ sinceEdge >= relayPeriod
           /\ relayIn' = StallSeconds
           /\ relayPending' = FALSE
        \/ /\ sinceEdge = relayPeriod
           /\ relayPending' = TRUE
           /\ UNCHANGED relayIn

RelayTimerIrqHandler ==
  /\ relayPending
  /\ \/ state = "Gps_Off" /\ RelayCountsSecond
     \/ state # "Gps_Off"
        /\ UNCHANGED <<added, relayLeft, gpsStatus, offCount, readVars>>
  /\ RelayRealign
  /\ dataSupplied' = FALSE
  /\ SavePreemptTime
  /\ relayIrqs' = IF relayIrqs > CORRECTION_IRQ THEN relayIrqs ELSE relayIrqs + 1
  /\ UNCHANGED <<state, mode, timeToOff, measureVars, official, temporary,
                 sinceEdge, interval, ppsPending, relayPeriod, copying, settled,
                 loadedOff>>

-----------------------------------------------------------------------------
(* The ioctls that change state.                                           *)

(* SYNC_IOCTL_SET_TEMPORARY_GPS_DATA: the copy from the user, then the     *)
(* flag; a copy that faults returns before the flag.                       *)
SupplyCopy ==
  /\ ~copying
  /\ copying' = TRUE
  /\ \E q \in Qualities : temporary' = q
  /\ UNCHANGED <<readVars, handlerVars, mode, timeToOff, dataSupplied, timerVars,
                 historyVars>>

SupplyFlag ==
  /\ copying
  /\ copying' = FALSE
  /\ dataSupplied' = TRUE
  /\ UNCHANGED <<readVars, handlerVars, mode, timeToOff, temporary, timerVars,
                 historyVars>>

SupplyFault ==
  /\ copying
  /\ copying' = FALSE
  /\ UNCHANGED <<readVars, driverVars, timerVars, historyVars>>

(* The range test of the code is a conjunction no number satisfies.        *)
ModeRejected(arg) == arg < MODE1 /\ arg > MODE3

SetDriverMode ==
  /\ \E arg \in ModeArgs : ~ModeRejected(arg) /\ mode' = arg
  /\ UNCHANGED <<readVars, handlerVars, timeToOff, temporary, dataSupplied,
                 timerVars, copying, historyVars>>

SetGpsOffTime ==
  /\ \E arg \in OffTimeArgs :
       arg <= GPS_MAXIMUM_OFF_TIME /\ timeToOff' = arg * MINUTE
  /\ UNCHANGED <<readVars, handlerVars, mode, temporary, dataSupplied, timerVars,
                 copying, historyVars>>

(* SYNC_IOCTL_GET_TIME_SINCE_GPS_OFF *)
TimeSinceGpsOff == IF gpsStatus THEN 0 ELSE Sub(timeToOff, relayLeft)

-----------------------------------------------------------------------------
(* The hardware: seconds pass, the GPS raises at most one edge in each,    *)
(* the relay timer overflows every relayPeriod seconds.  Handlers finish   *)
(* within the second their interrupt was raised in.                        *)
Tick ==
  /\ ~ppsPending /\ ~relayPending
  /\ sinceEdge' = IF sinceEdge < MaxGap THEN sinceEdge + 1 ELSE MaxGap
  /\ relayPending' = (relayPeriod > 0 /\ relayIn = 1)
  /\ relayIn' = IF relayPeriod = 0 THEN relayIn
                ELSE IF relayIn = 1 THEN relayPeriod ELSE relayIn - 1
  /\ added' = 0
  /\ settled' = (state = "Gps_Off")
  /\ UNCHANGED <<readVars, state, gpsStatus, relayLeft, measureVars, official,
                 preemptIdx, mode, timeToOff, temporary, dataSupplied, interval,
                 ppsPending, relayPeriod, relayIrqs, copying, astray, loadedOff,
                 offCount>>

PpsEdge ==
  /\ sinceEdge > 0
  /\ ppsPending' = TRUE
  /\ interval' = sinceEdge
  /\ sinceEdge' = 0
  /\ UNCHANGED <<readVars, driverVars, relayPeriod, relayIn, relayPending,
                 relayIrqs, copying, historyVars>>

Reading ==
  /\ \E r \in Readers : ReaderStep(r)
  /\ UNCHANGED <<driverVars, timerVars, copying, historyVars>>

Next ==
  \/ PpsTimerIrqHandler
  \/ RelayTimerIrqHandler
  \/ SupplyCopy \/ SupplyFlag \/ SupplyFault
  \/ SetDriverMode
  \/ SetGpsOffTime
  \/ Tick
  \/ PpsEdge
  \/ Reading

Spec == Init /\ [][Next]_vars

(* Interrupts are served, the timers run, the GPS keeps pulsing now and    *)
(* then, an ioctl and a read in progress are scheduled.  Nothing is        *)
(* assumed about what applications ask for.                                *)
Fairness ==
  /\ WF_vars(Tick)
  /\ WF_vars(PpsEdge)
  /\ WF_vars(PpsTimerIrqHandler)
  /\ WF_vars(RelayTimerIrqHandler)
  /\ WF_vars(SupplyFlag \/ SupplyFault)
  /\ \A r \in Readers : WF_vars(Reading /\ ReadProgress(r))

FairSpec == Spec /\ Fairness

-----------------------------------------------------------------------------
(* The exported quartz error never averages a slot of the table that was   *)
(* not measured: drift counts valid data minus misses, so it reaches       *)
(* QUARTZ_DRIFT_NUMBER only after the ring has been filled once.           *)
AverageOverMeasuredOnly == 0 \notin average

(* The relay timer runs exactly from the Pps that loads it on, and as long *)
(* as it runs an overflow is to come, whatever the realignment did.        *)
RelayCarriesClock ==
  /\ relayPeriod > 0 <=> state \in {"Switch_Gps_to_Off", "Gps_Off"}
  /\ relayPeriod > 0 => relayIn > 0

(* In every second that began in Gps_Off, when both handlers have run, the *)
(* official time has advanced by one second, whatever the order of the     *)
(* two interrupts, provided the relay timer was loaded with an interval    *)
(* of one second and realigned with the edge of its own second.            *)
OneSecondPerSecondWhileOff ==
  settled /\ ~relayPending /\ relayPeriod = 1 /\ ~astray => added = 1

(* A GPS that was turned off is turned on again after the number of        *)
(* simulated Pps that was loaded with the relay timer (if it is not 0).    *)
RestartOnTime ==
  ~gpsStatus /\ loadedOff > 0 => offCount < loadedOff

(* GET_TIME_SINCE_GPS_OFF reports the seconds counted since the GPS was    *)
(* turned off, as long as the off time has not been changed meanwhile.     *)
TimeSinceOffIsExact ==
  ~gpsStatus /\ timeToOff = loadedOff => TimeSinceGpsOff = offCount

(* The driver turns the GPS off only when every slot of the table has been *)
(* measured, valid data outnumbers misses by QUARTZ_DRIFT_NUMBER since     *)
(* drift was last 0 (it need not be consecutive, as a miss only takes one  *)
(* off), and the timer that replaces the GPS runs.                         *)
SwitchOffIsSafe ==
  [][gpsStatus /\ ~gpsStatus' =>
       /\ drift >= QUARTZ_DRIFT_NUMBER
       /\ \A i \in Slots : errTable[i] > 0
       /\ relayPeriod > 0]_vars

(* The parts of the inductive invariant that the properties above follow   *)
(* from.  While the table is not filled, drift is at most the number of    *)
(* slots measured so far, and those are the first errIdx ones.             *)
TableFilled == \A i \in Slots : errTable[i] > 0

MeasureInv ==
  /\ \/ TableFilled
     \/ drift <= errIdx /\ \A i \in Slots : i < errIdx => errTable[i] > 0
  /\ state \in {"Gps_Fixed", "Switch_Gps_to_Off", "Gps_Off"}
       => drift >= QUARTZ_DRIFT_NUMBER
  /\ AverageOverMeasuredOnly

(* Loaded time, time left and simulated Pps counted add up, modulo WORD.   *)
OffTimeInv ==
  /\ ~gpsStatus => state = "Gps_Off"
  /\ state = "Switch_Gps_to_Off" => relayLeft = loadedOff
  /\ ~gpsStatus => relayLeft = Sub(loadedOff, offCount)
  /\ RestartOnTime

(* A relay timer of one second that was not led astray overflows once in   *)
(* every second, and that overflow is what advances the official time.     *)
PaceInv ==
  /\ settled => state = "Gps_Off"
  /\ relayPeriod = 1 /\ ~astray => relayIn = 1
  /\ settled /\ relayPeriod = 1 /\ ~astray
       => added = IF relayPending THEN 0 ELSE 1

(* The driver as module SynchronizationLoad sees it while it is loaded:    *)
(* the order of its states, and whether the relay timer runs.              *)
Load == INSTANCE SynchronizationLoad WITH
          phase <- "in", step <- 1, gone <- {},
          held <- {"ppsIrq", "relayIrq", "region", "cdev", "class", "device",
                   "proc", "relayPin", "relayTimer", "gpsPin", "gpsGpio",
                   "ppsPins", "ppsTimer"},
          ppsRuns <- TRUE, relayRuns <- relayPeriod > 0, relayInt <- TRUE,
          hot <- FALSE

(* What SynchronizationLoad assumes of the handlers of a loaded module is  *)
(* what they do: a Pps takes one of its Transitions, the relay timer is    *)
(* started by the one into Switch_Gps_to_Off and by no other step, and the *)
(* simulated Pps unlocks reads in Gps_Off only.                            *)
LoadedPhase == [][Load!Next]_(Load!vars)

(* A GPS turned off is eventually turned on again.                         *)
GpsTurnedOnAgain == ~gpsStatus ~> gpsStatus

(* "Gps alternates On/Off periods" (ifsttar-synchronization-drv.h:42): if  *)
(* valid data keeps being supplied, a GPS that was turned on again in      *)
(* MODE3 is eventually turned off again.                                   *)
GpsAlternates ==
  []<>(dataSupplied /\ ValidQuality(temporary))
    => (mode = MODE3 /\ state = "Gps_Off" /\ gpsStatus ~> ~gpsStatus)

(* "If the second have been decremented or if there have been incremented  *)
(* by more than one" (ifsttar-synchronization-drv.c:551) is what the       *)
(* verification thread calls an error: within one second the handlers add  *)
(* at most one second to the official time.                                *)
AtMostOneIncrement == added <= 1
=============================================================================
