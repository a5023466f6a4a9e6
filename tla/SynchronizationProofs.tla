------------------------ MODULE SynchronizationProofs ------------------------
(***************************************************************************)
(* Theorems about the synchronization driver, for every value of the       *)
(* constants that SynchronizationAssumption allows: in particular for the  *)
(* 16 measurements, the 32-bit counters and the 60 minutes of the code.    *)
(***************************************************************************)
EXTENDS Synchronization, ReadWaitProofs

(* Unsigned arithmetic stays within a machine word.                        *)
LEMMA WordArithmetic ==
  ASSUME NEW x \in Word, NEW y \in Word
  PROVE  Inc(x) \in Word /\ Dec(x) \in Word /\ Sub(x, y) \in Word
BY SynchronizationAssumption DEF Word, Inc, Dec, Sub

(* The off times the ioctl accepts fit in a machine word.                  *)
LEMMA OffTimeFits ==
  ASSUME NEW t \in Nat, t <= GPS_MAXIMUM_OFF_TIME
  PROVE  t * MINUTE \in Word
<1>1. t * MINUTE \in Nat /\ GPS_MAXIMUM_OFF_TIME * MINUTE \in Nat
  BY SynchronizationAssumption
<1>2. PICK d \in Nat : GPS_MAXIMUM_OFF_TIME = t + d
  <2>1. GPS_MAXIMUM_OFF_TIME - t \in Nat BY SynchronizationAssumption
  <2> QED BY <2>1, SynchronizationAssumption
<1>3. GPS_MAXIMUM_OFF_TIME * MINUTE = t * MINUTE + d * MINUTE
  BY <1>2, SynchronizationAssumption
<1>4. d * MINUTE \in Nat
  BY SynchronizationAssumption
<1> QED
  BY <1>1, <1>3, <1>4, SynchronizationAssumption DEF Word

-----------------------------------------------------------------------------
(* Every step of the driver acts on the read protocol as one of its steps  *)
(* or leaves it alone.                                                     *)
LEMMA ReadStep == [Next]_vars => [ReadNext]_readVars
<1> SUFFICES ASSUME [Next]_vars PROVE [ReadNext]_readVars
  OBVIOUS
<1>1. CASE PpsTimerIrqHandler
  BY <1>1 DEF PpsTimerIrqHandler, PpsEpilogue, ReadNext, Kinds
<1>2. CASE RelayTimerIrqHandler
  BY <1>2 DEF RelayTimerIrqHandler, RelayCountsSecond, ReadNext, Kinds
<1>3. CASE Reading
  BY <1>3 DEF Reading, ReadNext
<1>4. CASE SupplyCopy \/ SupplyFlag \/ SupplyFault
  BY <1>4 DEF SupplyCopy, SupplyFlag, SupplyFault
<1>5. CASE SetDriverMode \/ SetGpsOffTime
  BY <1>5 DEF SetDriverMode, SetGpsOffTime
<1>6. CASE Tick \/ PpsEdge
  BY <1>6 DEF Tick, PpsEdge
<1>7. CASE UNCHANGED vars
  BY <1>7 DEF vars
<1> QED
  BY <1>1, <1>2, <1>3, <1>4, <1>5, <1>6, <1>7 DEF Next

(* The driver implements the read protocol ReadWait: its handlers touch    *)
(* m_bReadDone, m_uiReadKind and the wait queue only through Unlock.       *)
THEOREM ImplementsReadWait == Spec => ReadSpec
<1>1. Init => ReadInit
  BY DEF Init
<1> QED
  BY <1>1, ReadStep, PTL DEF Spec, ReadSpec

(* So no announced event is left behind in the driver either.              *)
THEOREM NoStrandedEventInDriver == Spec => []NoStrandedEvent
BY ImplementsReadWait, ReadNoStrandedEvent, PTL

-----------------------------------------------------------------------------
(* What ComputeAndAddQuartzError leaves behind.                            *)
LEMMA MeasureTypes ==
  ASSUME TypeOK, ComputeAndAddQuartzError
  PROVE  /\ drift' \in Word
         /\ errIdx' \in 0 .. QUARTZ_DRIFT_NUMBER
         /\ errTable' \in [Slots -> 0 .. MaxGap]
<1> USE SynchronizationAssumption DEF TypeOK
<1> DEFINE i == IF errIdx >= QUARTZ_DRIFT_NUMBER THEN 0 ELSE errIdx
           valid == dataSupplied /\ ValidQuality(temporary) /\ ValidQuality(official')
<1>1. i \in Slots /\ i + 1 \in 0 .. QUARTZ_DRIFT_NUMBER
  BY DEF Slots
<1>2. CASE valid
  <2>1. /\ errTable' = [errTable EXCEPT ![i] = interval]
        /\ errIdx' = i + 1
        /\ drift' = Inc(drift)
    BY <1>2 DEF ComputeAndAddQuartzError
  <2> QED
    BY <1>1, <2>1, WordArithmetic
<1>3. CASE ~valid
  <2>1. /\ drift' = IF drift > 0 THEN drift - 1 ELSE drift
        /\ UNCHANGED <<errTable, errIdx>>
    BY <1>3 DEF ComputeAndAddQuartzError
  <2> QED
    BY <2>1 DEF Word
<1> QED
  BY <1>2, <1>3

(* The type invariant, together with the relay timer's: its countdown      *)
(* would leave Nat if it could be 0 while the timer runs.  ReadTypeOK      *)
(* comes with the read protocol; the rest is shown action by action.       *)
THEOREM TypeCorrect == Spec => [](TypeOK /\ RelayCarriesClock)
<1> USE SynchronizationAssumption
<1>1. Init => TypeOK /\ RelayCarriesClock
  <2> SUFFICES ASSUME Init PROVE TypeOK /\ RelayCarriesClock
    OBVIOUS
  <2>1. ReadTypeOK
    BY DEF Init, ReadInit, ReadTypeOK, ReaderPlaces, Kinds
  <2>2. timeToOff \in Word /\ 0 \in Word
    BY OffTimeFits DEF Init, Word
  <2>3. errTable \in [Slots -> 0 .. MaxGap]
    BY DEF Init
  <2>4. average \in SUBSET (0 .. MaxGap)
    BY DEF Init
  <2>5. state \in States /\ mode \in Nat
    BY DEF Init, States, MODE1
  <2>6. /\ sinceEdge \in 0 .. MaxGap /\ interval \in 1 .. MaxGap
        /\ relayPeriod \in 0 .. MaxGap /\ relayIn \in Nat
        /\ preemptIdx \in 0 .. PREEMPTION_TIME_VALUE_NUMBER
        /\ errIdx \in 0 .. QUARTZ_DRIFT_NUMBER
        /\ added \in Nat /\ relayIrqs \in Nat
    BY DEF Init
  <2>7. TypeOK
    BY <2>1, <2>2, <2>3, <2>4, <2>5, <2>6 DEF Init, TypeOK
  <2> QED
    BY <2>7 DEF Init, RelayCarriesClock
<1>2. TypeOK /\ RelayCarriesClock /\ ReadTypeOK' /\ [Next]_vars
        => (TypeOK /\ RelayCarriesClock)'
  <2> SUFFICES ASSUME TypeOK, RelayCarriesClock, ReadTypeOK', [Next]_vars
               PROVE  TypeOK' /\ RelayCarriesClock'
    OBVIOUS
  <2>1. CASE PpsTimerIrqHandler
    <3>1. /\ dataSupplied' = FALSE /\ ppsPending' = FALSE
          /\ preemptIdx' \in 0 .. PREEMPTION_TIME_VALUE_NUMBER
          /\ UNCHANGED <<mode, timeToOff, sinceEdge, interval, relayPending,
                         relayIrqs, copying>>
      BY <2>1 DEF PpsTimerIrqHandler, PpsEpilogue, SavePreemptTime, TypeOK
    <3>2. CASE PpsInitialization
      <4>1. 0 \in Word /\ errTable' \in [Slots -> 0 .. MaxGap]
        BY <3>2 DEF PpsInitialization, Word
      <4>2. RelayCarriesClock'
        BY <3>2 DEF PpsInitialization, TypeOK, RelayCarriesClock
      <4>3. state' \in States /\ errIdx' \in 0 .. QUARTZ_DRIFT_NUMBER
        BY <3>2 DEF PpsInitialization, States
      <4> QED
        BY <3>1, <3>2, <4>1, <4>2, <4>3 DEF PpsInitialization, TypeOK,
           historyVars
    <3>3. CASE PpsWaitForGpsFixed
      BY <3>1, <3>3, MeasureTypes DEF PpsWaitForGpsFixed, PublishSuppliedData,
         TypeOK, RelayCarriesClock, States, historyVars
    <3>4. CASE PpsGpsFixed
      <4>1. /\ drift' \in Word /\ errIdx' \in 0 .. QUARTZ_DRIFT_NUMBER
            /\ errTable' \in [Slots -> 0 .. MaxGap]
        BY <3>4, MeasureTypes DEF PpsGpsFixed
      <4>2. average' \in SUBSET (0 .. MaxGap)
        BY <3>4, <4>1 DEF PpsGpsFixed, GetAverageQuartzError
      <4>3. official' \in Qualities
        BY <3>4 DEF PpsGpsFixed, PublishSuppliedData, TypeOK
      <4>4. /\ state' \in States /\ relayLeft' \in Word /\ loadedOff' \in Word
            /\ relayPeriod' \in 0 .. MaxGap /\ relayIn' \in Nat
            /\ RelayCarriesClock'
        BY <3>4 DEF PpsGpsFixed, StartRelayTimer, TypeOK, RelayCarriesClock,
           States
      <4> QED
        BY <3>1, <3>4, <4>1, <4>2, <4>3, <4>4 DEF PpsGpsFixed, TypeOK
    <3>5. CASE PpsSwitchGpsToOff
      <4>1. 0 \in Word
        BY DEF Word
      <4>2. RelayCarriesClock'
        BY <3>5 DEF PpsSwitchGpsToOff, TypeOK, RelayCarriesClock
      <4>3. state' \in States /\ added' \in Nat
        BY <3>5 DEF PpsSwitchGpsToOff, SecondIncrements, TypeOK, States
      <4> QED
        BY <3>1, <3>5, <4>1, <4>2, <4>3 DEF PpsSwitchGpsToOff, TypeOK,
           measureVars
    <3>6. CASE PpsGpsOff
      BY <3>1, <3>6 DEF PpsGpsOff, TypeOK, RelayCarriesClock, measureVars,
         historyVars
    <3> QED
      BY <2>1, <3>2, <3>3, <3>4, <3>5, <3>6 DEF PpsTimerIrqHandler
  <2>2. CASE RelayTimerIrqHandler
    <3>1. /\ added' \in Nat /\ relayLeft' \in Word /\ offCount' \in Word
          /\ gpsStatus' \in BOOLEAN
      <4>1. CASE state = "Gps_Off"
        <5>1. /\ added' = added + 1 /\ relayLeft' = Dec(relayLeft)
              /\ gpsStatus' = (gpsStatus \/ relayLeft' = 0)
              /\ offCount' = IF gpsStatus THEN offCount ELSE Inc(offCount)
          BY <2>2, <4>1 DEF RelayTimerIrqHandler, RelayCountsSecond,
             SecondIncrements
        <5>2. gpsStatus' \in BOOLEAN
          BY <5>1, Zenon
        <5> QED
          BY <5>1, <5>2, WordArithmetic DEF TypeOK
      <4>2. CASE state # "Gps_Off"
        BY <2>2, <4>2 DEF RelayTimerIrqHandler, TypeOK
      <4> QED
        BY <4>1, <4>2
    <3>2. RelayRealign
      BY <2>2 DEF RelayTimerIrqHandler
    <3>4. relayPending' \in BOOLEAN /\ astray' \in BOOLEAN
      <4>1. astray \in BOOLEAN BY DEF TypeOK
      <4> QED BY <3>2, <4>1, Zenon DEF RelayRealign
    <3>5. relayIn' \in Nat /\ (relayPeriod > 0 => relayIn' > 0)
      <4>1. \/ relayIn' = relayIn
            \/ relayIn' = StallSeconds
            \/ sinceEdge < relayPeriod /\ relayIn' = relayPeriod - sinceEdge
        BY <3>2, Zenon DEF RelayRealign
      <4> QED
        BY <4>1 DEF TypeOK, RelayCarriesClock
    <3>3. /\ preemptIdx' \in 0 .. PREEMPTION_TIME_VALUE_NUMBER
          /\ relayIrqs' \in Nat
          /\ dataSupplied' = FALSE
      BY <2>2 DEF RelayTimerIrqHandler, SavePreemptTime, TypeOK
    <3> QED
      BY <2>2, <3>1, <3>3, <3>4, <3>5 DEF RelayTimerIrqHandler, TypeOK,
         RelayCarriesClock, measureVars
  <2>3. CASE SupplyCopy \/ SupplyFlag \/ SupplyFault
    BY <2>3 DEF SupplyCopy, SupplyFlag, SupplyFault, TypeOK, RelayCarriesClock,
       handlerVars, measureVars, driverVars, timerVars, historyVars
  <2>4. CASE SetDriverMode
    BY <2>4 DEF SetDriverMode, TypeOK, RelayCarriesClock, handlerVars,
       measureVars, timerVars, historyVars
  <2>5. CASE SetGpsOffTime
    BY <2>5, OffTimeFits DEF SetGpsOffTime, TypeOK, RelayCarriesClock,
       handlerVars, measureVars, timerVars, historyVars
  <2>6. CASE Tick
    <3>1. /\ sinceEdge' \in 0 .. MaxGap
          /\ relayIn' \in Nat
          /\ relayPeriod > 0 => relayIn' > 0
      BY <2>6 DEF Tick, TypeOK, RelayCarriesClock
    <3>2. relayPending' \in BOOLEAN /\ settled' \in BOOLEAN
      BY <2>6, Zenon DEF Tick
    <3> QED
      BY <2>6, <3>1, <3>2 DEF Tick, TypeOK, RelayCarriesClock, measureVars
  <2>7. CASE PpsEdge
    BY <2>7 DEF PpsEdge, TypeOK, RelayCarriesClock, driverVars, handlerVars,
       measureVars, historyVars
  <2>8. CASE Reading
    BY <2>8 DEF Reading, TypeOK, RelayCarriesClock, driverVars, handlerVars,
       measureVars, timerVars, historyVars
  <2>9. CASE UNCHANGED vars
    BY <2>9 DEF vars, TypeOK, RelayCarriesClock, driverVars, handlerVars,
       measureVars, timerVars, historyVars
  <2> QED
    BY <2>1, <2>2, <2>3, <2>4, <2>5, <2>6, <2>7, <2>8, <2>9 DEF Next
<1> QED
  BY <1>1, <1>2, ImplementsReadWait, ReadTypeCorrect, PTL DEF Spec

-----------------------------------------------------------------------------
(* If enough data was counted, the table is filled.                        *)
LEMMA FixedMeansFilled ==
  ASSUME TypeOK, MeasureInv, drift >= QUARTZ_DRIFT_NUMBER
  PROVE  TableFilled
BY SynchronizationAssumption DEF TypeOK, MeasureInv, TableFilled, Slots, Word

(* Adding a quartz error keeps a filled table filled, and keeps drift      *)
(* below the number of measured slots of a table that is not.              *)
LEMMA MeasureStep ==
  ASSUME TypeOK, MeasureInv, ComputeAndAddQuartzError
  PROVE  /\ TableFilled => TableFilled'
         /\ \/ TableFilled'
            \/ /\ drift' <= errIdx'
               /\ \A i \in Slots : i < errIdx' => errTable'[i] > 0
<1> USE SynchronizationAssumption DEF TypeOK
<1> DEFINE k == IF errIdx >= QUARTZ_DRIFT_NUMBER THEN 0 ELSE errIdx
           valid == dataSupplied /\ ValidQuality(temporary) /\ ValidQuality(official')
<1>1. CASE valid
  <2>1. /\ errTable' = [errTable EXCEPT ![k] = interval]
        /\ errIdx' = k + 1
        /\ drift' = Inc(drift)
    BY <1>1 DEF ComputeAndAddQuartzError
  <2>2. k \in Slots
    BY DEF Slots
  <2>3. \A i \in Slots : errTable'[i] = IF i = k THEN interval ELSE errTable[i]
    BY <2>1, <2>2
  <2>4. drift' = 0 \/ drift' = drift + 1
    BY <2>1 DEF Inc
  <2> HIDE DEF k
  <2>5. TableFilled => TableFilled'
    BY <2>3 DEF TableFilled
  <2>6. ASSUME ~TableFilled
        PROVE  drift' <= errIdx' /\ \A i \in Slots : i < errIdx' => errTable'[i] > 0
    <3>1. drift <= errIdx /\ \A i \in Slots : i < errIdx => errTable[i] > 0
      BY <2>6 DEF MeasureInv
    <3>2. errIdx < QUARTZ_DRIFT_NUMBER
      BY <2>6, <3>1 DEF TableFilled, Slots
    <3>3. k = errIdx
      BY <3>2 DEF k
    <3>4. drift' <= errIdx'
      BY <2>1, <2>4, <3>1, <3>3 DEF Word
    <3>5. \A i \in Slots : i < errIdx' => errTable'[i] > 0
      BY <2>1, <2>3, <3>1, <3>3 DEF Slots
    <3> QED
      BY <3>4, <3>5
  <2> QED
    BY <2>5, <2>6
<1>2. CASE ~valid
  <2>1. /\ drift' = IF drift > 0 THEN drift - 1 ELSE drift
        /\ UNCHANGED <<errTable, errIdx>>
    BY <1>2 DEF ComputeAndAddQuartzError
  <2> QED
    BY <2>1 DEF MeasureInv, TableFilled, Word
<1> QED
  BY <1>1, <1>2

(* The measurement part of the invariant.  Only the capture timer's        *)
(* handler touches what it is about.                                       *)
THEOREM MeasureInvariant == Spec => []MeasureInv
<1> USE SynchronizationAssumption
<1>1. Init => MeasureInv
  BY DEF Init, MeasureInv, AverageOverMeasuredOnly, Slots
<1>2. TypeOK /\ MeasureInv /\ [Next]_vars => MeasureInv'
  <2> SUFFICES ASSUME TypeOK, MeasureInv, [Next]_vars PROVE MeasureInv'
    OBVIOUS
  <2>1. CASE PpsInitialization
    BY <2>1 DEF PpsInitialization, MeasureInv, AverageOverMeasuredOnly, Slots
  <2>2. CASE PpsWaitForGpsFixed
    <3>1. /\ \/ TableFilled'
             \/ /\ drift' <= errIdx'
                /\ \A i \in Slots : i < errIdx' => errTable'[i] > 0
          /\ drift' \in Word
      BY <2>2, MeasureStep, MeasureTypes DEF PpsWaitForGpsFixed
    <3>2. state' \in {"Gps_Fixed", "Switch_Gps_to_Off", "Gps_Off"}
            => drift' >= QUARTZ_DRIFT_NUMBER
      BY <2>2 DEF PpsWaitForGpsFixed
    <3>3. AverageOverMeasuredOnly'
      BY <2>2 DEF PpsWaitForGpsFixed, MeasureInv, AverageOverMeasuredOnly
    <3> QED
      BY <3>1, <3>2, <3>3 DEF MeasureInv
  <2>3. CASE PpsGpsFixed
    <3>1. TableFilled
      BY <2>3, FixedMeansFilled DEF PpsGpsFixed, MeasureInv
    <3>2. TableFilled' /\ errTable' \in [Slots -> 0 .. MaxGap] /\ drift' \in Word
      BY <2>3, <3>1, MeasureStep, MeasureTypes DEF PpsGpsFixed
    <3>3. AverageOverMeasuredOnly'
      BY <2>3, <3>2 DEF PpsGpsFixed, GetAverageQuartzError,
         AverageOverMeasuredOnly, TableFilled
    <3>4. state' \in {"Gps_Fixed", "Switch_Gps_to_Off", "Gps_Off"}
            => drift' >= QUARTZ_DRIFT_NUMBER
      BY <2>3, <3>2 DEF PpsGpsFixed, StartRelayTimer, Word
    <3> QED
      BY <3>2, <3>3, <3>4 DEF MeasureInv
  <2>4. CASE PpsSwitchGpsToOff
    BY <2>4 DEF PpsSwitchGpsToOff, measureVars, MeasureInv, TableFilled,
       AverageOverMeasuredOnly
  <2>5. CASE UNCHANGED <<state, measureVars>>
    BY <2>5 DEF measureVars, MeasureInv, TableFilled, AverageOverMeasuredOnly
  <2>6. CASE PpsTimerIrqHandler
    BY <2>1, <2>2, <2>3, <2>4, <2>5, <2>6 DEF PpsTimerIrqHandler, PpsGpsOff
  <2>7. CASE RelayTimerIrqHandler
    BY <2>5, <2>7 DEF RelayTimerIrqHandler
  <2>8. CASE SupplyCopy \/ SupplyFlag \/ SupplyFault \/ SetDriverMode
             \/ SetGpsOffTime \/ Tick \/ PpsEdge \/ Reading
    BY <2>5, <2>8 DEF SupplyCopy, SupplyFlag, SupplyFault, SetDriverMode,
       SetGpsOffTime, Tick, PpsEdge, Reading, driverVars, handlerVars
  <2>9. CASE UNCHANGED vars
    BY <2>5, <2>9 DEF vars, driverVars, handlerVars
  <2> QED
    BY <2>6, <2>7, <2>8, <2>9 DEF Next
<1> QED
  BY <1>1, <1>2, TypeCorrect, PTL DEF Spec

(* The quartz error that the driver exports is never an average over slots *)
(* that were not measured since the last reset.                            *)
THEOREM AverageIsMeasured == Spec => []AverageOverMeasuredOnly
<1>1. MeasureInv => AverageOverMeasuredOnly
  BY DEF MeasureInv
<1> QED
  BY <1>1, MeasureInvariant, PTL

(* The GPS is turned off only with a filled table and a running relay      *)
(* timer.                                                                  *)
THEOREM SwitchOffSafe == Spec => SwitchOffIsSafe
<1> USE SynchronizationAssumption
<1> DEFINE Safe == gpsStatus /\ ~gpsStatus' =>
                     /\ drift >= QUARTZ_DRIFT_NUMBER
                     /\ \A i \in Slots : errTable[i] > 0
                     /\ relayPeriod > 0
<1>1. TypeOK /\ RelayCarriesClock /\ MeasureInv /\ [Next]_vars => [Safe]_vars
  <2> SUFFICES ASSUME TypeOK, RelayCarriesClock, MeasureInv, Next,
                      gpsStatus, ~gpsStatus'
               PROVE  /\ drift >= QUARTZ_DRIFT_NUMBER
                      /\ \A i \in Slots : errTable[i] > 0
                      /\ relayPeriod > 0
    OBVIOUS
  <2>1. PpsTimerIrqHandler
    BY DEF Next, RelayTimerIrqHandler, RelayCountsSecond, SupplyCopy, SupplyFlag,
       SupplyFault, SetDriverMode, SetGpsOffTime, Tick, PpsEdge, Reading,
       driverVars, handlerVars
  <2>2. state = "Switch_Gps_to_Off"
    BY <2>1 DEF PpsTimerIrqHandler, PpsInitialization, PpsWaitForGpsFixed,
       PpsGpsFixed, PpsSwitchGpsToOff, PpsGpsOff
  <2>3. drift >= QUARTZ_DRIFT_NUMBER
    BY <2>2 DEF MeasureInv
  <2>4. TableFilled
    BY <2>3, FixedMeansFilled
  <2> QED
    BY <2>2, <2>3, <2>4 DEF TableFilled, RelayCarriesClock
<1> QED
  BY <1>1, TypeCorrect, MeasureInvariant, PTL DEF Spec, SwitchOffIsSafe

-----------------------------------------------------------------------------
(* Unsigned subtraction: from itself, by zero, and one step further.       *)
LEMMA SubFacts ==
  ASSUME NEW x \in Word, NEW y \in Word
  PROVE  /\ Sub(x, 0) = x
         /\ Sub(x, Sub(x, y)) = y
         /\ Dec(Sub(x, y)) = Sub(x, Inc(y))
BY SynchronizationAssumption DEF Word, Sub, Inc, Dec

(* The off time part of the invariant.                                     *)
THEOREM OffTimeInvariant == Spec => []OffTimeInv
<1> USE SynchronizationAssumption
<1>1. Init => OffTimeInv
  BY DEF Init, OffTimeInv, RestartOnTime
<1>2. TypeOK /\ OffTimeInv /\ [Next]_vars => OffTimeInv'
  <2> SUFFICES ASSUME TypeOK, OffTimeInv, [Next]_vars PROVE OffTimeInv'
    OBVIOUS
  <2>1. CASE PpsInitialization \/ PpsWaitForGpsFixed
    BY <2>1 DEF PpsInitialization, PpsWaitForGpsFixed, OffTimeInv, RestartOnTime,
       historyVars, TypeOK
  <2>2. CASE PpsGpsFixed
    BY <2>2 DEF PpsGpsFixed, StartRelayTimer, OffTimeInv, RestartOnTime, TypeOK
  <2>3. CASE PpsSwitchGpsToOff
    <3>1. /\ state' = "Gps_Off" /\ gpsStatus' = FALSE /\ offCount' = 0
          /\ relayLeft' = loadedOff /\ loadedOff' = loadedOff
      BY <2>3 DEF PpsSwitchGpsToOff, OffTimeInv
    <3>2. Sub(loadedOff, 0) = loadedOff
      BY SubFacts DEF TypeOK, Word
    <3> QED
      BY <3>1, <3>2 DEF OffTimeInv, RestartOnTime, TypeOK, Word
  <2>4. CASE UNCHANGED <<state, gpsStatus, relayLeft, loadedOff, offCount>>
    BY <2>4 DEF OffTimeInv, RestartOnTime, Sub
  <2>5. CASE PpsTimerIrqHandler
    BY <2>1, <2>2, <2>3, <2>4, <2>5 DEF PpsTimerIrqHandler, PpsGpsOff, historyVars
  <2>6. CASE RelayTimerIrqHandler
    <3>1. CASE state # "Gps_Off"
      BY <2>4, <2>6, <3>1 DEF RelayTimerIrqHandler
    <3>2. CASE state = "Gps_Off"
      <4>1. /\ relayLeft' = Dec(relayLeft)
            /\ gpsStatus' = (gpsStatus \/ relayLeft' = 0)
            /\ offCount' = IF gpsStatus THEN offCount ELSE Inc(offCount)
            /\ state' = "Gps_Off" /\ loadedOff' = loadedOff
        BY <2>6, <3>2 DEF RelayTimerIrqHandler, RelayCountsSecond
      <4>2. CASE gpsStatus'
        BY <4>1, <4>2 DEF OffTimeInv, RestartOnTime
      <4>3. CASE ~gpsStatus'
        <5>1. ~gpsStatus /\ relayLeft' # 0
          BY <4>1, <4>3
        <5>2. relayLeft' = Sub(loadedOff, Inc(offCount)) /\ offCount' = Inc(offCount)
          BY <4>1, <5>1, SubFacts DEF OffTimeInv, TypeOK
        <5>3. loadedOff > 0 => Inc(offCount) < loadedOff
          BY <5>1, <5>2 DEF OffTimeInv, RestartOnTime, TypeOK, Sub, Inc, Word
        <5> QED
          BY <4>1, <4>3, <5>2, <5>3 DEF OffTimeInv, RestartOnTime, Sub
      <4> QED
        BY <4>2, <4>3
    <3> QED
      BY <3>1, <3>2
  <2>7. CASE SupplyCopy \/ SupplyFlag \/ SupplyFault \/ SetDriverMode
             \/ SetGpsOffTime \/ Tick \/ PpsEdge \/ Reading
    BY <2>4, <2>7 DEF SupplyCopy, SupplyFlag, SupplyFault, SetDriverMode,
       SetGpsOffTime, Tick, PpsEdge, Reading, driverVars, handlerVars, historyVars
  <2>8. CASE UNCHANGED vars
    BY <2>4, <2>8 DEF vars, driverVars, handlerVars, historyVars
  <2> QED
    BY <2>5, <2>6, <2>7, <2>8 DEF Next
<1> QED
  BY <1>1, <1>2, TypeCorrect, PTL DEF Spec

(* A GPS turned off for a time that is not 0 is turned on again after      *)
(* exactly that many simulated Pps.                                        *)
THEOREM RestartInTime == Spec => []RestartOnTime
<1>1. OffTimeInv => RestartOnTime
  BY DEF OffTimeInv
<1> QED
  BY <1>1, OffTimeInvariant, PTL

(* GET_TIME_SINCE_GPS_OFF is exact while the off time is left alone.       *)
THEOREM TimeSinceOffExact == Spec => []TimeSinceOffIsExact
<1>1. TypeOK /\ OffTimeInv => TimeSinceOffIsExact
  BY SubFacts DEF TypeOK, OffTimeInv, TimeSinceOffIsExact, TimeSinceGpsOff
<1> QED
  BY <1>1, TypeCorrect, OffTimeInvariant, PTL

-----------------------------------------------------------------------------
(* The pace part of the invariant.                                         *)
THEOREM PaceInvariant == Spec => []PaceInv
<1> USE SynchronizationAssumption
<1>1. Init => PaceInv
  BY DEF Init, PaceInv
<1>2. TypeOK /\ RelayCarriesClock /\ PaceInv /\ [Next]_vars => PaceInv'
  <2> SUFFICES ASSUME TypeOK, RelayCarriesClock, PaceInv, [Next]_vars
               PROVE  PaceInv'
    OBVIOUS
  <2>1. CASE PpsTimerIrqHandler
    <3>1. relayPending' = relayPending
      BY <2>1 DEF PpsTimerIrqHandler
    <3>2. CASE PpsInitialization \/ PpsWaitForGpsFixed
      BY <3>1, <3>2 DEF PpsInitialization, PpsWaitForGpsFixed, PaceInv, historyVars
    <3>3. CASE PpsGpsFixed
      BY <3>1, <3>3 DEF PpsGpsFixed, StartRelayTimer, PaceInv
    <3>4. CASE PpsSwitchGpsToOff
      BY <3>1, <3>4 DEF PpsSwitchGpsToOff, PaceInv
    <3>5. CASE PpsGpsOff
      BY <3>1, <3>5 DEF PpsGpsOff, PaceInv, historyVars
    <3> QED
      BY <2>1, <3>2, <3>3, <3>4, <3>5 DEF PpsTimerIrqHandler
  <2>2. CASE RelayTimerIrqHandler
    <3>1. /\ relayPending /\ RelayRealign
          /\ settled' = settled /\ state' = state /\ relayPeriod' = relayPeriod
      BY <2>2 DEF RelayTimerIrqHandler
    <3>2. CASE astray'
      BY <3>1, <3>2 DEF PaceInv
    <3>3. CASE ~astray'
      <4>1. relayIn' = relayIn /\ astray' = astray /\ relayPending' = FALSE
        BY <3>1, <3>3 DEF RelayRealign
      <4>2. state = "Gps_Off" => added' = added + 1
        BY <2>2 DEF RelayTimerIrqHandler, RelayCountsSecond, SecondIncrements
      <4> QED
        BY <3>1, <4>1, <4>2 DEF PaceInv
    <3> QED
      BY <3>2, <3>3
  <2>3. CASE Tick
    BY <2>3 DEF Tick, PaceInv, RelayCarriesClock, TypeOK
  <2>4. CASE UNCHANGED <<state, settled, relayPeriod, astray, relayIn, added,
                         relayPending>>
    BY <2>4 DEF PaceInv
  <2>5. CASE SupplyCopy \/ SupplyFlag \/ SupplyFault \/ SetDriverMode
             \/ SetGpsOffTime \/ PpsEdge \/ Reading
    BY <2>4, <2>5 DEF SupplyCopy, SupplyFlag, SupplyFault, SetDriverMode,
       SetGpsOffTime, PpsEdge, Reading, driverVars, handlerVars, timerVars,
       historyVars
  <2>6. CASE UNCHANGED vars
    BY <2>4, <2>6 DEF vars, driverVars, handlerVars, timerVars, historyVars
  <2> QED
    BY <2>1, <2>2, <2>3, <2>5, <2>6 DEF Next
<1> QED
  BY <1>1, <1>2, TypeCorrect, PTL DEF Spec

(* While the GPS is off, the official time advances by one second in every *)
(* second, in whatever order the two interrupts are handled.               *)
THEOREM OffTimeKeepsPace == Spec => []OneSecondPerSecondWhileOff
<1>1. PaceInv => OneSecondPerSecondWhileOff
  BY DEF PaceInv, OneSecondPerSecondWhileOff
<1> QED
  BY <1>1, PaceInvariant, PTL

(* The relay timer runs exactly in the two states that need it and then    *)
(* always has an overflow to come.                                         *)
THEOREM RelayKeepsClock == Spec => []RelayCarriesClock
BY TypeCorrect, PTL

(* In the driver too, an application's only reader gets each Pps at most   *)
(* once: the driver implements the read protocol.                          *)
THEOREM ReportedOnceInDriver ==
  ASSUME \A r, s \in Readers : r = s
  PROVE  Spec => []ReportedOnce
<1>1. ReadSpec => []ReportedOnce
  BY OneReaderReportsOnce
<1> QED
  BY <1>1, ImplementsReadWait, PTL

(* A single reader of the driver learns the reason of its unlocking if no  *)
(* Pps, real or simulated, falls between its test of m_bReadDone and its   *)
(* reset of m_uiReadKind.                                                  *)
THEOREM ReasonInDriver ==
  ASSUME \A r, s \in Readers : r = s
  PROVE  Spec /\ QuietReads => []ReadGivesReason
<1>1. ReadSpec /\ QuietReads => []ReadGivesReason
  BY ReasonForQuietReader
<1> QED
  BY <1>1, ImplementsReadWait, PTL

-----------------------------------------------------------------------------
(* What a Pps does to the state and to the relay timer.                    *)
LEMMA PpsTransition ==
  ASSUME TypeOK, RelayCarriesClock, PpsTimerIrqHandler
  PROVE  /\ \E t \in Load!Transitions : state = t[1] /\ state' = t[2]
         /\ (relayPeriod > 0)' = (relayPeriod > 0 \/ state' = "Switch_Gps_to_Off")
<1> USE SynchronizationAssumption DEF Load!Transitions
<1>1. CASE PpsInitialization
  BY <1>1 DEF PpsInitialization, RelayCarriesClock, TypeOK
<1>2. CASE PpsWaitForGpsFixed
  BY <1>2 DEF PpsWaitForGpsFixed, RelayCarriesClock, TypeOK
<1>3. CASE PpsGpsFixed
  BY <1>3 DEF PpsGpsFixed, StartRelayTimer, RelayCarriesClock, TypeOK
<1>4. CASE PpsSwitchGpsToOff
  BY <1>4 DEF PpsSwitchGpsToOff, RelayCarriesClock, TypeOK
<1>5. CASE PpsGpsOff
  BY <1>5 DEF PpsGpsOff, RelayCarriesClock, TypeOK
<1> QED
  BY <1>1, <1>2, <1>3, <1>4, <1>5 DEF PpsTimerIrqHandler

(* The steps of the loaded driver are steps of SynchronizationLoad, so     *)
(* what that module leaves out of the state machine is not missed there.   *)
THEOREM ImplementsLoadedPhase == Spec => LoadedPhase
<1> USE DEF Load!loadVars, Load!timerVars
<1>1. TypeOK /\ RelayCarriesClock /\ [Next]_vars => [Load!Next]_(Load!vars)
  <2> SUFFICES ASSUME TypeOK, RelayCarriesClock, [Next]_vars
               PROVE  [Load!Next]_(Load!vars)
    OBVIOUS
  <2>1. CASE PpsTimerIrqHandler
    <3>1. Load!Unlock(1)
      BY <2>1 DEF PpsTimerIrqHandler, PpsEpilogue, Unlock, Load!Unlock, Wake,
         Load!Wake
    <3>2. Load!PpsTimerIrqHandler
      BY <2>1, <3>1, PpsTransition DEF Load!PpsTimerIrqHandler, Load!PpsDelivered
    <3> QED
      BY <3>2 DEF Load!Next
  <2>2. CASE RelayTimerIrqHandler
    <3>1. UNCHANGED <<state, relayPeriod>>
      BY <2>2 DEF RelayTimerIrqHandler
    <3>2. CASE state = "Gps_Off"
      <4>1. Load!Unlock(2)
        BY <2>2, <3>2 DEF RelayTimerIrqHandler, RelayCountsSecond, Unlock,
           Load!Unlock, Wake, Load!Wake
      <4>2. relayPeriod > 0
        BY <3>2 DEF RelayCarriesClock
      <4>3. Load!RelayTimerIrqHandler
        BY <3>1, <3>2, <4>1, <4>2 DEF Load!RelayTimerIrqHandler,
           Load!RelayDelivered
      <4> QED
        BY <4>3 DEF Load!Next
    <3>3. CASE state # "Gps_Off"
      BY <2>2, <3>1, <3>3 DEF RelayTimerIrqHandler, Load!vars, Load!readVars,
         readVars
    <3> QED
      BY <3>2, <3>3
  <2>3. CASE Reading
    <3>1. PICK r \in Readers : ReaderStep(r)
      BY <2>3 DEF Reading
    <3>2. UNCHANGED <<state, relayPeriod>>
      BY <2>3 DEF Reading, driverVars, handlerVars, timerVars
    <3>3. Load!ReaderStep(r)
      BY <3>1 DEF ReaderStep, ReadProgress, ReadCheck, ReadSignal, ReadSleep,
         ReadResume, ReadTake, ReadEmpty, ReadCopy, ReadReset, Goto,
         Load!ReaderStep, Load!ReadProgress, Load!ReadCheck, Load!ReadSignal,
         Load!ReadSleep, Load!ReadResume, Load!ReadTake, Load!ReadEmpty,
         Load!ReadCopy, Load!ReadReset, Load!Goto
    <3>4. Load!Reading(r)
      BY <3>2, <3>3 DEF Load!Reading
    <3> QED
      BY <3>4 DEF Load!Next
  <2>4. CASE UNCHANGED <<readVars, state, relayPeriod>>
    BY <2>4 DEF Load!vars, Load!readVars, readVars
  <2>5. CASE SupplyCopy \/ SupplyFlag \/ SupplyFault \/ SetDriverMode
             \/ SetGpsOffTime \/ Tick \/ PpsEdge
    BY <2>4, <2>5 DEF SupplyCopy, SupplyFlag, SupplyFault, SetDriverMode,
       SetGpsOffTime, Tick, PpsEdge, driverVars, handlerVars, timerVars
  <2>6. CASE UNCHANGED vars
    BY <2>4, <2>6 DEF vars, driverVars, handlerVars, timerVars
  <2> QED
    BY <2>1, <2>2, <2>3, <2>5, <2>6 DEF Next
<1> QED
  BY <1>1, TypeCorrect, PTL DEF Spec, LoadedPhase

-----------------------------------------------------------------------------
(* A GPS that was turned on again stays on and the driver stays in Gps_Off *)
(* for ever: the Pps handler has no way out of that state, and only the    *)
(* way through Switch_Gps_to_Off turns the GPS off.  So in one load of the *)
(* module the GPS is off during one period at most.                        *)
THEOREM OffOnlyOnce ==
  Spec => [](state = "Gps_Off" /\ gpsStatus
               => [](state = "Gps_Off" /\ gpsStatus))
<1> DEFINE OnAgain == state = "Gps_Off" /\ gpsStatus
<1>1. OnAgain /\ [Next]_vars => OnAgain'
  <2> SUFFICES ASSUME OnAgain, [Next]_vars PROVE OnAgain'
    OBVIOUS
  <2>1. CASE PpsTimerIrqHandler
    BY <2>1 DEF PpsTimerIrqHandler, PpsInitialization, PpsWaitForGpsFixed,
       PpsGpsFixed, PpsSwitchGpsToOff, PpsGpsOff
  <2>2. CASE RelayTimerIrqHandler
    BY <2>2 DEF RelayTimerIrqHandler, RelayCountsSecond
  <2>3. CASE SupplyCopy \/ SupplyFlag \/ SupplyFault \/ SetDriverMode
             \/ SetGpsOffTime \/ Tick \/ PpsEdge \/ Reading
    BY <2>3 DEF SupplyCopy, SupplyFlag, SupplyFault, SetDriverMode,
       SetGpsOffTime, Tick, PpsEdge, Reading, driverVars, handlerVars
  <2>4. CASE UNCHANGED vars
    BY <2>4 DEF vars, driverVars, handlerVars
  <2> QED
    BY <2>1, <2>2, <2>3, <2>4 DEF Next
<1> QED
  BY <1>1, PTL DEF Spec

(* RestartOnTime says that the GPS is not turned on too late; here, not    *)
(* too early: the simulated Pps that turns it on is the one at which the   *)
(* loaded off time is over (for an off time of 0, WORD Pps later, when the *)
(* unsigned time left has come round to 0).                                *)
THEOREM RestartNotEarly ==
  Spec => [][~gpsStatus /\ gpsStatus' => Inc(offCount) = loadedOff]_vars
<1> USE SynchronizationAssumption
<1>1. TypeOK /\ OffTimeInv /\ [Next]_vars
        => [~gpsStatus /\ gpsStatus' => Inc(offCount) = loadedOff]_vars
  <2> SUFFICES ASSUME TypeOK, OffTimeInv, Next, ~gpsStatus, gpsStatus'
               PROVE  Inc(offCount) = loadedOff
    OBVIOUS
  <2>1. state = "Gps_Off" /\ relayLeft = Sub(loadedOff, offCount)
    BY DEF OffTimeInv
  <2>2. RelayTimerIrqHandler
    BY <2>1 DEF Next, PpsTimerIrqHandler, PpsInitialization, PpsWaitForGpsFixed,
       PpsGpsFixed, PpsSwitchGpsToOff, PpsGpsOff, SupplyCopy, SupplyFlag,
       SupplyFault, SetDriverMode, SetGpsOffTime, Tick, PpsEdge, Reading,
       driverVars, handlerVars
  <2>3. Dec(relayLeft) = 0
    BY <2>1, <2>2 DEF RelayTimerIrqHandler, RelayCountsSecond
  <2> QED
    BY <2>1, <2>3 DEF TypeOK, Word, Sub, Inc, Dec
<1> QED
  BY <1>1, TypeCorrect, OffTimeInvariant, PTL DEF Spec

-----------------------------------------------------------------------------
(* Within one second the official time advances by two at most, and by two *)
(* only in the second in which the GPS is turned off, as long as the relay *)
(* timer was realigned with the edge of its own second.                    *)
DoubleOnlyWhenSwitching ==
  ~astray /\ added > 1 => added = 2 /\ state = "Gps_Off" /\ ~settled

(* What makes it inductive: an interrupt that may still add a second       *)
(* counts as if it had.  Outside Gps_Off nothing has been added yet.       *)
IncrementInv ==
  /\ settled => state = "Gps_Off"
  /\ state # "Gps_Off" => added = 0
  /\ ~astray => added + (IF relayPending THEN 1 ELSE 0)
                  <= (IF settled THEN 1 ELSE 2)

(* The two handlers count one second twice at most once in the life of a   *)
(* loaded module: in the second in which the state becomes Gps_Off, which  *)
(* is left never again (OffOnlyOnce).                                      *)
THEOREM DoubleCountIsConfined == Spec => []DoubleOnlyWhenSwitching
<1>1. Init => IncrementInv
  BY DEF Init, IncrementInv
<1>2. TypeOK /\ IncrementInv /\ [Next]_vars => IncrementInv'
  <2> SUFFICES ASSUME TypeOK, IncrementInv, [Next]_vars PROVE IncrementInv'
    OBVIOUS
  <2>1. CASE PpsTimerIrqHandler
    <3>1. UNCHANGED relayPending
      BY <2>1 DEF PpsTimerIrqHandler
    <3>2. CASE PpsInitialization \/ PpsWaitForGpsFixed
      BY <3>1, <3>2 DEF PpsInitialization, PpsWaitForGpsFixed, IncrementInv,
         historyVars
    <3>3. CASE PpsGpsFixed
      BY <3>1, <3>3 DEF PpsGpsFixed, StartRelayTimer, IncrementInv
    <3>4. CASE PpsSwitchGpsToOff
      BY <3>1, <3>4 DEF PpsSwitchGpsToOff, SecondIncrements, IncrementInv, TypeOK
    <3>5. CASE PpsGpsOff
      BY <3>1, <3>5 DEF PpsGpsOff, IncrementInv, historyVars
    <3> QED
      BY <2>1, <3>2, <3>3, <3>4, <3>5 DEF PpsTimerIrqHandler
  <2>2. CASE RelayTimerIrqHandler
    <3>1. /\ relayPending /\ RelayRealign
          /\ settled' = settled /\ state' = state
      BY <2>2 DEF RelayTimerIrqHandler
    <3>2. IF state = "Gps_Off" THEN added' = added + 1 ELSE added' = added
      BY <2>2 DEF RelayTimerIrqHandler, RelayCountsSecond, SecondIncrements
    <3>3. astray' \/ (relayPending' = FALSE /\ astray' = astray)
      BY <3>1 DEF RelayRealign
    <3> QED
      BY <3>1, <3>2, <3>3 DEF IncrementInv, TypeOK
  <2>3. CASE Tick
    <3>1. added' = 0 /\ state' = state /\ (settled' => state = "Gps_Off")
      BY <2>3 DEF Tick
    <3>2. /\ (IF relayPending' THEN 1 ELSE 0) \in {0, 1}
          /\ (IF settled' THEN 1 ELSE 2) \in {1, 2}
      OBVIOUS
    <3> QED
      BY <3>1, <3>2 DEF IncrementInv
  <2>4. CASE UNCHANGED <<state, settled, astray, added, relayPending>>
    BY <2>4 DEF IncrementInv
  <2>5. CASE SupplyCopy \/ SupplyFlag \/ SupplyFault \/ SetDriverMode
             \/ SetGpsOffTime \/ PpsEdge \/ Reading
    BY <2>4, <2>5 DEF SupplyCopy, SupplyFlag, SupplyFault, SetDriverMode,
       SetGpsOffTime, PpsEdge, Reading, driverVars, handlerVars, timerVars,
       historyVars
  <2>6. CASE UNCHANGED vars
    BY <2>4, <2>6 DEF vars, driverVars, handlerVars, timerVars, historyVars
  <2> QED
    BY <2>1, <2>2, <2>3, <2>5, <2>6 DEF Next
<1>3. TypeOK /\ IncrementInv => DoubleOnlyWhenSwitching
  BY DEF TypeOK, IncrementInv, DoubleOnlyWhenSwitching
<1> QED
  BY <1>1, <1>2, <1>3, TypeCorrect, PTL DEF Spec
=============================================================================
