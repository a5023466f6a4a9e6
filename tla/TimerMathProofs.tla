--------------------------- MODULE TimerMathProofs ---------------------------
(***************************************************************************)
(* The arithmetic of the timers is right for every width of the registers, *)
(* every clock and every sequence of intervals.                            *)
(***************************************************************************)
EXTENDS TimerMath, TLAPS

(* The capture timer's counter is elapsed ticks after the last edge,       *)
(* modulo WORD, and the relay timer's registers follow the schedule.       *)
CounterInv == elapsed < WORD => counter = Wrap(last + elapsed)

RelayInv ==
  running => /\ due \in 1 .. period
             /\ period < WORD => reload = WORD - period /\ relay = WORD - due

TimerInv == TypeOK /\ CounterInv /\ RelayInv /\ QuartzErrorWithinOneTick

(* The unsigned difference of counter and last edge is the ticks elapsed.  *)
LEMMA Difference ==
  ASSUME TypeOK, CounterInv, elapsed < WORD
  PROVE  Sub(counter, last) = elapsed
BY TimerAssumption DEF TypeOK, CounterInv, Sub, Wrap, Word

(* The recorded error is the exact one, or one less if the counter has     *)
(* wrapped since the last edge.                                            *)
LEMMA ErrorOfCapture ==
  ASSUME TypeOK, CounterInv
  PROVE  /\ QuartzError(counter) \in Int
         /\ SmallError(elapsed - CLOCK) /\ SmallError(elapsed - CLOCK - 1)
              => QuartzError(counter) \in {elapsed - CLOCK, elapsed - CLOCK - 1}
BY TimerAssumption DEF TypeOK, CounterInv, QuartzError, Signed, Sub, Wrap, Word,
   SmallError

(* The relay timer is loaded for exactly one interval.                     *)
LEMMA ReloadOfCapture ==
  ASSUME TypeOK, CounterInv, elapsed > 0
  PROVE  /\ ReloadValue(counter) \in Word
         /\ elapsed < WORD => ReloadValue(counter) = WORD - elapsed
BY TimerAssumption DEF TypeOK, CounterInv, ReloadValue, Sub, Wrap, Word

LEMMA TimerInit == Init => TimerInv
<1> SUFFICES ASSUME Init PROVE TimerInv
  OBVIOUS
<1>1. 0 \in Word /\ 0 \in 0 .. QUARTZ_DRIFT_NUMBER
  BY TimerAssumption DEF Word
<1>2. table \in [Slots -> Int] /\ exact \in [Slots -> Int]
  BY DEF Init
<1>3. TypeOK /\ RelayInv
  BY <1>1, <1>2 DEF Init, TypeOK, RelayInv
<1>4. CounterInv
  BY TimerAssumption DEF Init, CounterInv, Wrap
<1>5. QuartzErrorWithinOneTick
  BY DEF Init, QuartzErrorWithinOneTick
<1>6. QED
  BY <1>3, <1>4, <1>5 DEF TimerInv

LEMMA TickStep ==
  ASSUME TimerInv, Tick
  PROVE  TimerInv'
<1> USE TimerAssumption DEF TimerInv
<1>1. TypeOK'
  BY DEF Tick, TypeOK, RelayInv, Wrap, Word
<1>2. CounterInv'
  BY DEF Tick, TypeOK, CounterInv, Wrap, Word
<1>3. RelayInv'
  BY DEF Tick, TypeOK, RelayInv, Word
<1>4. QuartzErrorWithinOneTick'
  BY DEF Tick, QuartzErrorWithinOneTick
<1>5. QED
  BY <1>1, <1>2, <1>3, <1>4

LEMMA PpsStep ==
  ASSUME TimerInv, Pps
  PROVE  TimerInv'
<1> USE TimerAssumption DEF TimerInv
<1>1. PICK valid \in BOOLEAN, switchOff \in BOOLEAN :
        RecordError(valid) /\ StartRelay(switchOff)
  BY DEF Pps
<1>2. /\ elapsed \in Nat /\ elapsed > 0 /\ elapsed' = 0
      /\ last' = counter /\ UNCHANGED <<counter, aligned>>
  BY DEF Pps, TypeOK
<1>3. /\ table' \in [Slots -> Int] /\ exact' \in [Slots -> Int]
      /\ idx' \in 0 .. QUARTZ_DRIFT_NUMBER
      /\ QuartzErrorWithinOneTick'
  <2>1. CASE valid
    <3> DEFINE i == IF idx >= QUARTZ_DRIFT_NUMBER THEN 0 ELSE idx
    <3>1. /\ table' = [table EXCEPT ![i] = QuartzError(counter)]
          /\ exact' = [exact EXCEPT ![i] = elapsed - CLOCK]
          /\ idx' = i + 1 /\ i \in Slots
      BY <1>1, <2>1 DEF RecordError, TypeOK, Slots
    <3>2. idx' \in 0 .. QUARTZ_DRIFT_NUMBER
      BY <3>1 DEF Slots
    <3> HIDE DEF i
    <3>3. table' \in [Slots -> Int] /\ exact' \in [Slots -> Int]
      BY <1>2, <3>1, ErrorOfCapture DEF TypeOK
    <3>4. ASSUME NEW j \in Slots, SmallError(exact'[j]), SmallError(exact'[j] - 1)
          PROVE  table'[j] \in {exact'[j], exact'[j] - 1}
      <4>1. CASE j = i
        BY <1>2, <3>1, <3>4, <4>1, ErrorOfCapture DEF TypeOK
      <4>2. CASE j # i
        BY <3>1, <3>4, <4>2 DEF TypeOK, QuartzErrorWithinOneTick
      <4>3. QED
        BY <4>1, <4>2
    <3>5. QED
      BY <3>2, <3>3, <3>4 DEF QuartzErrorWithinOneTick, SmallError
  <2>2. CASE ~valid
    BY <1>1, <2>2 DEF RecordError, TypeOK, QuartzErrorWithinOneTick
  <2>3. QED
    BY <2>1, <2>2
<1>4. /\ reload' \in Word /\ relay' \in Word /\ running' \in BOOLEAN
      /\ period' \in Nat /\ due' \in Nat /\ RelayInv'
  <2>1. CASE switchOff /\ ~running
    BY <1>1, <1>2, <2>1, ReloadOfCapture DEF StartRelay, TypeOK, RelayInv
  <2>2. CASE ~(switchOff /\ ~running)
    BY <1>1, <2>2 DEF StartRelay, TypeOK, RelayInv
  <2>3. QED
    BY <2>1, <2>2
<1>5. CounterInv'
  BY <1>2 DEF TypeOK, CounterInv, Wrap, Word
<1>6. TypeOK'
  BY <1>2, <1>3, <1>4 DEF TypeOK
<1>7. QED
  BY <1>3, <1>4, <1>5, <1>6

LEMMA RealignStep ==
  ASSUME TimerInv, Realign
  PROVE  TimerInv'
<1> DEFINE c == CORRECTION_US * TICKS_PER_US
<1> USE TimerAssumption DEF TimerInv
<1>1. c \in Nat /\ c < WORD
  OBVIOUS
<1>2. /\ running /\ elapsed + c < period
      /\ relay' = Wrap(relay + Wrap(
                    Sub(Sub(counter, Sub(relay, reload)), last) + c))
      /\ due' = period - elapsed - c /\ aligned' = TRUE
      /\ UNCHANGED <<counter, last, table, idx, reload, running, elapsed, exact,
                     period>>
  BY DEF Realign, Realigned
<1> HIDE DEF c
<1>3. due' \in Nat /\ elapsed < period
  BY <1>1, <1>2 DEF TypeOK
<1>4. relay' \in Word
  <2>1. Sub(Sub(counter, Sub(relay, reload)), last) \in Word
    BY DEF TypeOK, Sub, Wrap, Word
  <2>2. Wrap(Sub(Sub(counter, Sub(relay, reload)), last) + c) \in Word
    BY <1>1, <2>1 DEF Wrap, Word
  <2>3. QED
    BY <1>2, <2>2 DEF TypeOK, Wrap, Word
<1>5. RelayInv'
  <2>1. due' \in 1 .. period
    BY <1>1, <1>2, <1>3 DEF TypeOK
  <2> SUFFICES ASSUME period < WORD
               PROVE  relay' = WORD - due'
    BY <1>2, <2>1 DEF RelayInv
  <2>2. Sub(relay, reload) = period - due
    <3>1. /\ relay = WORD - due /\ reload = WORD - period
          /\ due \in 1 .. period /\ period \in Nat
      BY <1>2 DEF RelayInv, TypeOK
    <3>2. QED
      BY <3>1 DEF Sub, Wrap
  <2>3. Sub(Sub(counter, period - due), last) =
          IF period - due <= elapsed THEN elapsed - (period - due)
          ELSE elapsed - (period - due) + WORD
    <3> DEFINE p == period - due
    <3>1. p \in Nat /\ p < WORD /\ elapsed < WORD
      BY <1>2, <1>3 DEF RelayInv, TypeOK
    <3>2. /\ counter \in 0 .. WORD - 1 /\ last \in 0 .. WORD - 1
          /\ elapsed \in Nat /\ counter = Wrap(last + elapsed)
      BY <3>1 DEF TypeOK, Word, CounterInv
    <3> HIDE DEF p
    <3>3. Sub(Sub(counter, p), last) =
            IF p <= elapsed THEN elapsed - p ELSE elapsed - p + WORD
      BY <3>1, <3>2 DEF Sub, Wrap
    <3>4. QED
      BY <3>3 DEF p
  <2>4. QED
    BY <1>1, <1>2, <1>3, <2>2, <2>3 DEF RelayInv, TypeOK, Wrap, Word
<1>6. TypeOK'
  BY <1>2, <1>3, <1>4 DEF TypeOK
<1>7. CounterInv' /\ QuartzErrorWithinOneTick'
  BY <1>2 DEF CounterInv, QuartzErrorWithinOneTick
<1>8. QED
  BY <1>5, <1>6, <1>7

(* The inductive invariant: registers and reference counts agree.         *)
THEOREM TimerInvariant == Spec => []TimerInv
<1>1. TimerInv /\ [Next]_vars => TimerInv'
  <2>1. CASE UNCHANGED vars
    BY <2>1 DEF vars, TimerInv, TypeOK, CounterInv, RelayInv,
       QuartzErrorWithinOneTick
  <2>2. QED
    BY <2>1, TickStep, PpsStep, RealignStep DEF Next
<1>2. QED
  BY <1>1, TimerInit, PTL DEF Spec

(* The microseconds, the recorded quartz errors and the relay timer are    *)
(* right across every wrap of the registers, as the three invariants say.  *)
THEOREM TimersExact ==
  Spec => [](MicroSecondExact /\ QuartzErrorWithinOneTick /\ RelayOnSchedule)
<1>1. TimerInv => MicroSecondExact
  BY Difference DEF TimerInv, MicroSecondExact, CaptureMicroSecond
<1>2. TimerInv => RelayOnSchedule
  BY TimerAssumption DEF TimerInv, TypeOK, RelayInv, RelayOnSchedule,
     RelayMicroSecond, Sub, Wrap, Word
<1>3. TimerInv => QuartzErrorWithinOneTick
  BY DEF TimerInv
<1>4. QED
  BY <1>1, <1>2, <1>3, TimerInvariant, PTL

(* The microseconds of the capture timer are right across its wraps.       *)
THEOREM MicroSecondsExact == Spec => []MicroSecondExact
BY TimersExact, PTL

(* A quartz error is off by at most the one tick lost at an overflow.      *)
THEOREM QuartzErrorsExact == Spec => []QuartzErrorWithinOneTick
BY TimersExact, PTL

-----------------------------------------------------------------------------
(* A quotient by two or more is at most a half.                            *)
LEMMA HalfAtMost ==
  ASSUME NEW x \in Nat, NEW n \in Nat, n >= 2
  PROVE  x \div n \in Nat /\ x \div n + x \div n <= x
<1> DEFINE q == x \div n
<1>1. q \in Int /\ n * q <= x /\ x < n * (q + 1)
  OBVIOUS
<1>2. q >= 0
  BY <1>1
<1>3. 2 * q <= n * q
  BY <1>1, <1>2
<1>4. QED
  BY <1>1, <1>2, <1>3

(* The cause of a wrong average, whatever the errors are: the division is  *)
(* one of unsigned words, so that with two slots or more its result has    *)
(* the sign bit clear.  A quartz that is slow in every second, whose       *)
(* errors are all negative, gets an average larger than each of them.      *)
(* (That a sum of integers is an integer takes an induction over the fold  *)
(* and is assumed of ErrorSum.)                                            *)
THEOREM AverageIsNeverNegative ==
  ASSUME QUARTZ_DRIFT_NUMBER >= 2
  PROVE  Spec => [](ErrorSum \in Int =>
                      /\ GetAverageQuartzError >= 0
                      /\ (\A i \in Slots : table[i] < 0) =>
                           \A i \in Slots : table[i] < GetAverageQuartzError)
<1>1. ASSUME TimerInv, ErrorSum \in Int
      PROVE  /\ GetAverageQuartzError >= 0
             /\ (\A i \in Slots : table[i] < 0) =>
                  \A i \in Slots : table[i] < GetAverageQuartzError
  <2> DEFINE x == ErrorSum % WORD
             q == x \div QUARTZ_DRIFT_NUMBER
  <2>1. x \in Nat /\ x < WORD
    BY <1>1, TimerAssumption
  <2>2. q \in Nat /\ q + q <= x
    BY <2>1, HalfAtMost, TimerAssumption
  <2>3. GetAverageQuartzError = q
    BY <2>1, <2>2, TimerAssumption DEF GetAverageQuartzError, Signed
  <2>4. table \in [Slots -> Int]
    BY <1>1 DEF TimerInv, TypeOK
  <2>5. QED
    BY <2>2, <2>3, <2>4
<1>2. QED
  BY <1>1, TimerInvariant, PTL
=============================================================================
