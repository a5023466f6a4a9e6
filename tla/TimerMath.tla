----------------------------- MODULE TimerMath ------------------------------
(***************************************************************************)
(* The arithmetic of the synchronization driver on its two timers          *)
(* (ifsttar-synchronization-drv.c): registers of one machine word that     *)
(* wrap, unsigned differences of their values, and the signed and unsigned *)
(* interpretations of the same word.                                       *)
(*                                                                         *)
(* Module Synchronization measures time in seconds; here the registers     *)
(* count ticks, and every result of the driver is compared with a count    *)
(* that does not wrap.  The Pps handler runs at the edge; the relay        *)
(* handler's realignment may run later in the second.                      *)
(***************************************************************************)
EXTENDS Integers, FiniteSetsExt

CONSTANTS
  WORD,                 \* 2^32
  CLOCK,                \* m_uiPpsTimerInputClock: ticks in a second
  TICKS_PER_US,         \* m_uiPpsTimerInputClock / 1000000
  CORRECTION_US,        \* 3: the realignment aims this much before the edge
  QUARTZ_DRIFT_NUMBER,  \* 16
  Intervals             \* ticks there can be between two edges

ASSUME TimerAssumption ==
  /\ WORD \in Nat /\ WORD > 1
  /\ CLOCK \in 1 .. WORD - 1 /\ TICKS_PER_US \in Nat \ {0}
  /\ CORRECTION_US \in Nat /\ CORRECTION_US * TICKS_PER_US < WORD
  /\ QUARTZ_DRIFT_NUMBER \in Nat \ {0}
  /\ Intervals \subseteq Nat \ {0}

VARIABLES
  counter,      \* counter register of the capture timer
  last,         \* m_uiLastTimerValue: its value at the last edge
  table,        \* m_iPpsTimerErrorValueTable
  idx,          \* m_uiLastUsedTimerErrorValueTableCase
  reload,       \* m_uiTimerReloadValue
  relay,        \* counter register of the relay timer
  running,      \* the relay timer runs

(* What the registers stand for.                                           *)
  elapsed,      \* ticks since the last edge
  exact,        \* table, without any error of the arithmetic
  period,       \* ticks between the two edges the relay was loaded from
  due,          \* ticks until the relay timer shall overflow
  aligned       \* the realigning interrupt has been

vars == <<counter, last, table, idx, reload, relay, running, elapsed, exact,
          period, due, aligned>>

Word == 0 .. WORD - 1
Slots == 0 .. QUARTZ_DRIFT_NUMBER - 1

(* Unsigned and signed arithmetic of one word.                             *)
Wrap(x) == IF x >= WORD THEN x - WORD ELSE IF x < 0 THEN x + WORD ELSE x
Sub(x, y) == Wrap(x - y)
Signed(x) == IF x + x >= WORD THEN x - WORD ELSE x

Init ==
  /\ counter = 0 /\ last = 0 /\ idx = 0 /\ reload = 0 /\ relay = 0
  /\ table = [i \in Slots |-> 0] /\ exact = [i \in Slots |-> 0]
  /\ running = FALSE /\ elapsed = 0 /\ period = 0 /\ due = 0
  /\ aligned = FALSE

-----------------------------------------------------------------------------
(* Variant: the ticks before an overflow are forgotten.                    *)
QuartzError_AfterOverflow(capture) ==
  Signed(Sub(IF capture < last THEN capture ELSE capture - last, CLOCK))

(* ComputeAndAddQuartzError: the branch for an overflow uses 0xFFFFFFFF    *)
(* for the number of values of the counter.                                *)
QuartzError(capture) ==
  IF capture < last
  THEN Signed(Sub(Wrap(WORD - 1 - last + capture), CLOCK))
  ELSE Signed(Sub(capture - last, CLOCK))

(* Variant: the difference is held in a signed int.                        *)
CaptureMicroSecond_Signed == Signed(Sub(counter, last)) \div TICKS_PER_US

(* ComputeMicroSecond, for each of the two timers.                         *)
CaptureMicroSecond == Sub(counter, last) \div TICKS_PER_US
RelayMicroSecond == Sub(relay, reload) \div TICKS_PER_US

(* GetAverageQuartzError: a sum and a division of unsigned words.          *)
ErrorSum == MapThenSumSet(LAMBDA i : table[i], Slots)

GetAverageQuartzError == Signed((ErrorSum % WORD) \div QUARTZ_DRIFT_NUMBER)

ReloadValue(capture) == Sub(WORD - 1, Wrap(Sub(capture, last) - 1))

(* One tick of both timers; the relay timer reloads when it overflows.     *)
Tick ==
  /\ \E i \in Intervals : elapsed < i
  /\ counter' = Wrap(counter + 1)
  /\ elapsed' = elapsed + 1
  /\ IF running
     THEN /\ relay' = IF relay = WORD - 1 THEN reload ELSE relay + 1
          /\ due' = IF due = 1 THEN period ELSE due - 1
     ELSE UNCHANGED <<relay, due>>
  /\ UNCHANGED <<last, table, idx, reload, running, exact, period, aligned>>

(* The Pps handler: the quartz error of valid data, then, to switch the    *)
(* GPS off, the load of the relay timer, then the last timer value.        *)
RecordError(valid) ==
  IF valid
  THEN LET i == IF idx >= QUARTZ_DRIFT_NUMBER THEN 0 ELSE idx
       IN /\ table' = [table EXCEPT ![i] = QuartzError(counter)]
          /\ exact' = [exact EXCEPT ![i] = elapsed - CLOCK]
          /\ idx' = i + 1
  ELSE UNCHANGED <<table, exact, idx>>

StartRelay(switchOff) ==
  IF switchOff /\ ~running
  THEN /\ reload' = ReloadValue(counter)
       /\ relay' = reload' /\ running' = TRUE
       /\ period' = elapsed /\ due' = elapsed
  ELSE UNCHANGED <<reload, relay, running, period, due>>

Pps ==
  /\ elapsed \in Intervals
  /\ \E valid, switchOff \in BOOLEAN : RecordError(valid) /\ StartRelay(switchOff)
  /\ last' = counter
  /\ elapsed' = 0
  /\ UNCHANGED <<counter, aligned>>

(* Variant: the distance is subtracted.                                    *)
Realigned_Backwards(distance) ==
  Sub(relay, Wrap(distance + CORRECTION_US * TICKS_PER_US))

Realigned(distance) ==
  Wrap(relay + Wrap(distance + CORRECTION_US * TICKS_PER_US))

(* RelayTimerIrqHandler, interrupt number 10: the distance between the     *)
(* last edge and the overflow is added to the relay's counter.  The        *)
(* overflow may have come after the edge (the relay timer is late) or      *)
(* before it (early: the unsigned distance is negative).  Module           *)
(* Synchronization says what happens when the result is past the end of    *)
(* the counter.                                                            *)
Realign ==
  /\ running /\ ~aligned
  /\ elapsed + CORRECTION_US * TICKS_PER_US < period
  /\ LET atOverflow == Sub(counter, Sub(relay, reload))
     IN relay' = Realigned(Sub(atOverflow, last))
  /\ due' = period - elapsed - CORRECTION_US * TICKS_PER_US
  /\ aligned' = TRUE
  /\ UNCHANGED <<counter, last, table, idx, reload, running, elapsed, exact,
                 period>>

Next == Tick \/ Pps \/ Realign

Spec == Init /\ [][Next]_vars

-----------------------------------------------------------------------------
TypeOK ==
  /\ counter \in Word /\ last \in Word /\ reload \in Word /\ relay \in Word
  /\ idx \in 0 .. QUARTZ_DRIFT_NUMBER /\ running \in BOOLEAN
  /\ table \in [Slots -> Int] /\ exact \in [Slots -> Int]
  /\ elapsed \in Nat /\ period \in Nat /\ due \in Nat
  /\ aligned \in BOOLEAN

(* EXPORT_GD_DATA: between two edges less than a full turn of the counter  *)
(* apart, the microseconds are those since the last edge, across the wrap. *)
MicroSecondExact ==
  elapsed < WORD => CaptureMicroSecond = elapsed \div TICKS_PER_US

(* The recorded quartz errors are right within one tick, across the wrap   *)
(* and for intervals shorter and longer than a second, as long as the      *)
(* interval fits the signed word around CLOCK.                             *)
SmallError(e) == e + e < WORD /\ -WORD < e + e /\ e + CLOCK < WORD

QuartzErrorWithinOneTick ==
  \A i \in Slots :
    SmallError(exact[i]) /\ SmallError(exact[i] - 1)
      => table[i] \in {exact[i], exact[i] - 1}

(* The relay timer overflows when it shall: as many ticks after its load   *)
(* and after each overflow as there were between the two edges it was      *)
(* loaded from, and after the realignment CORRECTION_US before the edge    *)
(* that comes that many ticks after the last.  Its microseconds follow.    *)
RelayOnSchedule ==
  running /\ period < WORD
    => /\ WORD - relay = due
       /\ RelayMicroSecond = (period - due) \div TICKS_PER_US

(* "Return : The average average quartz error" (ifsttar-synchronization-   *)
(* drv.c:459): when the table has been filled, the average lies between    *)
(* its smallest and its largest error.                                     *)
AverageBetweenErrors ==
  LET errors == {table[i] : i \in Slots}
  IN idx = QUARTZ_DRIFT_NUMBER
       => GetAverageQuartzError \in Min(errors) .. Max(errors)
=============================================================================
