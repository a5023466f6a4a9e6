SPECIFICATION Spec
CONSTANTS
  r1 = r1
  Readers <- MCNoReader
  WORD = 4
  QUARTZ_DRIFT_NUMBER = 2
  PREEMPTION_TIME_VALUE_NUMBER = 1
  GPS_MAXIMUM_OFF_TIME = 2
  MINUTE = 1
  DEFAULT_OFF_TIME = 1
  CORRECTION_IRQ = 2
  SAME_CLOCK = TRUE
  MaxGap = 2
  StallSeconds = 2
  ModeArgs = {902, 903}
  OffTimeArgs = {0, 2, 3}
  Qualities = {0, 1}
INVARIANTS
  TypeOK
  AverageOverMeasuredOnly
  RelayCarriesClock
  OneSecondPerSecondWhileOff
  RestartOnTime
  TimeSinceOffIsExact
PROPERTIES
  SwitchOffIsSafe
