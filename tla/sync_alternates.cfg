SPECIFICATION FairSpec
CONSTANTS
  r1 = r1
  Readers <- MCNoReader
  WORD = 3
  QUARTZ_DRIFT_NUMBER = 1
  PREEMPTION_TIME_VALUE_NUMBER = 1
  GPS_MAXIMUM_OFF_TIME = 2
  MINUTE = 1
  DEFAULT_OFF_TIME = 1
  CORRECTION_IRQ = 1
  SAME_CLOCK = TRUE
  MaxGap = 1
  StallSeconds = 2
  ModeArgs = {903}
  OffTimeArgs = {2}
  Qualities = {0, 1}
PROPERTY
  GpsAlternates
