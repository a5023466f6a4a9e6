SPECIFICATION Spec
CONSTANTS
  WORD = 16
  CLOCK = 5
  TICKS_PER_US = 2
  CORRECTION_US = 1
  QUARTZ_DRIFT_NUMBER = 2
  Intervals <- MCIntervals
INVARIANTS
  MicroSecondExact
  QuartzErrorWithinOneTick
  RelayOnSchedule
