SPECIFICATION BothSpec
CONSTANTS
  g1 = g1
  g2 = g2
  t1 = t1
  t2 = t2
  t3 = t3
  f1 = f1
  f2 = f2
  Threads <- MCThreads
  Callbacks <- MCCallbacks
INVARIANTS
  RunningIffConnected
  AlwaysServed
  PollReplacesRead
  OneWayNeverRefused
PROPERTIES
  GpioReadUnlocks
  EventFetched
  ThreadsEnd
