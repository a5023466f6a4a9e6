SPECIFICATION FairSpec
CONSTANTS
  r1 = r1
  r2 = r2
  Readers <- MCReaders
INVARIANTS
  NoStrandedEvent
  InterruptFindsDriver
PROPERTY
  ReadReturns
