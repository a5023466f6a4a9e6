SPECIFICATION ReadSpec
CONSTANTS
  r1 = r1
  r2 = r2
  Readers <- MCReaders
INVARIANT
  ReadGivesReason
