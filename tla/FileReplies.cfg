CONSTANTS
  Total = 4
  MaxParts = 3
  Retries = 2
SPECIFICATION FairSpec
INVARIANTS TypeOK FailsForAReason
PROPERTIES KeepsPromise
CHECK_DEADLOCK FALSE
