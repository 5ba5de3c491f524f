CONSTANTS
  MaxText = 3
  Capacity = 2
  MaxChunks = 4
SPECIFICATION FairSpec
INVARIANTS TypeOK EndsComplete
PROPERTIES QuietAfterClose SequenceGrows KeepsPromise
CHECK_DEADLOCK FALSE
