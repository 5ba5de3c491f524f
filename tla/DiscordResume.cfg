CONSTANTS
  MaxMessages = 2
  MaxFaults = 2
  MaxBackoff = 1
  MaxPosts = 2
  Sum <- MCSum
  Drivers <- MCDiscord
SPECIFICATION Spec
INVARIANTS ResumesOnReconnect
CHECK_DEADLOCK FALSE
