CONSTANTS
  MaxMessages = 2
  MaxFaults = 2
  MaxBackoff = 1
  MaxPosts = 2
  Sum <- MCSum
  Drivers <- MCDrivers
SPECIFICATION FairSpec
INVARIANTS TypeSafe SettledIsHandled InOrderOnce
PROPERTIES Arrives StopsWhenCancelled
CHECK_DEADLOCK FALSE
