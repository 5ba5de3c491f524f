CONSTANTS
  Callers = {a, b}
  Channels = {x}
  Pumps = {p, q}
  NoPump = NoPump
  NoEntry = NoEntry
  MaxMessages = 2
  MaxEdits = 1
  MaxFaults = 1
SPECIFICATION ReloadSpec
INVARIANTS ReloadTypeOK NothingPassedOver
PROPERTIES ImplementsHub ImplementsSlots StoppedFallsSilent EditKept
