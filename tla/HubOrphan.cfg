CONSTANTS
  Callers = {a, b}
  Channels = {x}
  Pumps = {p, q, r}
  NoPump = NoPump
  NoEntry = NoEntry
SPECIFICATION Spec
INVARIANTS DroppedHandleCancels
