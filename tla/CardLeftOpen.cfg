CONSTANTS
  MaxText = 2
  Capacity = 2
  MaxChunks = 3
SPECIFICATION Spec
INVARIANTS TerminalClosesCard
CHECK_DEADLOCK FALSE
