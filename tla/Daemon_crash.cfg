CONSTANTS
  Addr = {a1, a2, a3}
  Null = Null
  NumCells = 2
  QueueCells = {2}
  MaxFds = 2
  ByName = FALSE
SPECIFICATION Spec
INVARIANTS RunsForever
CHECK_DEADLOCK FALSE
