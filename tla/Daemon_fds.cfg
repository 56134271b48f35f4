CONSTANTS
  Addr = {a1, a2, a3}
  Null = Null
  NumCells = 2
  QueueCells = {2}
  MaxFds = 3
  ByName = TRUE
SPECIFICATION Spec
INVARIANTS RetryCanConnect
CHECK_DEADLOCK FALSE
