CONSTANTS
  Addr = {a1, a2, a3}
  Null = Null
  NumCells = 2
  QueueCells = {2}
  MaxFds = 3
  ByName = TRUE
SPECIFICATION FairSpec
INVARIANTS
  TypeOK ExchangesExclude OwnErrorReported MainPointersLive NothingLeaked
  WriteSafeWhilePolling
PROPERTIES KeepsGoing ImplementsLink
CHECK_DEADLOCK FALSE
