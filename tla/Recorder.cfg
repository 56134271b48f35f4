CONSTANTS
  Wrappers = {w1, w2}
  Names = {n1, n2}
  Files = {f1, f2}
  Null = Null
  Tool = w1
  DebugName = n1
  Produccion = f1
  queue_data <- Record
  MaxRows = 2
SPECIFICATION FairSpec
INVARIANTS OpenedIsConnected ClaimedIsStored RecordedOnce InsertsIntoOpenDatabase
PROPERTIES LoopEnds
CHECK_DEADLOCK FALSE
