CONSTANTS
  Namelists <- OneQueue
  Produced = {1}
  MaxRecords = 1
  MaxLinks = 1
SPECIFICATION Spec
INVARIANT NumbersNameQueues
CHECK_DEADLOCK FALSE
