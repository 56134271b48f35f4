CONSTANTS
  Namelists <- AllLists
  Produced = {0, 1}
  MaxRecords = 3
  MaxLinks = 3
SPECIFICATION FairSpec
INVARIANTS TypeOK ReadFindsRecord RecordsAccountedFor
PROPERTY QueueOneIsDrained
CHECK_DEADLOCK FALSE
