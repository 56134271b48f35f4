CONSTANTS
  Ops <- ConnectionOps
  DrainMax = 2
  PacketMod = 2
  Statuses <- OnlyOk
  Sizes = {1, 3}
  WaitAll = TRUE
  Careful = FALSE
  MaxGarbage = 1
  MaxCalls = 3
  NoReply = NoReply
SPECIFICATION FairSpec
PROPERTIES CallEnds
CHECK_DEADLOCK FALSE
