CONSTANTS
  Ops <- AllOps
  DrainMax = 2
  PacketMod = 2
  Statuses <- AllStatuses
  Sizes = {1, 3}
  WaitAll = TRUE
  Careful = FALSE
  MaxGarbage = 1
  MaxCalls = 2
  NoReply = NoReply
SPECIFICATION FairSpec
INVARIANTS TypeOK QuietUntilFailure
PROPERTIES BoundaryReadEnds
CHECK_DEADLOCK FALSE
