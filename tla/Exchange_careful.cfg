CONSTANTS
  Ops <- ClientOps
  DrainMax = 2
  PacketMod = 3
  Statuses <- AllStatuses
  Sizes = {1, 2}
  WaitAll = TRUE
  Careful = TRUE
  MaxGarbage = 1
  MaxCalls = 4
  NoReply = NoReply
SPECIFICATION Spec
INVARIANTS CarefulOwnReply
CHECK_DEADLOCK FALSE
