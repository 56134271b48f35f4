CONSTANTS
  Ops <- ConnectionOps
  DrainMax = 2
  PacketMod = 2
  Statuses <- OnlyOk
  Sizes = {1, 2}
  WaitAll = FALSE
  Careful = FALSE
  MaxGarbage = 1
  MaxCalls = 5
  NoReply = NoReply
SPECIFICATION Spec
INVARIANTS OwnReply InSyncAfterReply
CHECK_DEADLOCK FALSE
