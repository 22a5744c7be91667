CONSTANTS
  ReqIds <- ShortIds
  ReqLen <- ShortLen
  BlockKinds = {"good"}
  TornId = TornId
  TableSize = 3
  QueueCap = 1073741824
  CpuBufferSize = 4096
  EarlyPlacement = TRUE
  MaxCmds = 4
  MaxFaults = 0
SPECIFICATION Spec
INVARIANTS
  NoPanicOnHealthyLink
CHECK_DEADLOCK FALSE
