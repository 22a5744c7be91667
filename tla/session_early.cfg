CONSTANTS
  ReqIds <- ShortIds
  ReqLen <- ShortLen
  BlockKinds = {"good", "outside"}
  TornId = TornId
  TableSize = 3
  QueueCap = 1073741824
  CpuBufferSize = 4096
  EarlyPlacement = TRUE
  MaxCmds = 4
  MaxFaults = 1
SPECIFICATION Spec
INVARIANTS
  DataUnlessTorn
CHECK_DEADLOCK FALSE
