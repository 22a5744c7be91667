CONSTANTS
  ReqIds <- AllIds
  ReqLen <- AllLen
  BlockKinds = {"good", "empty", "unknown", "outside"}
  TornId = TornId
  TableSize = 2
  QueueCap = 1073741824
  CpuBufferSize = 4096
  EarlyPlacement = FALSE
  MaxCmds = 3
  MaxFaults = 1
SPECIFICATION FairSpec
INVARIANTS
  TypeOK
  DataBeforeCompletion
  StableNotification
  ClientReportIsTrue
  CleanEndDeliversAll
  SlotsFree
  PollIsAnswered
  NoPanicOnHealthyLink
PROPERTIES
  ServiceSpec
  LandsInLiveBuffer
  EveryCompletionArrives
  ShutdownEnds
CHECK_DEADLOCK FALSE
