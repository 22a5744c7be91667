CONSTANTS
  BufferCounts = {1, 340, 341}
  CpuBufferSize = 4096
  MaxErrors = 3
SPECIFICATION FairSpec
INVARIANTS
  HandshakeAgreement
  MessagesMeetTheirReceive
  SessionStartsClean
  OnlyDesertedHang
PROPERTIES
  LandsInLiveMemory
  HandshakeSettles
CHECK_DEADLOCK FALSE
