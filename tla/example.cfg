CONSTANTS
  BufferCount = 2
  Loops = 7
  MaxFaults = 1
SPECIFICATION FairSpec
INVARIANTS
  MessageIntact
  PrintedInOrder
PROPERTIES
  TransferEnds
CHECK_DEADLOCK FALSE
