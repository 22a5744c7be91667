CONSTANTS
  AddrBits = 3
  BufferLists <- Lists
  Offsets = {0, 1, 6}
  Sizes = {0, 2}
  MaxTransfers = 2
SPECIFICATION Spec
INVARIANTS
  KindDecides
  ForeignBytesUntouched
  RoundTrip
CHECK_DEADLOCK FALSE
