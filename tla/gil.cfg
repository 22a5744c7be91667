CONSTANTS
  a = a
  b = b
  c = c
  Procs = {a, b, c}
  Routes <- MCRoutes
  None = None
SPECIFICATION FairSpec
INVARIANTS
  TypeOK
  HangIsKnot
PROPERTIES
  KnotsOutlastAllButTimeouts
  OnlyKnotsHang
CHECK_DEADLOCK FALSE
