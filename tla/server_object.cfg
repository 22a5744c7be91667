CONSTANTS
  ReqIds = {r1, r2}
  MaxListens = 3
SPECIFICATION ObjectSpec
INVARIANTS
  ServesOnce
PROPERTIES
  OrphanedForGood
CHECK_DEADLOCK FALSE
