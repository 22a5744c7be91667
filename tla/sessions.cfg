CONSTANTS
  r1 = r1
  r2 = r2
  Clients = {c1, c2}
  ReqIds = {r1, r2}
  ReqLen <- ShortLen
  BlockKinds = {"good"}
  Capacity = 2
  MaxCmds = 3
  NoWriter = NoWriter
SPECIFICATION Spec
SYMMETRY Symmetry
INVARIANTS
  VisibleHasData
PROPERTIES
  OneTable
CHECK_DEADLOCK FALSE
