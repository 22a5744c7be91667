CONSTANTS
  NoWriter = NoWriter
  Writers = {w1, w2}
  ReqIds = {a, b, c, d}
  Capacity = 3
  MaxAdds = 6
SPECIFICATION Spec
SYMMETRY Symmetry
INVARIANTS
  WindowBounded
  VisibleExactly
CHECK_DEADLOCK FALSE
