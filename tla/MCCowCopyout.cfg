CONSTANTS
  Proc = {p1, p2}
  Initial = p1
  Page = {a, b, c, d}
  Value = {0, 1}
  Zero = 0
  Junk = 1
  NVA = 2
  Size = 2
  Guard = 1
SPECIFICATION Spec
INVARIANTS CopyoutLikeStore
SYMMETRY CowSymmetry
CHECK_DEADLOCK FALSE
