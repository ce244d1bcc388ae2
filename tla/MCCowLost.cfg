CONSTANTS
  Proc = {p1, p2}
  Initial = p1
  Page = {a, b, c, d}
  Value = {0, 1}
  Zero = 0
  Junk = 1
  NVA = 1
  Size = 1
  Guard = 9
SPECIFICATION Spec
INVARIANTS NoLostPages
SYMMETRY CowSymmetry
CHECK_DEADLOCK FALSE
