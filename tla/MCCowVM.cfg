CONSTANTS
  Proc = {p1, p2, p3}
  Initial = p1
  Page = {a, b, c}
  Value = {0, 1}
  Zero = 0
  Junk = 1
  NVA = 2
  Size = 1
  Guard = 9
SPECIFICATION Spec
INVARIANTS SharingSound
PROPERTIES MemoryIsolated
SYMMETRY CowSymmetry
CHECK_DEADLOCK FALSE
