SPECIFICATION Spec
CONSTANTS
  t1 = t1
  t2 = t2
  t3 = t3
  k1 = k1
  k2 = k2
  k3 = k3
  None = None
  Thread = {t1, t2, t3}
  Buf = {1, 2}
  Block = {k1, k2, k3}
  Val = {0, 1}
  Sizes = {8}
  MaxPins = 1
SYMMETRY Symmetry
  
PROPERTIES ImplementsBlockStore
