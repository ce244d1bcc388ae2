CONSTANTS
  Proc = {p, q}
  Initial = p
  FD = {0, 1}
  File = {f, g}
  Memfile = {m}
  Page = {x, y}
  None = None
  PGSIZE = 1
  MaxOff = 0
SPECIFICATION Spec
INVARIANTS DescriptorsCounted
CHECK_DEADLOCK FALSE
