CONSTANTS
  Proc = {p, q}
  Initial = p
  FD = {0, 1}
  File = {f, g}
  Memfile = {m, n}
  Page = {x, y}
  None = None
  PGSIZE = 1
  MaxOff = 2
SPECIFICATION FairSpec
INVARIANTS FilesCounted OpenDataIntact
PROPERTIES DeletedCollected
CHECK_DEADLOCK FALSE
