SPECIFICATION BothSpec
CONSTANTS
  Parts = {"sched", "log"}
  NPROC = 3
  CPU = {1, 2}
  None = None
  SCHED_ALPHA = 1
  SCHED_BETA = 1
  SCHED_DEFAULT = 1
  SCHED_MAX = 1
  SCHED_MIN = 0
  SCHED_WMAX = 2
  SCHED_TCPU_MAX = 0
  SCHED_W = 2
  WaitCap = 5
  Thread = {1, 2}
  BlockNo = {b1, b2, b3}
  Value = {0, 1}
  Blank = 0
  MAXOPBLOCKS = 2
  LOGBLOCKS = 4
  OpBlocks = 2
INVARIANTS OneCpuPerProcess  LogSpaceSound
PROPERTIES NobodyStarves RightChoice ImplementsAtomicDisk
