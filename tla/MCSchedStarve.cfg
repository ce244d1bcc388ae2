CONSTANTS
  NPROC = 4
  CPU = {1}
  None = None
  SCHED_ALPHA = 1
  SCHED_BETA = 2
  SCHED_DEFAULT = 2
  SCHED_MAX = 3
  SCHED_MIN = 0
  SCHED_WMAX = 2
  SCHED_TCPU_MAX = 1
  SCHED_W = 2
  WaitCap = 6
  Parts = {"sched"}
  Thread = {1}
  BlockNo = {b1}
  Value = {0}
  Blank = 0
  MAXOPBLOCKS = 1
  LOGBLOCKS = 1
  OpBlocks = 1
SPECIFICATION CpuBoundSpec
PROPERTIES NoStarvation
