SPECIFICATION Spec
CONSTANTS
  Parts = {"tree", "blocks", "mkfs", "names", "memory", "locks", "log", "console",
           "malloc", "quiz", "grep", "calc"}
  Thread = {t1, t2}
  None = None
SYMMETRY Symmetry
INVARIANTS
  TreeSound DurableTree NoLockCycle ContentSound 
  FramesConserved MemoryAsTold   ConsoleSound HeapSound 
CHECK_DEADLOCK FALSE
