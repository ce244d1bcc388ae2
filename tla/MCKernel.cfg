SPECIFICATION KernelSpec
CONSTANTS
  Parts = {"pages", "life", "uart", "idle", "shell"}
  KERNBASE = 5
  end = 6
  PHYSTOP = 9
  Thread = {t1, t2, t3}
  Sizes = {1, 2}
  NoTable = NoTable
  Shared = Shared
  Proc = {i, p, q, r}
  init = i
  None = None
  MaxPid = 4
  KillPids = {3}
INVARIANTS  NoMissedExit  ShellSound
PROPERTIES ImplementsPageRefs  InitReaps WritesEnd KeepsCollecting LineEnds
