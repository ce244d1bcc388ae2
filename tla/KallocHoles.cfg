CONSTANTS
  KERNBASE = 5
  end = 6
  PHYSTOP = 10
  Thread = {t1, t2}
  Sizes = {1, 2}
  NoTable = NoTable
  Shared = Shared
SPECIFICATION Spec
PROPERTY CompactionClosesHoles
CHECK_DEADLOCK FALSE
