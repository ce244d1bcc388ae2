SPECIFICATION Spec
CONSTANTS
  None = 0
  Proc = {1, 2, 3}
  First = 1
  PIPESIZE = 2
  UINT = 4
  Count = {2}
  MaxKills = 1
INVARIANTS PipeSound
PROPERTIES ImplementsByteQueue HangupNoticed
CHECK_DEADLOCK FALSE
