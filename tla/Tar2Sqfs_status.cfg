CONSTANTS
  DevBlk = 4
  SuperSize = 2
  UsedIds = {1, 2}
  LE <- MCLE
SPECIFICATION Spec
INVARIANT ExitStatus
CHECK_DEADLOCK FALSE
