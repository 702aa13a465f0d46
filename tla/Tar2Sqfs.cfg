CONSTANTS
  DevBlk = 4
  SuperSize = 2
  UsedIds = {1, 2}
  LE <- MCLE
SPECIFICATION Spec
INVARIANT TypeOK CleanupLIFO SuperblockFinal
CHECK_DEADLOCK FALSE
