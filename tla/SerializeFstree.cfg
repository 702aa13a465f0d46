CONSTANTS
  N = 4
  Owners <- MCOwners
  MaxIds = 2
  MetaBlock = 3
  InodeSize <- MCInodeSize
  Payloads = {0, 3}
  DataEnd = 5
SPECIFICATION Spec
INVARIANT TypeOK ImageRefsResolve EveryNodeOnce InodesFaithful DirectoryTableStart
CHECK_DEADLOCK FALSE
