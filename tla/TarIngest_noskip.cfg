CONSTANTS
  n1 = n1
  n2 = n2
  bad = bad
  userKey = userKey
  badKey = badKey
  Names = {n1, n2}
  BadName = bad
  Keys = {userKey, badKey}
  SupportedKeys = {userKey}
  TarBlock = 2
  Width = 4
  RecordShapes <- ShapesNoSkip
  MaxRecords = 4
  DontSkip = TRUE
  NoXattr = FALSE
  KeepTime = FALSE
  DefaultMtime = 0
SPECIFICATION Spec
INVARIANT TypeOK StreamInSync
PROPERTY ImplementsIngest
CHECK_DEADLOCK FALSE
