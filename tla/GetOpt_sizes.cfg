CONSTANTS
  Args <- ArgsWrap
  OptStr <- MCOptStr
  LongOpts <- MCLongOpts
  Digits <- MCDigits
  UIntWidth = 4
  SizeWidth = 5
  BlockSize0 = 4
  DevBlk0 = 8
  DevBlkMin = 8
  CompIds <- MCCompIds
  Built = {"gzip"}
  DefaultComp = "gzip"
  HelpWord <- MCHelpWord
SPECIFICATION Spec
INVARIANT SizesAsGiven
CHECK_DEADLOCK FALSE
