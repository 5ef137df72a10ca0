\* Records whose size is not a power of two.
SPECIFICATION BuildSpec
CONSTANTS
  FANOUT = 4
  RecordSize = 24
  Rec <- MCRec
  MaxRecords = 1
  Key = {0, 1}
  Free = 1
  Sizes = {16, 17, 18}
  Runs = {1}
INVARIANTS
  InodesFit
CHECK_DEADLOCK FALSE
