\* Levels of up to 32 records, and trees of up to four levels of nodes.
SPECIFICATION MCSpec
CONSTANTS
  FANOUT = 4
  RecordSize = 16
  Rec <- MCRec
  MaxRecords = 33
  Key = {0, 1, 2, 3, 4, 5, 6, 7}
  Free = 2
  Sizes <- DeepSizes
  Runs = {1, 3, 400}
INVARIANTS
  AllOnce
  LevelsCount
  QueryExact
  InodesFit
  SearchExact
PROPERTIES
  RecordsClimb
CHECK_DEADLOCK FALSE
