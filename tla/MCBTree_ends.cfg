\* Every call ends.
SPECIFICATION FairSpec
CONSTANTS
  Key = {1}
  Weight = {0}
  LeafSlots = 4
  InnerSlots = 2
  Duplicates = TRUE
  NodeId = {1, 2, 3, 4, 5, 6, 7, 8}
  MaxRecords = 8
  Ranges <- MCRanges
PROPERTIES
  CallsEnd
