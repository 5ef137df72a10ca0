\* Repeated keys, erased by key, up to trees of four levels.
SPECIFICATION KeySpec
CONSTANTS
  Key = {1, 2}
  Weight = {1}
  LeafSlots = 4
  InnerSlots = 2
  Duplicates = TRUE
  NodeId = {1, 2, 3, 4, 5, 6, 7, 8, 9, 10, 11, 12, 13, 14, 15, 16, 17, 18, 19, 20}
  MaxRecords = 18
  Ranges <- MCRanges
VIEW Shape
INVARIANTS
  TypeOK
  Balanced
  SeparatorsExact
  WeightsExact
  LeavesLinked
  NothingLost
  RepairsAdjacent
