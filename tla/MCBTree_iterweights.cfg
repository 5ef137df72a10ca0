\* The weights under erase by iterator, against the assertion of verify_node().
SPECIFICATION IterSpec
CONSTANTS
  Key = {1, 2}
  Weight = {1}
  LeafSlots = 4
  InnerSlots = 2
  Duplicates = TRUE
  NodeId = {1, 2, 3, 4, 5, 6, 7, 8}
  MaxRecords = 8
  Ranges <- MCRanges
INVARIANTS
  WeightsExact
