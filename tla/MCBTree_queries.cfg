\* What the reading operations answer, with records of weight 0.
SPECIFICATION KeySpec
CONSTANTS
  Key = {1, 3}
  Weight = {0}
  LeafSlots = 4
  InnerSlots = 2
  Duplicates = TRUE
  NodeId = {1, 2, 3, 4, 5, 6, 7, 8, 9, 10, 11, 12}
  MaxRecords = 10
  Ranges <- MCRanges
VIEW Shape
INVARIANTS
  SearchesAgree
  RangeCountExact
  IterationComplete
  SamplesExact
  CopyVerified
