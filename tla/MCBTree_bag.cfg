\* Repeated keys with two weights, erased by key and by iterator.
SPECIFICATION BagSpec
CONSTANTS
  Key = {1, 2}
  Weight = {0}
  LeafSlots = 4
  InnerSlots = 2
  Duplicates = TRUE
  NodeId = {1, 2, 3, 4, 5, 6, 7, 8, 9, 10, 11, 12}
  MaxRecords = 9
  Ranges <- ShortRanges
VIEW BagShape
INVARIANTS
  OutcomeTrue
PROPERTIES
  ImplementsBag
  ErasesReferred
