\* Keys stored once: a map.
SPECIFICATION KeyBagSpec
CONSTANTS
  Key = {1, 2, 3, 4, 5, 6, 7}
  Weight = {1}
  LeafSlots = 4
  InnerSlots = 2
  Duplicates = FALSE
  NodeId = {1, 2, 3, 4, 5, 6, 7}
  MaxRecords = 7
  Ranges <- MCRanges
VIEW BagShape
PROPERTIES
  ImplementsBag
