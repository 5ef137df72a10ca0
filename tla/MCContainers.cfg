\* A heap of five slots with ties and versions; two consumers and a producer
\* around the locked queue; two bit arrays; tables of up to five weights.
SPECIFICATION ContainersSpec
CONSTANTS
  Rec = {1, 2, 3}
  Value <- MCValue
  Tombstone = {3}
  Version = {0, 1}
  Capacity = 5
  Thread = {t1, t2, t3}
  Consumer = {t1, t2}
  Item = {1, 2}
  Priority <- MCPriority
  MaxItems = 1
  NoThread = nothread
  NoItem = noitem
  Obj = {x, y}
  Block = {1, 2, 3}
  Sizes = {0, 512, 513}
  Bits = {0, 512}
  NULL = null
  Dead = dead
  Moved = moved
  Freed = freed
  Slots = {1, 2, 3, 4, 5}
  Weight = {0, 1, 2, 5}
INVARIANTS
  HeapOrdered
  PopsFindItem
  BlocksOwned
  AliasExact
PROPERTIES
  ImplementsPriority
  PopsTake
  MutexReleased
  ImplementsValues
CHECK_DEADLOCK FALSE
