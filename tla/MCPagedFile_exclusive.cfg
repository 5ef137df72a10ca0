\* Two objects, every file kept to one at a time, with pages of two units:
\* files end within a page, and writes stop within one.
SPECIFICATION Spec
CONSTANTS
  Handle = {h1, h2}
  Name = {n1, n2}
  Inode = {1, 2}
  Fd = {3, 4}
  Value = {a}
  PageUnits = 2
  PnumRange = 16
  MaxUnits = 6
  MaxCount = 2
  Existing = {0, 3}
  Exclusive = TRUE
  UnlinkMayFail = FALSE
VIEW Lengths
SYMMETRY Alike
INVARIANTS
  TypeOK
  DescriptorsOwned
  NamesOwn
  PagesBacked
