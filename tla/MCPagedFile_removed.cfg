\* unlink() may fail.
SPECIFICATION Spec
CONSTANTS
  Handle = {h1, h2}
  Name = {n1, n2}
  Inode = {1, 2, 3}
  Fd = {3, 4}
  Value = {a}
  PageUnits = 1
  PnumRange = 16
  MaxUnits = 3
  MaxCount = 1
  Existing = {2}
  Exclusive = TRUE
  UnlinkMayFail = TRUE
VIEW Visible
SYMMETRY Alike
INVARIANTS
  DescriptorsApart
