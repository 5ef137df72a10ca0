\* A scan of a file that is written, extended, renamed and removed meanwhile;
\* pages of two units, torn writes, files that end within a page, descriptor 0.
SPECIFICATION ScanSpec
CONSTANTS
  Handle = {h1}
  Name = {n1, n2}
  Inode = {1, 2}
  Fd = {0, 3}
  Value = {a}
  PageUnits = 2
  PnumRange = 16
  MaxUnits = 6
  MaxCount = 3
  Existing = {0, 3}
  Exclusive = TRUE
  UnlinkMayFail = TRUE
VIEW VisibleScan
SYMMETRY Alike
INVARIANTS
  ScanComplete
PROPERTIES
  WritesStay
  ListDelivered
  FreshPages
  ScanCurrent
