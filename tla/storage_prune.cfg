SPECIFICATION Spec
CONSTANTS
  Loaders = {p1, p2}
  Manifests = {m1, m2, m3}
  None = None
  Empty = Empty
  ReadOnly = {p2}
  MaxKeep = 2
  MinKeep = 1
  ByteCap = TRUE
  StableSource = TRUE
SYMMETRY Symmetry
INVARIANTS
  LockHolderKeepsItsDir
PROPERTIES
  PruneKeepsFloor
