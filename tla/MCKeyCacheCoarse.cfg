SPECIFICATION Spec
CONSTANTS
  l1 = l1  l2 = l2
  Loaders = {l1, l2}
  MaxKeys = 1
  MaxTime = 1
  Coarse = TRUE
INVARIANTS
  NoStaleKey
SYMMETRY LoaderSymmetry
CHECK_DEADLOCK FALSE
