SPECIFICATION Spec
CONSTANTS
  None = None
  Key = {k1, k2, k3}
  MaxOps = 4
  MaxStarts = 4
SYMMETRY Symmetries
CHECK_DEADLOCK FALSE
INVARIANT
  KeyMatchesStorage
