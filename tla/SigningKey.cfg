SPECIFICATION Spec
CONSTANTS
  None = None
  Key = {k1, k2, k3}
  KeyID = {i1, i2, i3, i4}
  MaxTrouble = 4
SYMMETRY Symmetries
CHECK_DEADLOCK FALSE
INVARIANTS
  ServedKeyIsSaved
  IssuedWithSavedKey
  IdNamesKey
