SPECIFICATION Spec
CONSTANTS
  None = None
  Call = {g1, g2, g3, g4}
  Revoker = {v1}
  User = {u1}
  Client = {c1, c2}
  RefreshLife = 0
  MaxTime = 1
  MaxRestarts = 1
SYMMETRY Symmetries
CHECK_DEADLOCK FALSE
INVARIANTS
  TypeOK
  RenewedOnce
  AccessFollowsRefresh
  LogoutEndsFamily
PROPERTY
  RotatingTokenSpec
