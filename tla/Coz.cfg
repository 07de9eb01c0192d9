SPECIFICATION Spec
CONSTANTS
  None = None
  Byte = {0, 1, 4, 171}
  CoordLen = 2
  Half = 4
  MaxDrift = 1
  ServerTime = {1, 2}
  MaxUsers = 2
  DigestLen = {0, 1, 2, 3, 4, 32}
  Point <- MCPoint
  Signature <- MCSignature
INVARIANTS
  TypeOK
  UsersOwnKey
  ThumbprintsAgree
  MultihashesReadBack
PROPERTY
  GenuineAccepted
