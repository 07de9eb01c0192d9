SPECIFICATION PagesFairSpec
CONSTANTS
  None = None
  Key = {k1, k2}
  MaxOps = 3
  MaxStarts = 2
  MaxMail = 2
CHECK_DEADLOCK FALSE
INVARIANTS
  PagesTypeOK
  KeyIsDurable
  LoadedKeyIsLatest
  PageShowsLatest
PROPERTIES
  PollEnds
