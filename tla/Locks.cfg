SPECIFICATION FairSpec
CONSTANTS
  None = None
  Proc = {p1, p2}
INVARIANTS
  OnlyKnownRaces
  LocksMatch
PROPERTY
  CallsEnd
