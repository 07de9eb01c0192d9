SPECIFICATION SignInFairSpec
CONSTANTS
  good = good
  other = other
  None = None
  Key = {good, other}
  Registered = good
  MaxOps = 2
  MaxStarts = 2
  Nonce = {n1, n2}
  Conn = {a1, a2}
  MaxTrouble = 2
CHECK_DEADLOCK FALSE
INVARIANTS
  SignInTypeOK
  RedirectProved
PROPERTIES
  ClickAnswered
  GoodClickSignsIn
  ReloadEnablesButton
