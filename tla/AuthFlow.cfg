SPECIFICATION Spec
CONSTANTS
  None = None
  ReqID = {r1, r2}
  Code = {c1, c2}
  Exchange = {e1, e2}
  Subject = {s1, s2}
  EmailOf <- MCEmailOf
  MaxRestarts = 1
SYMMETRY Symmetries
CHECK_DEADLOCK FALSE
INVARIANTS
  TypeOK
  TokensAgree
  RequestNamesUser
PROPERTY
  CodeGrantSpec
