SPECIFICATION Spec
CONSTANTS
  h1 = h1
  a1 = a1
  t1 = t1
  t2 = t2
  k1 = k1
  k2 = k2
  m1 = m1
  m2 = m2
  None = None
  Handler = {h1}
  Session = {a1}
  RemoteAddr <- MCRemoteAddr
  Nonce = {n1}
  Tmb = {t1, t2}
  Key = {k1, k2}
  TestUsers <- NoUsers
  EnvUsers <- MCEnvUsers
  Query = {r1, r2}
  TTL = 0
  MaxDrift = 0
  MaxTime = 1
  Half = 4
  Stamp <- MCStamp
  MaxRestarts = 1
  ReqID = {r1, r2}
  Code = {c1, c2}
  Exchange = {e1, e2}
SYMMETRY Symmetries
CHECK_DEADLOCK FALSE
INVARIANTS
  TokenSubjectProved
  CompletionsNeedNonces
PROPERTY
  PartsKept
