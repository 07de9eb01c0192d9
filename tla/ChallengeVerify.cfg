SPECIFICATION FairSpec
CONSTANTS
  h1 = h1
  h2 = h2
  a1 = a1
  a2 = a2
  t0 = t0
  k0 = k0
  k1 = k1
  e0 = e0
  None = None
  Handler = {h1, h2}
  Session = {a1, a2}
  Nonce = {n1, n2}
  Tmb = {t0}
  Key = {k0, k1}
  Query = {r1}
  TTL = 1
  MaxDrift = 0
  MaxTime = 2
  Half = 8
  Stamp <- MCStamp
  MaxRestarts = 1
  RemoteAddr <- MCRemoteAddr
  TestUsers <- MCTestUsers
  EnvUsers <- MCEnvUsers
INVARIANTS
  IndInv
  NonceOnce
  OwnLatestChallenge
  SignedNearIssue
  RegisteredSigner
PROPERTIES
  OneTimeNonceSpec
  GoodSignInAccepted
