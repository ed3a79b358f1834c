CONSTANTS
  Calls = {c1, c2, c3}
  Tabs = {"t1"}
  Users = {u1, u2}
  Keys = {"kA", "kAB"}
  Covers <- CoversScopes
  Ceilings = {2, 3}
  Issuer = "issuer"
  ClientId = "client"
  Leeway = 1
  MillisecondsBound = 100
  ExpiryLeeway = 1
  MaxAge = 1
  Organization = "org_1"
  UseRefreshTokens = TRUE
  MaxTime = 2
  Ttl = 1
  MaxMfaTokens = 1
  MaxSessions = 2
SPECIFICATION Spec
SYMMETRY Symmetric
INVARIANTS
  CeilingPinned
  NoUserPastCeiling
  TokenOwner
  MfaRotates
  SignupOnce
CHECK_DEADLOCK FALSE
