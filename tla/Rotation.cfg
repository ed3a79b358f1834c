CONSTANTS
  kA = kA  kAB = kAB  kC = kC  a1 = a1  a2 = a2  s1 = s1  s2 = s2
  Tabs = {t1}
  Calls = {c1, c2, c3}
  Ops = {o1}
  Modes = {"on", "off"}
  Keys = {kA, kAB, kC}
  AudOf <- MCAudOf
  ScopeOf <- MCScopeOf
  LoginRt <- OneLogin
  MrrtSettings = {FALSE, TRUE}
  Load <- MCLoad
  OnlineAccess = FALSE
  Leeway = TRUE
  Lossy = FALSE
  Interleaved = FALSE
  NoCall = NoCall
SPECIFICATION Spec
SYMMETRY Symmetric
INVARIANTS
  NoReplay
  CachedTokensUnspent
  TokenFitsRequest
  OffIsFresh
  Converged
CHECK_DEADLOCK FALSE
