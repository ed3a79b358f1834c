CONSTANTS
  kA = kA  kAB = kAB  kC = kC  a1 = a1  a2 = a2  s1 = s1  s2 = s2
  Calls = {c1, c2, c3}
  Keys = {kA, kAB, kC}
  AudOf <- MCAudOf
  ScopeOf <- MCScopeOf
  Profiles <- MCProfiles
  RetryCount = 2
SPECIFICATION Spec
SYMMETRY Symmetric
INVARIANTS
  TokensStayInWorker
  NoReplay
  RevokedForgotten
  StoredUnspent
PROPERTIES
  OnlineTokenKept
  CallsEnd
CHECK_DEADLOCK FALSE
