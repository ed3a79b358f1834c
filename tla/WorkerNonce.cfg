CONSTANTS
  kA = kA  kAB = kAB  kC = kC  a1 = a1  a2 = a2  s1 = s1  s2 = s2
  Calls = {c1}
  Keys = {kA}
  AudOf <- MCAudOf
  ScopeOf <- MCScopeOf
  Profiles <- NonceProfiles
  RetryCount = 2
SPECIFICATION Spec
INVARIANTS
  NonceRetrySent
CHECK_DEADLOCK FALSE
