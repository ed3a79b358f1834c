CONSTANTS
  kA = kA  kAB = kAB  kC = kC  a1 = a1  a2 = a2  s1 = s1  s2 = s2
  Tabs = {t1, t2}
  Calls = {c1, c2}
  Ops = {o1}
  Modes = {"on", "off", "cache-only"}
  Keys = {kAB}
  AudOf <- MCAudOf
  ScopeOf <- MCScopeOf
  LoginRt <- OneLogin
  MrrtSettings = {FALSE}
  Load <- MCLoad
  OnlineAccess = TRUE
  Leeway = FALSE
  Lossy = TRUE
  Interleaved = TRUE
  NoCall = NoCall
SPECIFICATION FairSpec
INVARIANTS
  OneRefreshPerAudience
  OnlineTokenKept
PROPERTIES
  EveryCallSettles
CHECK_DEADLOCK FALSE
