CONSTANTS
  kA = kA  kAB = kAB  kC = kC  a1 = a1  a2 = a2  s1 = s1  s2 = s2
  Tabs = {t1, t2}
  Calls = {c1, c2}
  Ops = {}
  Modes = {"on"}
  Keys = {kAB}
  AudOf <- MCAudOf
  ScopeOf <- MCScopeOf
  LoginRt <- OneLogin
  MrrtSettings = {FALSE}
  Load <- MCLoad
  OnlineAccess = FALSE
  Leeway = FALSE
  Lossy = FALSE
  Interleaved = TRUE
  NoCall = NoCall
SPECIFICATION Spec
INVARIANTS
  NoReplay
CHECK_DEADLOCK FALSE
