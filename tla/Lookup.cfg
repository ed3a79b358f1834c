CONSTANTS
  Procs = {p1}
  Keys <- MCKeys
  Serial = TRUE
  Audiences = {"none", "api"}
  MethodScopes = {{}, {"write"}}
  AuthScopes <- MCAuthScopes
  SessionScope = "online_access"
  UseMrrt = TRUE
  Fallback = FALSE
SPECIFICATION LookupSpec
INVARIANTS
  Listed
  ScopesHonoured
PROPERTY ClearEmpties
