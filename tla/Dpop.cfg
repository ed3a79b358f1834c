CONSTANTS
  Calls = {c1, c2}
  Kinds = {"login", "refresh", "grant", "fetch", "myAccount", "deleteAuthenticationMethod", "proof", "logout"}
  Nonces = {1, 2}
  Alone = TRUE
SPECIFICATION FairSpec
INVARIANTS
  ProofFits
  RetryGetsThrough
PROPERTIES
  EveryCallSettles
CHECK_DEADLOCK FALSE
