CONSTANTS
  c1 = c1  c2 = c2  c3 = c3  c4 = c4
  t1 = t1  t2 = t2  k1 = k1  k2 = k2
  Calls = {c1, c2, c3, c4}
  Keys = {k1, k2}
  Tabs = {t1, t2}
  KeyOf <- MCKeyOf
  TabOf <- MCTabOf
  NoTab = NoTab
  RetryAttempts = 2
SPECIFICATION FairSpec
INVARIANTS
  ListenerCoversLocks
  NoOrphanLock
PROPERTIES
  ImplementsLockManager
  EveryCallSettles
CHECK_DEADLOCK FALSE
