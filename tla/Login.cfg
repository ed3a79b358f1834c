CONSTANTS
  Calls = {c1, c2, c3}
  Auds = {a1, a2}
  Users = {u1, u2}
  NoAud = NoAud
  NoUser = NoUser
  NoCall = NoCall
  Interactive = TRUE
SPECIFICATION Spec
SYMMETRY Symmetric
INVARIANTS
  OwnCode
  OneUser
  LocksWhileSilent
  OneIframe
  NoneStuck
PROPERTIES
  CodeOnce
CHECK_DEADLOCK FALSE
