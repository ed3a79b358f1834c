CONSTANTS
  Calls = {c1, c2, c3, c4}
  Slots = {s1, s2}
  DefaultSlot = s1
  MaxIdentities = 3
  NoCall = NoCall
SPECIFICATION Spec
SYMMETRY Symmetric
INVARIANTS
  SharedIdentity
  OneIdentity
  ExpiredStops
CHECK_DEADLOCK FALSE
