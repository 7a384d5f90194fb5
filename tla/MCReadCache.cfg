CONSTANTS
  Caller = {c1, c2}
  Flight = {f1, f2, f3}
  MaxPending = 1
  MaxFaults = 1
  None = None
SPECIFICATION Spec
SYMMETRY Perms
INVARIANTS
  CacheTypeOK
  HitsAreCurrent
  PurgeIsFinal
