SPECIFICATION Spec
CONSTANTS
  Keys = {k1, k2}
  Vals = {v1, v2}
  None = None
  NSectors = 2
  Slots = 3
  MaxCrashes = 1
INVARIANTS NoValueLost ReadsLatest
PROPERTIES RecoveryKeeps RecoveryEnds
