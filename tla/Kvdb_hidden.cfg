SPECIFICATION Spec
CONSTANTS
  Keys = {k1, k2}
  Vals = {v1}
  None = None
  NSectors = 3
  Slots = 2
  MaxCrashes = 1
PROPERTIES PreDeletedRecovered
