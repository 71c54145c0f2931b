\* Three cars after one spot.
CONSTANTS
  Cars = {c1, c2, c3}
  Capacity = 1
  Interruptible = {}
  NoCar = NoCar
SPECIFICATION Spec
INVARIANT LeavesPolitely
