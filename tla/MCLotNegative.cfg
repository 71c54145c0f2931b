CONSTANTS
  Threads = {t1}
  Capacity = 2
  Amounts <- MCNegativeAmounts
  MaxInt = 7
  NoThread = NoThread
SPECIFICATION Spec
INVARIANT OccupancyBound
