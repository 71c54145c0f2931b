\* Three threads share the lot: how far past its bounds can the counter go?
CONSTANTS
  Threads = {t1, t2, t3}
  Capacity = 2
SPECIFICATION Spec
INVARIANTS
  OvershootBound
