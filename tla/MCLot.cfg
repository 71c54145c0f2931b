\* Safe and unsafe amounts together, two spots, three threads.
CONSTANTS
  Threads = {t1, t2, t3}
  Capacity = 2
  Amounts <- MCAmounts
  MaxInt = 7
  NoThread = NoThread
SPECIFICATION FairSpec
INVARIANT MonitorInv
PROPERTIES
  ContractKept
  MonitorReleased
