\* Three cars for two spots; two of the threads may be interrupted.
CONSTANTS
  Cars = {c1, c2, c3}
  Capacity = 2
  Interruptible = {c1, c2}
  NoCar = NoCar
SPECIFICATION FairSpec
INVARIANTS
  TypeOK
  LotLedger
  TurnedAwayForCause
PROPERTIES
  Linearizable
  EveryThreadEnds
