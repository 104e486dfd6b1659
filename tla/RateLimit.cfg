CONSTANTS
  t1 = t1
  t2 = t2
  None = None
  Thread <- TwoThreads
  One = 2
  Rate = 1
  Capacity = 4
  MaxTime = 6
SPECIFICATION Spec
SYMMETRY Symmetry
INVARIANTS
  TypeOK
  BurstBound
  PollingIsFree
