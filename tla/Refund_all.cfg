SPECIFICATION Spec
CONSTANTS
  c1 = c1
  c2 = c2
  w1 = w1
  w2 = w2
  Cancellers <- MCCancellers
  Workers <- MCWorkers
  Slices = 2
  MaxAttempts = 2
  MaxLost = 1
  MaxCrashes = 1
INVARIANTS
  TypeOK
  SettledOnce
  ClosedIsRecorded
PROPERTIES
  DebtSpec
  DebtResolves
CHECK_DEADLOCK FALSE
