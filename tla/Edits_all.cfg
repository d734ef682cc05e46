SPECIFICATION Spec
CONSTANTS
  Price = 3
  MaxEdits = 2
  Ups = {1}
  Downs = {2}
  Shares = {"full"}
  MaxFaults = 1
INVARIANTS
  TypeOK
  IncreasesAreCollectable
  MoneyComesBack
  ReductionsAreReturned
CHECK_DEADLOCK FALSE
