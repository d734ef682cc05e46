SPECIFICATION Spec
CONSTANTS
  Children = {a}
  Price <- PricesMC
  Leavers = {}
  ByBank = {FALSE}
  MaxTries = 1
  MaxFaults = 0
INVARIANTS
  CancelledGroupIsRefunded
CHECK_DEADLOCK FALSE
