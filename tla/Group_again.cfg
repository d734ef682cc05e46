SPECIFICATION Spec
CONSTANTS
  Children = {a, b}
  Price <- PricesMC
  Leavers = {a}
  ByBank = {FALSE}
  MaxTries = 2
  MaxFaults = 0
INVARIANTS
  PaidByItsIntent
  MoneyIsPlaced
PROPERTIES
  ClosedStaysClosed
CHECK_DEADLOCK FALSE
