SPECIFICATION Spec
CONSTANTS
  first = first
  second = second
  k1 = k1
  k2 = k2
  h1 = h1
  r = r
  Bookings = {first, second}
  Price <- PricesMC
  Ways <- WaysMC
  Opening = 1
  Adjustments = {r}
  Delta <- Withdrawal
  Cancellers = {k1, k2}
  Handlers = {h1}
  MaxCash = 2
  MaxAllocated = 1
SYMMETRY Alike
INVARIANTS
  TypeOK
  NeverOverdrawn
  MintsWithinCash
  PaidBackOnce
  CashIsPlaced
PROPERTIES
  RestoredOnce
CHECK_DEADLOCK FALSE
