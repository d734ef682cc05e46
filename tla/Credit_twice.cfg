SPECIFICATION Spec
CONSTANTS
  first = first
  second = second
  k1 = k1
  Bookings = {first}
  Price <- DearerMC
  Ways <- WaysMC
  Opening = 1
  Adjustments = {}
  Delta <- Withdrawal
  Cancellers = {k1}
  Handlers = {}
  MaxCash = 0
  MaxAllocated = 0
INVARIANTS
  CreditNetsOff
CHECK_DEADLOCK FALSE
