SPECIFICATION Spec
CONSTANTS
  a = a
  b = b
  ga = ga
  gb = gb
  gc = gc
  Bookings = {a, b}
  Guests <- TwoGuests
  BookingOf <- TwoOwners
  CheckIn <- TwoIn
  CheckOut <- TwoOut
  Stay <- TwoStays
  Free <- OnlyB
  Provisional <- None
  Minors <- None
  CardSaved <- None
  Requested <- None
  Parent <- TwoAlone
  MaxBeds = 1
  InitBeds = 1
  LastDay = 1
  MaxFaults = 0
INVARIANTS
  CheckedFit
PROPERTIES
  CancelledStaysCancelled
CHECK_DEADLOCK FALSE
