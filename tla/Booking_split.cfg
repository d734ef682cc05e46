SPECIFICATION FairSpec
CONSTANTS
  a = a
  b = b
  ga = ga
  gb = gb
  gc = gc
  Bookings = {a, b}
  Guests <- TwoGuests
  BookingOf <- TwoOwners
  CheckIn <- TwoIn
  CheckOut <- TwoOut
  Stay <- TwoStays
  Free <- OnlyA
  Provisional <- OnlyB
  Minors <- None
  CardSaved <- OnlyB
  Requested <- None
  Parent <- ChildOfA
  MaxBeds = 1
  InitBeds = 1
  LastDay = 1
  MaxFaults = 0
PROPERTIES
  HoldWindowResolves
  ClaimResolves
CHECK_DEADLOCK FALSE
