SPECIFICATION Spec
CONSTANTS
  a = a
  b = b
  ga = ga
  gb = gb
  gc = gc
  Bookings = {a, b}
  Guests <- ThreeGuests
  BookingOf <- ThreeOwners
  CheckIn <- TwoIn
  CheckOut <- LongOut
  Stay <- ThreeStays
  Free <- OnlyA
  Provisional <- None
  Minors <- OnlyA
  CardSaved <- None
  Requested <- OnlyB
  Parent <- TwoAlone
  MaxBeds = 1
  InitBeds = 1
  LastDay = 0
  MaxFaults = 1
INVARIANTS
  TypeOK
PROPERTIES
  BumpsAccounted
CHECK_DEADLOCK FALSE
