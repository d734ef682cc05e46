------------------------------- MODULE Lodge -------------------------------
(***************************************************************************)
(* The lodge and what its bookings ask of it: the arithmetic every         *)
(* capacity decision of the platform shares.                               *)
(*                                                                         *)
(* A booking covers the nights from its check-in to the day before its     *)
(* check-out.  Each of its guests sleeps on some of those nights           *)
(* (BookingGuest.nights, or the stayStart/stayEnd envelope).  The beds a   *)
(* set of bookings takes on a night are the guests of those bookings who   *)
(* sleep there that night.                                                 *)
(***************************************************************************)
EXTENDS Integers, FiniteSets

CONSTANTS
  Bookings,       \* rows of the Booking table, the ones yet to be created too
  Guests,         \* rows of the BookingGuest table
  BookingOf,      \* the booking each guest belongs to
  CheckIn,        \* first night of each booking
  CheckOut,       \* the day each booking leaves (no night is spent on it)
  Stay            \* the nights each guest sleeps in the lodge

Nights == UNION {CheckIn[b] .. CheckOut[b] - 1 : b \in Bookings}

(* The nights checkCapacityForGuestRanges looks at for booking b. *)
Span(b) == CheckIn[b] .. CheckOut[b] - 1

ASSUME LodgeAssumption ==
  /\ IsFiniteSet(Guests)
  /\ BookingOf \in [Guests -> Bookings]
  /\ CheckIn \in [Bookings -> Nat]
  /\ CheckOut \in [Bookings -> Nat]
  /\ \A g \in Guests : Stay[g] \subseteq Span(BookingOf[g])

(* Two bookings compete for a night: the date filter of every overlap query. *)
Overlap(a, b) == CheckIn[a] < CheckOut[b] /\ CheckOut[a] > CheckIn[b]

(* The guests of the bookings in S who sleep in the lodge on night n. *)
Sleepers(S, n) == {g \in Guests : BookingOf[g] \in S /\ n \in Stay[g]}

BedsTaken(S, n) == Cardinality(Sleepers(S, n))

(* Mutant: a booking that already holds its beds is counted twice. *)
FitsCountedTwice(holders, b, beds) ==
  \A n \in Span(b) : BedsTaken(holders, n) + BedsTaken({b}, n) <= beds

(***************************************************************************)
(* checkCapacityForGuestRanges(b): on every night of b, the guests of the  *)
(* bookings that already hold beds (b itself excluded, whether or not it   *)
(* holds) and the guests of b fit in the lodge.                            *)
(***************************************************************************)
FitsBeside(holders, b, beds) ==
  \A n \in Span(b) : BedsTaken((holders \ {b}) \cup {b}, n) <= beds

Status ==
  {"ABSENT", "DRAFT", "PENDING", "PAYMENT_PENDING", "CONFIRMED", "PAID",
   "COMPLETED", "WAITLISTED", "WAITLIST_OFFERED", "AWAITING_REVIEW",
   "CANCELLED", "DELETED"}

(* CAPACITY_HOLDING_BOOKING_STATUSES *)
HoldingStatus == {"PAID", "COMPLETED", "CONFIRMED", "AWAITING_REVIEW"}

(* CANCELLABLE_BOOKING_STATUSES and its no-payment subset, booking-cancel.ts *)
NoPaymentStatus == {"WAITLISTED", "WAITLIST_OFFERED", "AWAITING_REVIEW"}
CancellableStatus ==
  {"PENDING", "PAYMENT_PENDING", "CONFIRMED", "PAID"} \cup NoPaymentStatus

(* Mutant: late money revives a cancelled booking. *)
RevivableStatus == {"PAYMENT_PENDING", "CONFIRMED", "PENDING", "DRAFT", "CANCELLED"}

(* PAYABLE_SUCCESS_STATUSES: a captured payment may still promote these. *)
PayableStatus == {"PAYMENT_PENDING", "CONFIRMED", "PENDING", "DRAFT"}
=============================================================================
