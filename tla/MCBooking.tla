----------------------------- MODULE MCBooking -----------------------------
(***************************************************************************)
(* Small lodges for TLC.  The kinds of booking are chosen per run so that  *)
(* the handlers the run is about meet over the same bed.                   *)
(***************************************************************************)
EXTENDS BookingCapacity

CONSTANTS a, b, ga, gb, gc

None == {}

(* Two bookings, one guest each, on the same night. *)
TwoGuests == {ga, gb}
TwoOwners == [g \in TwoGuests |-> IF g = ga THEN a ELSE b]
TwoIn == [x \in {a, b} |-> 0]
TwoOut == [x \in {a, b} |-> 1]
TwoStays == [g \in TwoGuests |-> {0}]
TwoAlone == [x \in {a, b} |-> x]
ChildOfA == [x \in {a, b} |-> a]

(* a stays one night; b stays two, with a guest for each of them. *)
ThreeGuests == {ga, gb, gc}
ThreeOwners == [g \in ThreeGuests |-> IF g = ga THEN a ELSE b]
LongOut == [x \in {a, b} |-> IF x = a THEN 1 ELSE 2]
ThreeStays == [g \in ThreeGuests |-> IF g = gc THEN {1} ELSE {0}]

OnlyA == {a}
OnlyB == {b}
Both == {a, b}
============================================================================
