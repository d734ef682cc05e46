------------------------------ MODULE MCCredit ------------------------------
(* A booking paid by card, one paid by transfer, and one withdrawal. *)
EXTENDS MemberCredit, TLC

CONSTANTS first, second

PricesMC == [b \in Bookings |-> IF b = first THEN 1 ELSE 2]
DearerMC == [b \in Bookings |-> 2]
WaysMC == [b \in Bookings |-> IF b = first THEN {"card"} ELSE {"bank", "hold"}]
Withdrawal == [x \in Adjustments |-> 0 - 1]

(* Which request cancels, and which handler works, does not matter. *)
Alike == Permutations(Cancellers) \union Permutations(Handlers)
=============================================================================
