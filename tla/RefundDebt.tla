----------------------------- MODULE RefundDebt -----------------------------
(***************************************************************************)
(* What a card cancellation promises: the refund, in as many parts as the  *)
(* money was captured in, is incurred at most once, each part is paid at   *)
(* most once and only when it is owed, and the debt is settled only when   *)
(* every part is paid.  A settled debt may be opened again by mistake, but *)
(* nothing is paid for it then.                                            *)
(***************************************************************************)
EXTENDS Naturals

CONSTANT Parts

VARIABLES
  debt,      \* none, owed or settled
  paid       \* how often each part was paid

vars == <<debt, paid>>

Init == debt = "none" /\ paid = [p \in Parts |-> 0]

Incur == debt = "none" /\ debt' = "owed" /\ UNCHANGED paid

Pay(p) ==
  /\ debt = "owed" /\ paid[p] = 0
  /\ paid' = [paid EXCEPT ![p] = 1] /\ UNCHANGED debt

Settle ==
  /\ debt = "owed" /\ \A p \in Parts : paid[p] = 1
  /\ debt' = "settled" /\ UNCHANGED paid

Reopen == debt = "settled" /\ debt' = "owed" /\ UNCHANGED paid

Next == Incur \/ (\E p \in Parts : Pay(p)) \/ Settle \/ Reopen

Spec == Init /\ [][Next]_vars
=============================================================================
