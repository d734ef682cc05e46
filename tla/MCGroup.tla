------------------------------ MODULE MCGroup ------------------------------
(* Two joiners of equal price. *)
EXTENDS GroupSettlement

PricesMC == [c \in Children |-> 2]
=============================================================================
