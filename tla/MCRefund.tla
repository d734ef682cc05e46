------------------------------ MODULE MCRefund ------------------------------
(* Two requests race to cancel; two runs of the recovery job. *)
EXTENDS CancelRefund
CONSTANTS c1, c2, w1, w2
MCCancellers == {c1, c2}
MCWorkers == {w1, w2}
=============================================================================
