-------------------------------- MODULE Sums --------------------------------
(***************************************************************************)
(* Amounts added up over the members of a set, as the code's reduce and    *)
(* aggregate calls do: no ledger depends on the order of its rows.          *)
(***************************************************************************)
EXTENDS Integers, FiniteSets, FiniteSetsExt

(* What f gives the members of S, together. *)
Sum(f, S) == MapThenSumSet(LAMBDA x : f[x], S)

=============================================================================
