------------------------------ MODULE MCNotes ------------------------------
EXTENDS RefundNotes, TLC

Unequal == 1 :> 2 @@ 2 :> 1
Equal == 1 :> 1 @@ 2 :> 1
=============================================================================
