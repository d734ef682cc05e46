------------------------- MODULE CancelRefundProofs -------------------------
(***************************************************************************)
(* What TLAPS proves of CancelRefund for any number of requests, recovery  *)
(* runs, parts, attempts, lost answers and crashes: a cancellation settles *)
(* once, a closed operation has its refunds recorded, and the whole        *)
(* implements the refund debt, so that no part goes back twice.            *)
(***************************************************************************)
EXTENDS CancelRefund, TLAPS

(* The claim decides: before it nothing is owed, and it owes one thing. *)
ClaimDecides ==
  /\ status = "PAID" => credited = 0 /\ op = "NONE"
  /\ credited \in {0, 1}
  /\ credited = 1 => op = "NONE"

(* Only a claim starts refunds. *)
NothingBeforeClaim ==
  op = "NONE" => /\ \A a \in Actors : pc[a] \in {"idle", "read", "done"}
                 /\ \A s \in Parts : taken[s] = 0

(* Each part goes back once, and what the ledger records has gone back. *)
PartsOnce ==
  \A s \in Parts : taken[s] \in {0, 1} /\ (s \in ledger => taken[s] = 1)

(* An actor goes to the next part when the last is recorded. *)
InOrder ==
  \A a \in Actors :
    /\ pc[a] \in {"refund", "record"} => \A s \in Parts : s < part[a] => s \in ledger
    /\ pc[a] = "record" => part[a] \in Parts /\ taken[part[a]] = 1

(* The inductive invariant. *)
IInv ==
  /\ TypeOK
  /\ ClaimDecides /\ NothingBeforeClaim
  /\ PartsOnce /\ InOrder /\ ClosedIsRecorded

(* The initial state satisfies it. *)
LEMMA InitIInv == Init => IInv
<1> USE RefundAssumption DEF Init, Parts
<1>1. Init => Counts
  BY DEF Counts
<1>2. Init => Places
  BY DEF Places
<1>3. Init => Flags
  BY DEF Flags
<1>4. Init => ClaimDecides /\ NothingBeforeClaim
  BY DEF ClaimDecides, NothingBeforeClaim
<1>5. Init => PartsOnce /\ InOrder /\ ClosedIsRecorded
  BY DEF PartsOnce, InOrder, ClosedIsRecorded
<1> QED BY <1>1, <1>2, <1>3, <1>4, <1>5 DEF IInv, TypeOK

(* An actor that is through has all parts recorded. *)
LEMMA RefundedIsRecorded ==
  ASSUME IInv, NEW a \in Actors, Refunded(a)
  PROVE  ledger = Parts
<1>1. ASSUME NEW s \in Parts
      PROVE  s \in ledger
  <2>1. s < part[a]
    BY RefundAssumption DEF Refunded, Parts, IInv, TypeOK, Counts
  <2> QED BY <2>1 DEF IInv, InOrder, Refunded
<1> QED BY <1>1 DEF IInv, TypeOK, Counts

(* Each step keeps the counters. *)
LEMMA StepCounts ==
  ASSUME IInv, [Next]_vars
  PROVE  Counts'
<1> USE RefundAssumption DEF IInv, TypeOK, Counts, Begin, operation, refunds, actors, Actors
<1>1. ASSUME NEW c \in Cancellers, Inline(c)
      PROVE  Counts'
  <2>1. CASE ReadCancel(c)
    BY <2>1 DEF ReadCancel
  <2>2. CASE ClaimCancel(c)
    <3>1. credited' \in Nat /\ attempts' = attempts /\ taken' = taken /\ ledger' = ledger
      BY <2>2 DEF ClaimCancel
    <3>2. part' = part \/ part' = [part EXCEPT ![c] = 1]
      BY <2>2 DEF ClaimCancel
    <3>3. part' \in [Actors -> 1 .. Slices + 1]
      BY <3>2
    <3> QED BY <2>2, <3>1, <3>3 DEF ClaimCancel
  <2>3. CASE CloseInline(c) \/ FailInline(c)
    BY <2>3 DEF CloseInline, FailInline, Refunded
  <2> QED BY <1>1, <2>1, <2>2, <2>3 DEF Inline
<1>2. ASSUME NEW w \in Workers, ClaimOperation(w) \/ ResetStale(w)
      PROVE  Counts'
  <2>1. CASE ClaimOperation(w)
    BY <2>1 DEF ClaimOperation
  <2>2. CASE ResetStale(w)
    BY <2>2 DEF ResetStale, RetryOrGiveUp
  <2> QED BY <1>2, <2>1, <2>2
<1>3. ASSUME NEW w \in Workers, Settling(w)
      PROVE  Counts'
  <2>1. CASE Complete(w)
    BY <2>1 DEF Complete, Refunded
  <2>2. CASE Fail(w)
    BY <2>2 DEF Fail, RetryOrGiveUp
  <2>3. CASE AlertAdmins(w)
    BY <2>3 DEF AlertAdmins
  <2> QED BY <1>3, <2>1, <2>2, <2>3 DEF Settling
<1>4. ASSUME NEW a \in Actors, Refund(a)
      PROVE  Counts'
  <2>1. CASE RefundPart(a)
    <3>1. taken' \in [Parts -> Nat]
      <4>1. \/ taken' = taken
            \/ part[a] \in Parts /\ taken' = [taken EXCEPT ![part[a]] = 1]
        BY <2>1 DEF RefundPart
      <4> QED BY <4>1
    <3>2. lost' \in 0 .. MaxLost
      BY <2>1 DEF RefundPart
    <3> QED BY <2>1, <3>1, <3>2 DEF RefundPart
  <2>2. CASE RecordPart(a)
    <3>1. part[a] \in Parts
      BY <2>2 DEF RecordPart, InOrder
    <3>2. ledger' \subseteq Parts
      BY <2>2, <3>1 DEF RecordPart
    <3>3. part' \in [Actors -> 1 .. Slices + 1]
      BY <2>2, <3>1 DEF RecordPart, Parts
    <3> QED BY <2>2, <3>2, <3>3 DEF RecordPart
  <2> QED BY <1>4, <2>1, <2>2 DEF Refund
<1>5. ASSUME NEW a \in Actors, Crash(a)
      PROVE  Counts'
  BY <1>5 DEF Crash
<1>6. CASE SyncRefunds
  BY <1>6 DEF SyncRefunds
<1>7. CASE UNCHANGED vars
  BY <1>7 DEF vars
<1> QED
  BY <1>1, <1>2, <1>3, <1>4, <1>5, <1>6, <1>7 DEF Next, Work

(* Each step keeps the places. *)
LEMMA StepPlaces ==
  ASSUME TypeOK, [Next]_vars
  PROVE  Places'
<1> USE RefundAssumption DEF TypeOK, Counts, Places, Goto, Begin, operation, refunds, actors, Actors, Parts
<1>1. ASSUME NEW c \in Cancellers, Inline(c)
      PROVE  Places'
  BY <1>1 DEF Inline, ReadCancel, ClaimCancel, CloseInline, FailInline, Refunded
<1>2. ASSUME NEW w \in Workers, ClaimOperation(w) \/ ResetStale(w)
      PROVE  Places'
  BY <1>2 DEF ClaimOperation, ResetStale, RetryOrGiveUp
<1>3. ASSUME NEW w \in Workers, Settling(w)
      PROVE  Places'
  BY <1>3 DEF Settling, Complete, Fail, RetryOrGiveUp, AlertAdmins, Refunded
<1>4. ASSUME NEW a \in Actors, Refund(a)
      PROVE  Places'
  BY <1>4 DEF Refund, RefundPart, RecordPart
<1>5. ASSUME NEW a \in Actors, Crash(a)
      PROVE  Places'
  BY <1>5 DEF Crash
<1>6. CASE SyncRefunds
  BY <1>6 DEF SyncRefunds
<1>7. CASE UNCHANGED vars
  BY <1>7 DEF vars
<1> QED
  BY <1>1, <1>2, <1>3, <1>4, <1>5, <1>6, <1>7 DEF Next, Work

(* Each step keeps the flags. *)
LEMMA StepFlags ==
  ASSUME TypeOK, [Next]_vars
  PROVE  Flags'
<1> USE RefundAssumption DEF TypeOK, Flags, Goto, Begin, operation, refunds, actors, Actors, Parts
<1>1. ASSUME NEW c \in Cancellers, Inline(c)
      PROVE  Flags'
  BY <1>1 DEF Inline, ReadCancel, ClaimCancel, CloseInline, FailInline, Refunded
<1>2. ASSUME NEW w \in Workers, ClaimOperation(w) \/ ResetStale(w)
      PROVE  Flags'
  <2>1. CASE ClaimOperation(w)
    BY <2>1 DEF ClaimOperation
  <2>2. CASE ResetStale(w)
    BY <2>2 DEF ResetStale, RetryOrGiveUp
  <2> QED BY <1>2, <2>1, <2>2
<1>3. ASSUME NEW w \in Workers, Settling(w)
      PROVE  Flags'
  <2>1. CASE Complete(w)
    BY <2>1 DEF Complete, Refunded
  <2>2. CASE Fail(w)
    BY <2>2 DEF Fail, RetryOrGiveUp
  <2>3. CASE AlertAdmins(w)
    BY <2>3 DEF AlertAdmins
  <2> QED BY <1>3, <2>1, <2>2, <2>3 DEF Settling
<1>4. ASSUME NEW a \in Actors, Refund(a)
      PROVE  Flags'
  BY <1>4 DEF Refund, RefundPart, RecordPart
<1>5. ASSUME NEW a \in Actors, Crash(a)
      PROVE  Flags'
  BY <1>5 DEF Crash
<1>6. CASE SyncRefunds
  BY <1>6 DEF SyncRefunds
<1>7. CASE UNCHANGED vars
  BY <1>7 DEF vars
<1> QED
  BY <1>1, <1>2, <1>3, <1>4, <1>5, <1>6, <1>7 DEF Next, Work

(* Each step keeps what the claim decided. *)
LEMMA StepClaim ==
  ASSUME IInv, [Next]_vars
  PROVE  ClaimDecides' /\ NothingBeforeClaim'
<1> USE RefundAssumption DEF IInv, TypeOK, Counts, Places, ClaimDecides, NothingBeforeClaim,
            Goto, Begin, operation, refunds, actors, Actors, Parts
<1>1. ASSUME NEW c \in Cancellers, Inline(c)
      PROVE  ClaimDecides' /\ NothingBeforeClaim'
  <2>1. CASE ReadCancel(c)
    BY <2>1 DEF ReadCancel
  <2>2. CASE ClaimCancel(c)
    BY <2>2 DEF ClaimCancel
  <2>3. CASE CloseInline(c) \/ FailInline(c)
    BY <2>3 DEF CloseInline, FailInline, Refunded
  <2> QED BY <1>1, <2>1, <2>2, <2>3 DEF Inline
<1>2. ASSUME NEW w \in Workers, ClaimOperation(w) \/ ResetStale(w)
      PROVE  ClaimDecides' /\ NothingBeforeClaim'
  BY <1>2 DEF ClaimOperation, ResetStale, RetryOrGiveUp
<1>3. ASSUME NEW w \in Workers, Settling(w)
      PROVE  ClaimDecides' /\ NothingBeforeClaim'
  BY <1>3 DEF Settling, Complete, Fail, RetryOrGiveUp, AlertAdmins, Refunded
<1>4. ASSUME NEW a \in Actors, Refund(a)
      PROVE  ClaimDecides' /\ NothingBeforeClaim'
  BY <1>4 DEF Refund, RefundPart, RecordPart
<1>5. ASSUME NEW a \in Actors, Crash(a)
      PROVE  ClaimDecides' /\ NothingBeforeClaim'
  BY <1>5 DEF Crash
<1>6. CASE SyncRefunds
  BY <1>6 DEF SyncRefunds
<1>7. CASE UNCHANGED vars
  BY <1>7 DEF vars
<1> QED
  BY <1>1, <1>2, <1>3, <1>4, <1>5, <1>6, <1>7 DEF Next, Work

(* Each step keeps what is known of the parts. *)
LEMMA StepParts ==
  ASSUME IInv, [Next]_vars
  PROVE  PartsOnce' /\ InOrder' /\ ClosedIsRecorded'
<1> USE RefundAssumption DEF IInv, TypeOK, Counts, Places, NothingBeforeClaim, PartsOnce, InOrder,
            ClosedIsRecorded, Goto, Begin, operation, refunds, actors, Actors, Parts
<1>1. ASSUME NEW c \in Cancellers, Inline(c)
      PROVE  PartsOnce' /\ InOrder' /\ ClosedIsRecorded'
  <2>1. CASE ReadCancel(c)
    BY <2>1 DEF ReadCancel
  <2>2. CASE ClaimCancel(c)
    BY <2>2, SMTT(30) DEF ClaimCancel
  <2>3. CASE CloseInline(c) \/ FailInline(c)
    <3>1. Refunded(c) => ledger = Parts
      BY RefundedIsRecorded
    <3> QED BY <2>3, <3>1 DEF CloseInline, FailInline
  <2> QED BY <1>1, <2>1, <2>2, <2>3 DEF Inline
<1>2. ASSUME NEW w \in Workers, ClaimOperation(w) \/ ResetStale(w)
      PROVE  PartsOnce' /\ InOrder' /\ ClosedIsRecorded'
  <2>1. CASE ClaimOperation(w)
    BY <2>1 DEF ClaimOperation
  <2>2. CASE ResetStale(w)
    BY <2>2 DEF ResetStale, RetryOrGiveUp
  <2> QED BY <1>2, <2>1, <2>2
<1>3. ASSUME NEW w \in Workers, Settling(w)
      PROVE  PartsOnce' /\ InOrder' /\ ClosedIsRecorded'
  <2>1. CASE Complete(w)
    <3>1. Refunded(w) => ledger = Parts
      BY RefundedIsRecorded
    <3> QED BY <2>1, <3>1 DEF Complete
  <2>2. CASE Fail(w)
    BY <2>2 DEF Fail, RetryOrGiveUp
  <2>3. CASE AlertAdmins(w)
    BY <2>3 DEF AlertAdmins
  <2> QED BY <1>3, <2>1, <2>2, <2>3 DEF Settling
<1>4. ASSUME NEW a \in Actors, Refund(a)
      PROVE  PartsOnce' /\ InOrder' /\ ClosedIsRecorded'
  <2>1. CASE RefundPart(a)
    <3>1. PartsOnce'
      BY <2>1 DEF RefundPart
    <3>2. InOrder'
      BY <2>1, SMTT(30) DEF RefundPart
    <3> QED BY <2>1, <3>1, <3>2 DEF RefundPart
  <2>2. CASE RecordPart(a)
    BY <2>2 DEF RecordPart
  <2> QED BY <1>4, <2>1, <2>2 DEF Refund
<1>5. ASSUME NEW a \in Actors, Crash(a)
      PROVE  PartsOnce' /\ InOrder' /\ ClosedIsRecorded'
  BY <1>5 DEF Crash
<1>6. CASE SyncRefunds
  BY <1>6 DEF SyncRefunds
<1>7. CASE UNCHANGED vars
  BY <1>7 DEF vars
<1> QED
  BY <1>1, <1>2, <1>3, <1>4, <1>5, <1>6, <1>7 DEF Next, Work

(* The invariant holds in every reachable state. *)
LEMMA Invariant == Spec => []IInv
<1>1. IInv /\ [Next]_vars => IInv'
  BY StepCounts, StepPlaces, StepFlags, StepClaim, StepParts DEF IInv, TypeOK
<1> QED BY InitIInv, <1>1, PTL DEF Spec

(* Type correctness, for any cancellers, workers, parts and bounds. *)
THEOREM TypeCorrect == Spec => []TypeOK
<1>1. IInv => TypeOK
  BY DEF IInv
<1> QED BY Invariant, <1>1, PTL

(* A cancellation settles once, whoever wins the race to claim it: one      *)
(* credit or one refund operation, and none while the booking is paid.      *)
THEOREM CancellationSettlesOnce == Spec => []SettledOnce
<1>1. IInv => SettledOnce
  BY DEF IInv, TypeOK, Counts, Places, ClaimDecides, SettledOnce
<1> QED BY Invariant, <1>1, PTL

(* An operation that is SUCCEEDED has all its refunds in the ledger.        *)
THEOREM ClosedOperationsAreRecorded == Spec => []ClosedIsRecorded
<1>1. IInv => ClosedIsRecorded
  BY DEF IInv
<1> QED BY Invariant, <1>1, PTL

(* Each step is a step of the debt, or none of its business. *)
LEMMA StepDebt ==
  ASSUME IInv, IInv', [Next]_vars
  PROVE  [Debt!Next]_(Debt!vars)
<1> USE RefundAssumption DEF IInv, TypeOK, Counts, Places, NothingBeforeClaim, PartsOnce, InOrder,
            ClosedIsRecorded, Debt!Next, Debt!vars, Debt!Incur, Debt!Pay, Debt!Settle,
            Debt!Reopen, Goto, Begin, operation, refunds, actors, Actors, Parts
<1>1. ASSUME NEW c \in Cancellers, Inline(c)
      PROVE  [Debt!Next]_(Debt!vars)
  BY <1>1 DEF Inline, ReadCancel, ClaimCancel, CloseInline, FailInline, Refunded
<1>2. ASSUME NEW w \in Workers, ClaimOperation(w) \/ ResetStale(w)
      PROVE  [Debt!Next]_(Debt!vars)
  BY <1>2 DEF ClaimOperation, ResetStale, RetryOrGiveUp
<1>3. ASSUME NEW w \in Workers, Settling(w)
      PROVE  [Debt!Next]_(Debt!vars)
  BY <1>3 DEF Settling, Complete, Fail, RetryOrGiveUp, AlertAdmins, Refunded
<1>4. ASSUME NEW a \in Actors, Refund(a)
      PROVE  [Debt!Next]_(Debt!vars)
  BY <1>4 DEF Refund, RefundPart, RecordPart
<1>5. ASSUME NEW a \in Actors, Crash(a)
      PROVE  [Debt!Next]_(Debt!vars)
  BY <1>5 DEF Crash
<1>6. CASE SyncRefunds
  BY <1>6 DEF SyncRefunds
<1>7. CASE UNCHANGED vars
  BY <1>7 DEF vars
<1> QED
  BY <1>1, <1>2, <1>3, <1>4, <1>5, <1>6, <1>7 DEF Next, Work

(* Whatever the requests and the runs do, the refund is incurred once, each *)
(* part of it goes back at most once and only when owed, and it counts as   *)
(* settled only when all of it has gone back.                               *)
THEOREM ImplementsDebt == Spec => DebtSpec
<1>1. Init => Debt!Init
  BY DEF Init, Debt!Init
<1>2. IInv /\ IInv' /\ [Next]_vars => [Debt!Next]_(Debt!vars)
  BY StepDebt
<1> QED BY <1>1, <1>2, Invariant, PTL DEF Spec, DebtSpec, Debt!Spec
=============================================================================
