---------------------------- MODULE CancelRefund ----------------------------
(***************************************************************************)
(* Cancelling one paid booking, and the money that goes back.              *)
(*                                                                         *)
(* A cancellation claims the booking under the lock and, in the same       *)
(* transaction, writes either the account credit or the recovery operation *)
(* with the refund frozen into parts, one for each captured transaction.   *)
(* Then it refunds the parts itself, outside the lock, while any number of *)
(* recovery workers (the cron of each instance, the payments route) may    *)
(* find the same operation, and crash, or be taken for dead.  They all use *)
(* the same Stripe idempotency key for a part.                             *)
(***************************************************************************)
EXTENDS Naturals

CONSTANTS
  Cancellers,     \* requests that cancel the booking
  Workers,        \* runs of the recovery job
  Slices,         \* the number of parts of the frozen plan
  MaxAttempts,    \* MAX_PAYMENT_RECOVERY_ATTEMPTS
  MaxLost,        \* bound: answers of Stripe that never arrive
  MaxCrashes      \* bound: requests and runs that die

ASSUME RefundAssumption ==
  /\ Cancellers \cap Workers = {}
  /\ Slices \in Nat \ {0} /\ MaxAttempts \in Nat \ {0}
  /\ MaxLost \in Nat /\ MaxCrashes \in Nat

Actors == Cancellers \cup Workers
Parts == 1 .. Slices

VARIABLES
  status,         \* Booking.status
  credited,       \* how often the cancellation credit was written
  op,             \* PaymentRecoveryOperation.status, NONE before there is one
  attempts, due,  \* its attempts, and whether nextRetryAt is set
  taken,          \* part |-> how often Stripe sent it back
  ledger,         \* parts with a PaymentRefund row
  pc,             \* where each actor is
  part,           \* the part each actor is at
  claimed,        \* the attempts a worker read when it claimed
  alerted,        \* the admins were told that the recovery gave up
  silenced,       \* history: a run died before it could tell them, or hid
                  \* from the others that it should
  lost, crashes

operation == <<op, attempts, due>>
refunds == <<taken, ledger>>
actors == <<pc, part, claimed>>
vars == <<status, credited, op, attempts, due, taken, ledger, pc, part, claimed,
          alerted, silenced, lost, crashes>>

Init ==
  /\ status = "PAID" /\ credited = 0
  /\ op = "NONE" /\ attempts = 0 /\ due = FALSE
  /\ taken = [s \in Parts |-> 0] /\ ledger = {}
  /\ pc = [a \in Actors |-> "idle"] /\ part = [a \in Actors |-> 1]
  /\ claimed = [w \in Workers |-> 0]
  /\ alerted = FALSE /\ silenced = FALSE
  /\ lost = 0 /\ crashes = 0

Goto(a, l) == pc' = [pc EXCEPT ![a] = l]
Begin(a) == Goto(a, "refund") /\ part' = [part EXCEPT ![a] = 1]

----------------------------------------------------------------------------
(* The cancellation *)

(* An unlocked read sends the request down the paid branch. *)
ReadCancel(c) ==
  /\ pc[c] = "idle" /\ status = "PAID" /\ Goto(c, "read")
  /\ UNCHANGED <<status, credited, operation, refunds, part, claimed, alerted, silenced,
                 lost, crashes>>

(* Mutant: the claim trusts the unlocked read. *)
ClaimCancelUnchecked(c) ==
  /\ pc[c] = "read" /\ status' = "CANCELLED"
  /\ \/ /\ op' = "PENDING" /\ due' = TRUE /\ Begin(c) /\ UNCHANGED <<credited, attempts>>
     \/ credited' = credited + 1 /\ Goto(c, "done") /\ UNCHANGED <<operation, part>>
     \/ Goto(c, "done") /\ UNCHANGED <<credited, operation, part>>
  /\ UNCHANGED <<refunds, claimed, alerted, silenced, lost, crashes>>

(* The claim: cancelled, and the debt with it - to the card, to the account *)
(* or none by the policy.  The loser gets a 409.                            *)
ClaimCancel(c) ==
  /\ pc[c] = "read"
  /\ \/ /\ status = "PAID" /\ status' = "CANCELLED"
        /\ \/ /\ op' = "PENDING" /\ due' = TRUE /\ Begin(c)
              /\ UNCHANGED <<credited, attempts>>
           \/ credited' = credited + 1 /\ Goto(c, "done") /\ UNCHANGED <<operation, part>>
           \/ Goto(c, "done") /\ UNCHANGED <<credited, operation, part>>
     \/ /\ status # "PAID" /\ Goto(c, "done")
        /\ UNCHANGED <<status, credited, operation, part>>
  /\ UNCHANGED <<refunds, claimed, alerted, silenced, lost, crashes>>

----------------------------------------------------------------------------
(* refundPaymentTransactions over the frozen plan *)

(* Mutant: a key for each attempt. *)
RefundPartByOwnKey(a) ==
  /\ pc[a] = "refund" /\ part[a] \in Parts
  /\ \/ taken' = [taken EXCEPT ![part[a]] = @ + 1] /\ Goto(a, "record")
     \/ UNCHANGED taken /\ Goto(a, "failed")
  /\ UNCHANGED <<status, credited, operation, ledger, part, claimed, alerted, silenced,
                 lost, crashes>>

(* Stripe refunds the part, or answers a repeated key with the refund it    *)
(* made, or fails; the answer may get lost.                                 *)
RefundPart(a) ==
  /\ pc[a] = "refund" /\ part[a] \in Parts
  /\ \/ /\ taken' = [taken EXCEPT ![part[a]] = 1]
        /\ \/ Goto(a, "record") /\ UNCHANGED lost
           \/ lost < MaxLost /\ lost' = lost + 1 /\ Goto(a, "failed")
     \/ Goto(a, "failed") /\ UNCHANGED <<taken, lost>>
  /\ UNCHANGED <<status, credited, operation, ledger, part, claimed, alerted, silenced,
                 crashes>>

(* The refund is recorded under the id Stripe gave it. *)
RecordPart(a) ==
  /\ pc[a] = "record" /\ Goto(a, "refund")
  /\ ledger' = ledger \cup {part[a]} /\ part' = [part EXCEPT ![a] = @ + 1]
  /\ UNCHANGED <<status, credited, operation, taken, claimed, alerted, silenced, lost, crashes>>

(* charge.refunded records what Stripe has refunded. *)
SyncRefunds ==
  /\ \E s \in Parts : taken[s] > 0 /\ s \notin ledger
  /\ ledger' = {s \in Parts : taken[s] > 0}
  /\ UNCHANGED <<status, credited, operation, taken, actors, alerted, silenced, lost, crashes>>

Refunded(a) == pc[a] = "refund" /\ part[a] > Slices

----------------------------------------------------------------------------
(* How the inline refund ends *)

(* markBookingCancellationRefundRecoverySucceeded, best effort: the write   *)
(* may fail.                                                                *)
CloseInline(c) ==
  /\ Refunded(c) /\ Goto(c, "done")
  /\ \/ op' = "SUCCEEDED" /\ due' = FALSE /\ UNCHANGED attempts
     \/ UNCHANGED operation
  /\ UNCHANGED <<status, credited, refunds, part, claimed, alerted, silenced, lost, crashes>>

(* Mutant: the operation is closed after a refund that failed, too. *)
FailInlineClosed(c) ==
  /\ pc[c] = "failed" /\ Goto(c, "done") /\ op' = "SUCCEEDED" /\ due' = FALSE
  /\ UNCHANGED <<status, credited, attempts, refunds, part, claimed, alerted, silenced,
                 lost, crashes>>

(* A failure is only noted: the operation is there already. *)
FailInline(c) ==
  /\ pc[c] = "failed" /\ Goto(c, "done")
  /\ UNCHANGED <<status, credited, operation, refunds, part, claimed, alerted, silenced,
                 lost, crashes>>

----------------------------------------------------------------------------
(* The recovery job *)

(* Mutant: the claim does not count. *)
ClaimOperationForEver(w) ==
  /\ pc[w] = "idle" /\ op \in {"PENDING", "FAILED"} /\ due
  /\ op' = "PROCESSING" /\ attempts' = attempts + 1 /\ Begin(w)
  /\ claimed' = [claimed EXCEPT ![w] = attempts']
  /\ UNCHANGED <<status, credited, due, refunds, alerted, silenced, lost, crashes>>

(* claimPaymentRecoveryOperation, a conditional write. *)
ClaimOperation(w) ==
  /\ pc[w] = "idle" /\ op \in {"PENDING", "FAILED"} /\ attempts < MaxAttempts /\ due
  /\ op' = "PROCESSING" /\ attempts' = attempts + 1 /\ Begin(w)
  /\ claimed' = [claimed EXCEPT ![w] = attempts']
  /\ UNCHANGED <<status, credited, due, refunds, alerted, silenced, lost, crashes>>

(* completePaymentRecoveryOperation writes by id. *)
Complete(w) ==
  /\ Refunded(w) /\ Goto(w, "idle") /\ op' = "SUCCEEDED" /\ due' = FALSE
  /\ UNCHANGED <<status, credited, attempts, refunds, part, claimed, alerted, silenced,
                 lost, crashes>>

RetryOrGiveUp(w, n) ==
  /\ op' = "FAILED"
  /\ \/ n < MaxAttempts /\ due' = TRUE /\ Goto(w, "idle")
     \/ n >= MaxAttempts /\ due' = FALSE /\ Goto(w, "alert")

(* failPaymentRecoveryOperation writes by id, too, and from the attempts    *)
(* the worker once read: a run that was taken for dead may hide that        *)
(* another's attempt is the last, which then is neither claimed nor reset.  *)
Fail(w) ==
  /\ pc[w] = "failed" /\ RetryOrGiveUp(w, claimed[w])
  /\ silenced' = IF claimed[w] < attempts /\ attempts = MaxAttempts THEN TRUE ELSE silenced
  /\ UNCHANGED <<status, credited, attempts, refunds, part, claimed, alerted, lost, crashes>>

(* Mutant: an operation on its last attempt stays PROCESSING. *)
ResetStaleUnlessLast(w) ==
  /\ pc[w] = "idle" /\ op = "PROCESSING" /\ attempts < MaxAttempts
  /\ op' = "FAILED" /\ due' = TRUE
  /\ UNCHANGED <<status, credited, attempts, refunds, actors, alerted, silenced, lost, crashes>>

(* resetStaleProcessingOperations: a run that has taken 30 minutes counts   *)
(* as dead, whether it is or not.                                           *)
ResetStale(w) ==
  /\ pc[w] = "idle" /\ op = "PROCESSING" /\ RetryOrGiveUp(w, attempts)
  /\ UNCHANGED <<status, credited, attempts, refunds, part, claimed, alerted, silenced,
                 lost, crashes>>

AlertAdmins(w) ==
  /\ pc[w] = "alert" /\ Goto(w, "idle") /\ alerted' = TRUE
  /\ UNCHANGED <<status, credited, operation, refunds, part, claimed, silenced, lost, crashes>>

(* A request or a run dies, perhaps when it was about to tell the admins.   *)
Crash(a) ==
  /\ pc[a] \notin {"idle", "done"} /\ crashes < MaxCrashes /\ crashes' = crashes + 1
  /\ Goto(a, IF a \in Workers THEN "idle" ELSE "done")
  /\ silenced' = IF pc[a] = "alert" THEN TRUE ELSE silenced
  /\ UNCHANGED <<status, credited, operation, refunds, part, claimed, alerted, lost>>

----------------------------------------------------------------------------
Inline(c) == ReadCancel(c) \/ ClaimCancel(c) \/ CloseInline(c) \/ FailInline(c)
Settling(w) == Complete(w) \/ Fail(w) \/ AlertAdmins(w)
Work(w) == ClaimOperation(w) \/ Settling(w) \/ ResetStale(w)
Refund(a) == RefundPart(a) \/ RecordPart(a)

Next ==
  \/ \E c \in Cancellers : Inline(c)
  \/ \E w \in Workers : Work(w)
  \/ \E a \in Actors : Refund(a) \/ Crash(a)
  \/ SyncRefunds

(* The job is scheduled for ever and a run that has begun goes on. *)
Fairness == \A w \in Workers : WF_vars(Work(w)) /\ WF_vars(Refund(w) \/ Settling(w))

Spec == Init /\ [][Next]_vars /\ Fairness

----------------------------------------------------------------------------
Counts ==
  /\ credited \in Nat /\ attempts \in 0 .. MaxAttempts
  /\ taken \in [Parts -> Nat] /\ ledger \subseteq Parts
  /\ part \in [Actors -> 1 .. Slices + 1] /\ claimed \in [Workers -> 0 .. MaxAttempts]
  /\ lost \in 0 .. MaxLost /\ crashes \in 0 .. MaxCrashes

Places ==
  /\ status \in {"PAID", "CANCELLED"}
  /\ op \in {"NONE", "PENDING", "PROCESSING", "FAILED", "SUCCEEDED"}
  /\ pc \in [Actors -> {"idle", "read", "refund", "record", "failed", "alert", "done"}]

Flags == due \in BOOLEAN /\ alerted \in BOOLEAN /\ silenced \in BOOLEAN

TypeOK == Counts /\ Places /\ Flags

(* Whoever wins, a cancellation settles once: one credit or one refund      *)
(* operation, never both, and neither while the booking is paid.            *)
SettledOnce ==
  /\ credited <= 1
  /\ credited = 1 => op = "NONE"
  /\ credited = 1 \/ op # "NONE" => status = "CANCELLED"

(* An operation that is closed has all its refunds in the ledger, even if   *)
(* the run that made them died before it recorded them.                     *)
ClosedIsRecorded == op = "SUCCEEDED" => ledger = Parts

(* The cancellation and the recovery job together implement the debt: each  *)
(* part goes back once, whoever sends it.                                   *)
Debt == INSTANCE RefundDebt WITH
          debt <- IF op = "NONE" THEN "none" ELSE IF op = "SUCCEEDED" THEN "settled" ELSE "owed",
          paid <- taken
DebtSpec == Debt!Spec

(* A refund that is owed is made in the end, or the admins are told. *)
DebtResolves == op # "NONE" ~> (op = "SUCCEEDED" \/ alerted \/ silenced)
=============================================================================
