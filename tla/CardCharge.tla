----------------------------- MODULE CardCharge -----------------------------
(***************************************************************************)
(* One provisional booking with a saved card, and everybody who may charge *)
(* it or settle a charge.                                                  *)
(*                                                                         *)
(* Three handlers charge the card outside every lock: the hold cron and    *)
(* the admin's confirm-pending-guests, which claim the booking first, and  *)
(* charge-saved-method (the desk), which only reads it.  They share one    *)
(* Stripe idempotency key, but not one request: the admin's metadata names *)
(* its source, and Stripe refuses a key that comes with another request.   *)
(* Stripe keeps a key for a day; a charge after that is a new intent.      *)
(* Each capture is reported by a webhook, whose handler finds the booking  *)
(* through the PRIMARY PaymentTransaction of the intent.  Meanwhile the    *)
(* booking may be cancelled.                                               *)
(*                                                                         *)
(* Whether the lodge has room is BookingCapacity's business: here every    *)
(* capacity check may go either way.  Price and saved card do not change.  *)
(***************************************************************************)
EXTENDS Naturals

CONSTANTS
  MaxIntents,     \* bound: intents Stripe makes for the booking
  MaxFaults,      \* bound: answers of Stripe that never arrive, crashes of the
                  \* process, deliveries of an event that is being handled
  StaleWindow     \* bound: the admin's claim may come when the window that it
                  \* has read is gone

ASSUME ChargeAssumption ==
  MaxIntents \in Nat \ {0} /\ MaxFaults \in Nat /\ StaleWindow \in BOOLEAN

Chargers == {"cron", "admin", "desk"}
Intents == 1 .. MaxIntents

VARIABLES
  status,         \* Booking.status
  hold,           \* Booking.nonMemberHoldUntil is set
  row,            \* per intent: its PRIMARY PaymentTransaction
  minted,         \* the intents Stripe has made; the last one is the key's
  money,          \* per intent: nothing yet, waiting for the customer, void,
                  \* captured, or captured and then kept or given back
  by,             \* per intent, history: whose call captured it
  reply, body,    \* what is stored under the key: the answer, the request
  event,          \* per intent, payment_intent.succeeded: none, due, answered
  marker,         \* per intent: the event's ProcessedWebhookEvent row
  pc,             \* where each charger is
  hook,           \* per intent: where the handler of its event is
  cancel,         \* a cancellation has read the booking as unpaid
  alerted,        \* intents of whose money an admin was told
  adrift,         \* history: intents whose last messenger was lost, ...
  revived,        \* ... and whether a write went over a closed booking
  lost, crashes, repeats

booking == <<status, hold>>
key == <<reply, body>>
stripe == <<minted, money, by, reply, body>>
delivery == <<event, marker, hook>>
history == <<adrift, revived>>
counters == <<lost, crashes, repeats>>
vars == <<status, hold, row, minted, money, by, reply, body, event, marker, pc,
          hook, cancel, alerted, adrift, revived, lost, crashes, repeats>>

All(v) == [i \in Intents |-> v]

Init ==
  /\ status = "PENDING" /\ hold = TRUE
  /\ row = All("none")
  /\ minted = 0 /\ money = All("none") /\ by = All("none")
  /\ reply = "none" /\ body = "none"
  /\ event = All("none") /\ marker = All(FALSE) /\ hook = All("idle")
  /\ pc = [p \in Chargers |-> "idle"]
  /\ cancel = FALSE
  /\ alerted = {} /\ adrift = {} /\ revived = FALSE
  /\ lost = 0 /\ crashes = 0 /\ repeats = 0

Goto(p, l) == pc' = [pc EXCEPT ![p] = l]
Idle == \A p \in Chargers : pc[p] = "idle"

SetAdrift(S) == adrift' = adrift \cup S

MayFail == lost + crashes + repeats < MaxFaults

----------------------------------------------------------------------------
(* Claiming *)

(* Mutant: without room the window goes, the booking stays. *)
CronClaimForgetsBump ==
  /\ pc["cron"] = "idle" /\ status = "PENDING" /\ hold
  /\ hold' = FALSE
  /\ \/ status' = "CONFIRMED" /\ Goto("cron", "claimed")
     \/ UNCHANGED <<status, pc>>
  /\ UNCHANGED <<row, stripe, delivery, cancel, alerted, history, counters>>

(* resolveHoldWindowUnderLock, when the window has ended: the claim takes   *)
(* the beds and erases the window; without room the booking is bumped.      *)
CronClaim ==
  /\ pc["cron"] = "idle" /\ status = "PENDING" /\ hold
  /\ hold' = FALSE
  /\ \/ status' = "CONFIRMED" /\ Goto("cron", "claimed")
     \/ status' = "CANCELLED" /\ UNCHANGED pc
  /\ UNCHANGED <<row, stripe, delivery, cancel, alerted, history, counters>>

(* confirm-pending-guests need not wait for the window's end.  It asks for  *)
(* the window before it takes the lock, and under the lock for the status   *)
(* only: by then the window may be gone.                                    *)
AdminClaim ==
  /\ pc["admin"] = "idle" /\ status = "PENDING" /\ (hold \/ StaleWindow)
  /\ status' = "CONFIRMED" /\ hold' = FALSE /\ Goto("admin", "claimed")
  /\ UNCHANGED <<row, stripe, delivery, cancel, alerted, history, counters>>

(* charge-saved-method reads the booking and the capacity, and claims       *)
(* nothing.                                                                 *)
DeskRead ==
  /\ pc["desk"] = "idle" /\ status = "PENDING" /\ Goto("desk", "claimed")
  /\ UNCHANGED <<booking, row, stripe, delivery, cancel, alerted, history, counters>>

----------------------------------------------------------------------------
(* Stripe *)

(* The request under the key; the admin's route adds a source to the        *)
(* metadata.                                                                *)
Body(p) == IF p = "admin" THEN "admin" ELSE "saved"

(* The first call under a key decides; a declined one leaves no intent that *)
(* anybody comes back to.                                                   *)
Decide(p) ==
  /\ body' = Body(p)
  /\ \/ /\ minted < MaxIntents /\ minted' = minted + 1
        /\ \/ /\ reply' = "succeeded"
              /\ money' = [money EXCEPT ![minted'] = "captured"]
              /\ by' = [by EXCEPT ![minted'] = p]
              /\ event' = [event EXCEPT ![minted'] = "due"]
           \/ /\ reply' = "action" /\ money' = [money EXCEPT ![minted'] = "open"]
              /\ UNCHANGED <<by, event>>
     \/ reply' = "declined" /\ UNCHANGED <<minted, money, by, event>>

(* The answer arrives, or it is lost. *)
Hear(p) ==
  \/ Goto(p, IF reply' = "declined" THEN "failed" ELSE reply') /\ UNCHANGED lost
  \/ MayFail /\ lost' = lost + 1 /\ Goto(p, "failed")

(* Mutant: each handler charges under a key of its own. *)
ChargeByOwnKey(p) ==
  /\ pc[p] = "claimed" /\ Decide(p) /\ Hear(p)
  /\ UNCHANGED <<booking, row, marker, hook, cancel, alerted, history, crashes, repeats>>

(* chargePaymentMethod under the key pending_charge_<booking>: the first    *)
(* call decides, the same request again is told the same, another request   *)
(* is refused.                                                              *)
Charge(p) ==
  /\ pc[p] = "claimed"
  /\ \/ reply = "none" /\ Decide(p) /\ Hear(p)
     \/ reply # "none" /\ body = Body(p) /\ UNCHANGED <<stripe, event>> /\ Hear(p)
     \/ /\ reply # "none" /\ body # Body(p)
        /\ Goto(p, "failed") /\ UNCHANGED <<stripe, event, lost>>
  /\ UNCHANGED <<booking, row, marker, hook, cancel, alerted, history, crashes, repeats>>

(* Stripe forgets the key after a day.  No charger's request takes that     *)
(* long, and what the cron itself has charged it claims again within hours, *)
(* as long as the booking is there to be claimed.                           *)
KeyExpires ==
  /\ reply # "none" /\ Idle
  /\ ~(status = "PENDING" /\ hold /\ reply = "succeeded" /\ by[minted] = "cron")
  /\ reply' = "none" /\ body' = "none"
  /\ UNCHANGED <<booking, row, minted, money, by, delivery, pc, cancel, alerted,
                 history, counters>>

(* An intent that wanted more than the saved card succeeds after all. *)
Authenticate(i) ==
  /\ money[i] = "open"
  /\ money' = [money EXCEPT ![i] = "captured"]
  /\ by' = [by EXCEPT ![i] = "customer"]
  /\ event' = [event EXCEPT ![i] = "due"]
  /\ UNCHANGED <<booking, row, minted, key, marker, hook, pc, cancel, alerted,
                 history, counters>>

----------------------------------------------------------------------------
(* Settling a charge.  The key outlives every charger's request, so the     *)
(* intent a charger works with is the last one minted.                      *)

Payable == {"PENDING", "CONFIRMED"}
RowIs(i, s) == row' = [row EXCEPT ![i] = s]

(* Mutant: late money revives a cancelled booking. *)
MarkSettlesAnything(i) ==
  /\ status' = "PAID"
  /\ RowIs(i, "succeeded") /\ UNCHANGED hold

(* markBookingPaymentSucceeded, the three ways it ends: the booking is paid *)
(* (or was, and a second payment is taken in silence), the lodge is full,   *)
(* or it throws and rolls its row back.                                     *)
MarkSettles(i) ==
  /\ status \in Payable \cup {"PAID"} /\ status' = "PAID"
  /\ RowIs(i, "succeeded") /\ UNCHANGED hold
MarkFindsNoRoom(i) ==
  /\ status \in Payable /\ status' = "CANCELLED"
  /\ RowIs(i, "succeeded") /\ UNCHANGED hold
MarkRefuses == status = "CANCELLED" /\ UNCHANGED <<booking, row>>

(* buildRefundAllocationSlices: the captured rows of the payment with money *)
(* left, the newest first.  Rows come in the order of their intents.        *)
Refundable(r) == {i \in Intents : r[i] = "succeeded" /\ money[i] \in {"captured", "kept"}}
Newest(S) == {i \in S : \A j \in S : j <= i}

(* What is left of the newest row after another of those has given, too. *)
Less(m) == IF m = "captured" THEN "kept" ELSE "returned"

(* The price of one capture goes back: from the newest row, or, if the      *)
(* policy has taken from that one, from it and the next.                    *)
ReturnPrice(r) ==
  /\ row' = r
  /\ \E n \in Newest(Refundable(r)) :
       \/ money' = [money EXCEPT ![n] = "returned"]
       \/ /\ money[n] = "kept"
          /\ \E m \in Newest(Refundable(r) \ {n}) :
               money' = [money EXCEPT ![n] = "returned", ![m] = Less(@)]

(* A refund on account of i may come from another capture and leave i's be. *)
ReturnPriceOf(i, r) ==
  /\ ReturnPrice(r)
  /\ IF money'[i] = "captured" THEN SetAdrift({i}) ELSE UNCHANGED adrift

(* The cron and the admin write the row before they settle, so that the     *)
(* webhook can find it.                                                     *)
Record(p) ==
  /\ p # "desk" /\ pc[p] = "succeeded"
  /\ RowIs(minted, "succeeded") /\ Goto(p, "recorded")
  /\ UNCHANGED <<booking, stripe, delivery, cancel, alerted, history, counters>>

Settle(p) ==
  /\ pc[p] = IF p = "desk" THEN "succeeded" ELSE "recorded"
  /\ \/ MarkSettles(minted) /\ Goto(p, "idle") /\ UNCHANGED alerted
     \/ MarkFindsNoRoom(minted) /\ Goto(p, "refund") /\ UNCHANGED alerted
     \/ /\ MarkRefuses /\ Goto(p, "idle")
        /\ alerted' = alerted \cup IF p = "admin" THEN {minted} ELSE {}
  /\ UNCHANGED <<stripe, delivery, cancel, history, counters>>

(* The refund after MarkFindsNoRoom; a failure alerts the admins. *)
RefundNoRoom(p) ==
  /\ pc[p] = "refund" /\ Goto(p, "idle")
  /\ \/ ReturnPriceOf(minted, row) /\ UNCHANGED alerted
     \/ alerted' = alerted \cup {minted} /\ UNCHANGED <<money, row, adrift>>
  /\ UNCHANGED <<booking, minted, by, key, delivery, cancel, revived, counters>>

(* Of an intent that wants the customer the cron keeps a row, the admin's   *)
(* route keeps nothing.                                                     *)
KeepsOpenIntent(p) ==
  IF p = "cron" /\ pc[p] = "action" THEN RowIs(minted, "processing") ELSE UNCHANGED row

(* Mutant: the claim is released without its window. *)
ReleaseWithoutWindow(p) ==
  /\ p # "desk" /\ pc[p] \in {"failed", "action"} /\ Goto(p, "idle")
  /\ status' = IF status = "CONFIRMED" THEN "PENDING" ELSE status
  /\ KeepsOpenIntent(p)
  /\ UNCHANGED <<hold, stripe, delivery, cancel, alerted, history, counters>>

(* releaseChargeClaim. *)
Release(p) ==
  /\ p # "desk" /\ pc[p] \in {"failed", "action"} /\ Goto(p, "idle")
  /\ IF status = "CONFIRMED" THEN status' = "PENDING" /\ hold' = TRUE
                             ELSE UNCHANGED booking
  /\ KeepsOpenIntent(p)
  /\ UNCHANGED <<stripe, delivery, cancel, alerted, history, counters>>

(* charge-saved-method without the money: it writes PENDING by id, whatever *)
(* the booking is by now.                                                   *)
DeskFails ==
  /\ pc["desk"] \in {"failed", "action"} /\ Goto("desk", "idle")
  /\ IF pc["desk"] = "action"
     THEN /\ status' = "PENDING" /\ RowIs(minted, "processing")
          /\ IF status \in {"PAID", "CANCELLED"}
             THEN SetAdrift(Intents) /\ revived' = TRUE ELSE UNCHANGED history
     ELSE UNCHANGED <<status, row, history>>
  /\ UNCHANGED <<hold, stripe, delivery, cancel, alerted, counters>>

----------------------------------------------------------------------------
(* The webhook *)

(* processStripeWebhookEvent claims the event ... *)
Deliver(i) ==
  /\ event[i] = "due" /\ ~marker[i]
  /\ marker' = [marker EXCEPT ![i] = TRUE] /\ hook' = [hook EXCEPT ![i] = "claimed"]
  /\ UNCHANGED <<booking, row, stripe, event, pc, cancel, alerted, history, counters>>

Answer(i) == event' = [event EXCEPT ![i] = "answered"]

(* ... and answers 200 to every delivery of a claimed one: to the retry of  *)
(* an attempt that took too long, and for ever after a crash.               *)
DeliverClaimed(i) ==
  /\ event[i] = "due" /\ marker[i] /\ Answer(i)
  /\ \/ hook[i] = "idle" /\ UNCHANGED repeats
     \/ hook[i] # "idle" /\ MayFail /\ repeats' = repeats + 1
  /\ UNCHANGED <<booking, row, stripe, marker, hook, pc, cancel, alerted, history,
                 lost, crashes>>

HookAt(i, l) == hook' = [hook EXCEPT ![i] = l]
HookAnswers(i) == HookAt(i, "idle") /\ Answer(i) /\ UNCHANGED marker

NoRetry(i) == IF event[i] = "answered" THEN SetAdrift({i}) ELSE UNCHANGED adrift

(* Mutant: the claim of a failed event stays. *)
HookFailsClaimed(i) ==
  HookAt(i, "idle") /\ UNCHANGED <<event, marker>> /\ NoRetry(i)

(* The handler throws: the claim is deleted, Stripe is answered 500.  If a  *)
(* repeat was answered 200 meanwhile, it does not come back.                *)
HookFails(i) ==
  /\ HookAt(i, "idle") /\ marker' = [marker EXCEPT ![i] = FALSE] /\ UNCHANGED event
  /\ NoRetry(i)

(* handlePaymentIntentSucceeded: without a row it can only warn. *)
HookFinds(i) ==
  /\ hook[i] = "claimed"
  /\ \/ row[i] = "none" /\ HookAnswers(i) /\ SetAdrift({i})
     \/ /\ row[i] # "none" /\ HookAt(i, IF status = "CANCELLED" THEN "late" ELSE "paying")
        /\ UNCHANGED <<event, marker, adrift>>
  /\ UNCHANGED <<booking, row, stripe, pc, cancel, alerted, revived, counters>>

HookSettles(i) ==
  /\ hook[i] = "paying"
  /\ \/ MarkSettles(i) /\ HookAnswers(i) /\ UNCHANGED adrift
     \/ MarkFindsNoRoom(i) /\ HookAt(i, "refund") /\ UNCHANGED <<event, marker, adrift>>
     \/ MarkRefuses /\ HookFails(i)
  /\ UNCHANGED <<stripe, pc, cancel, alerted, revived, counters>>

HookRefundsNoRoom(i) ==
  /\ hook[i] = "refund" /\ HookAnswers(i)
  /\ \/ ReturnPriceOf(i, row) /\ UNCHANGED alerted
     \/ alerted' = alerted \cup {i} /\ UNCHANGED <<money, row, adrift>>
  /\ UNCHANGED <<booking, minted, by, key, pc, cancel, revived, counters>>

(* handleCancelledBookingPaymentSucceeded *)
HookRefundsLate(i) ==
  /\ hook[i] = "late" /\ HookAnswers(i)
  /\ ReturnPrice([row EXCEPT ![i] = "succeeded"]) /\ alerted' = alerted \cup {i}
  /\ UNCHANGED <<booking, minted, by, key, pc, cancel, history, counters>>
HookRefundFails(i) ==
  /\ hook[i] = "late" /\ RowIs(i, "succeeded") /\ HookFails(i)
  /\ UNCHANGED <<booking, stripe, pc, cancel, alerted, revived, counters>>

----------------------------------------------------------------------------
(* Cancellation *)

(* paymentEligibleForPaidCancelPath, paymentHasCaptureEvidence *)
Eligible == Refundable(row) # {}
Evidence == \E i \in Intents : row[i] = "succeeded"

(* Payment.stripePaymentIntentId is the intent of the latest row. *)
Rows == {i \in Intents : row[i] # "none"}

(* Mutant: the row keeps Stripe's word, which is no PaymentStatus. *)
VoidedRowVerbatim(i) == IF row[i] = "processing" THEN "canceled" ELSE row[i]

(* markPaymentIntentTransactionFailed leaves captured money alone. *)
VoidedRow(i) == IF row[i] = "processing" THEN "failed" ELSE row[i]

(* cancelOutstandingPaymentIntents *)
VoidLatest ==
  IF Evidence \/ Rows = {} THEN UNCHANGED <<money, row>>
  ELSE \E i \in Newest(Rows) :
         /\ money' = [money EXCEPT ![i] = IF @ = "open" THEN "void" ELSE @]
         /\ row' = [row EXCEPT ![i] = VoidedRow(i)]

(* An unlocked read picks the branch; the unpaid one voids the intent it    *)
(* can see.                                                                 *)
ReadCancel ==
  /\ ~cancel
  /\ \/ status = "PENDING" /\ cancel' = TRUE /\ UNCHANGED <<money, row>>
     \/ status \in {"CONFIRMED", "PAID"} /\ ~Eligible /\ cancel' = TRUE /\ VoidLatest
  /\ UNCHANGED <<booking, minted, by, key, delivery, pc, alerted, history, counters>>

(* The write is by id. *)
WriteCancel ==
  /\ cancel /\ cancel' = FALSE /\ status' = "CANCELLED"
  /\ IF status = "PAID" THEN SetAdrift(Intents) /\ revived' = TRUE ELSE UNCHANGED history
  /\ UNCHANGED <<hold, row, stripe, delivery, pc, alerted, counters>>

(* The paid branch settles the price of the booking: by the policy all, a   *)
(* part or nothing of it goes back, from the newest row first.  What was    *)
(* captured beyond the price it leaves alone.                               *)
CancelPaid ==
  /\ status \in {"CONFIRMED", "PAID"} /\ Eligible /\ status' = "CANCELLED"
  /\ \/ ReturnPrice(row)
     \/ \E n \in Newest(Refundable(row)) :
          money' = [money EXCEPT ![n] = Less(@)] /\ UNCHANGED row
  /\ SetAdrift({i \in Intents : money'[i] = "captured" /\ event[i] = "answered"})
  /\ UNCHANGED <<hold, minted, by, key, delivery, pc, cancel, alerted, revived, counters>>

InFlight == ~Idle \/ cancel \/ \E i \in Intents : hook[i] # "idle"

Crash ==
  /\ MayFail /\ crashes' = crashes + 1 /\ InFlight
  /\ pc' = [p \in Chargers |-> "idle"] /\ hook' = All("idle") /\ cancel' = FALSE
  /\ SetAdrift(Intents)
  /\ UNCHANGED <<booking, row, stripe, event, marker, alerted, revived, lost, repeats>>

----------------------------------------------------------------------------
Work(p) == Charge(p) \/ Record(p) \/ Settle(p) \/ RefundNoRoom(p) \/ Release(p)
Hook(i) == \/ HookFinds(i) \/ HookSettles(i) \/ HookRefundsNoRoom(i)
           \/ HookRefundsLate(i) \/ HookRefundFails(i)

Next ==
  \/ CronClaim \/ AdminClaim \/ DeskRead \/ KeyExpires
  \/ \E p \in Chargers : Work(p)
  \/ DeskFails
  \/ \E i \in Intents : Authenticate(i) \/ Deliver(i) \/ DeliverClaimed(i) \/ Hook(i)
  \/ ReadCancel \/ WriteCancel \/ CancelPaid
  \/ Crash

Spec == Init /\ [][Next]_vars

----------------------------------------------------------------------------
Counts ==
  /\ minted \in 0 .. MaxIntents
  /\ lost \in Nat /\ crashes \in Nat /\ repeats \in Nat
  /\ lost + crashes + repeats <= MaxFaults

Flags ==
  /\ hold \in BOOLEAN /\ cancel \in BOOLEAN /\ revived \in BOOLEAN
  /\ marker \in [Intents -> BOOLEAN]
  /\ alerted \subseteq Intents /\ adrift \subseteq Intents

Words ==
  /\ status \in {"PENDING", "CONFIRMED", "PAID", "CANCELLED"}
  /\ row \in [Intents -> {"none", "processing", "failed", "succeeded"}]
  /\ money \in [Intents -> {"none", "open", "void", "captured", "returned", "kept"}]
  /\ by \in [Intents -> {"none", "cron", "admin", "desk", "customer"}]
  /\ reply \in {"none", "declined", "action", "succeeded"}
  /\ body \in {"none", "saved", "admin"}
  /\ event \in [Intents -> {"none", "due", "answered"}]

Places ==
  /\ pc \in [Chargers -> {"idle", "claimed", "failed", "action", "succeeded",
                          "recorded", "refund"}]
  /\ hook \in [Intents -> {"idle", "claimed", "paying", "refund", "late"}]

TypeOK == Counts /\ Flags /\ Words /\ Places

(* The shared key is there so that no booking is charged twice.  It does so *)
(* for what the cron charges, whatever is lost and whoever else charges.  A *)
(* second capture comes only after one that waited for the customer past    *)
(* the key's day, or one that the admin or the desk made without hearing of *)
(* it.                                                                      *)
SecondCaptureExplained ==
  \A i, j \in Intents :
    i < j /\ by[i] # "none" /\ by[j] # "none" =>
      \/ by[i] = "customer"
      \/ by[i] # "cron" /\ lost + crashes > 0

(* An answer to the cron that got lost costs nothing: as long as the booking *)
(* is PENDING, the cron will select it again, its window being set, and its *)
(* request is told of the money, however often the admin, whose request is  *)
(* another, is refused meanwhile.                                           *)
RetryFindsTheMoney ==
  \A i \in Intents :
    by[i] = "cron" /\ status = "PENDING" =>
      hold /\ i = minted /\ reply = "succeeded" /\ body = Body("cron")

(* A PENDING booking keeps the window by which the cron finds it, unless    *)
(* somebody has claimed it - or charge-saved-method wrote PENDING over a    *)
(* claim because the card wanted the customer, or the process stopped.      *)
WindowIsKept ==
  status = "PENDING" /\ ~hold =>
    \/ pc["cron"] # "idle" \/ pc["admin"] # "idle" \/ crashes > 0
    \/ \E i \in Intents : money[i] \in {"open", "void"} \/ by[i] = "customer"

(* A paid booking has its money: whatever was refunded on the way, a refund *)
(* was never for a booking that is, or becomes, PAID - unless a write by id *)
(* went over a paid or cancelled one.                                       *)
PaidIsCaptured ==
  status = "PAID" => revived \/ \E i \in Intents : money[i] = "captured"

(* Nobody works on the booking's money or will: no handler is in flight,    *)
(* Stripe has no event that a handler would take, the booking is not PAID   *)
(* with this intent, and the cron would not find it again under its key.    *)
Abandoned(i) ==
  /\ ~InFlight /\ \A j \in Intents : ~(event[j] = "due" /\ ~marker[j])
  /\ ~(status = "PAID" /\ row[i] # "none")
  /\ ~(status = "PENDING" /\ hold /\ minted = i /\ reply = "succeeded"
       /\ body = Body("cron"))

(* Captured money that settles nothing, and no admin was told. *)
Orphaned(i) == Abandoned(i) /\ money[i] = "captured" /\ i \notin alerted

(* Captured money is orphaned in six ways only: the webhook came before the *)
(* row (HookFinds), a repeat was acknowledged for an attempt that then      *)
(* failed (NoRetry), the process stopped (Crash), a write by id went over a *)
(* paid or cancelled booking (WriteCancel, DeskFails), a refund on its      *)
(* account came from another capture (ReturnPriceOf), or the booking was    *)
(* paid twice and the cancellation settled its price (CancelPaid).          *)
OrphansHaveACause == \A i \in Intents : Orphaned(i) => i \in adrift
=============================================================================
