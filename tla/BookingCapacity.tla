--------------------------- MODULE BookingCapacity ---------------------------
(***************************************************************************)
(* The booking lifecycle and the beds it takes.                            *)
(*                                                                         *)
(* Every handler that changes Booking.status is an action.  A handler that *)
(* runs inside one transaction under pg_advisory_xact_lock(1) is one       *)
(* atomic step.  A handler that reads first and writes later, outside that *)
(* lock, is two steps: the read leaves a job in jobs (what the process     *)
(* remembers), the write consumes it and trusts what was read.             *)
(*                                                                         *)
(* Money is abstract here: payment is the Payment row (which instrument,   *)
(* and how far that got), intent what Stripe has for the booking.          *)
(***************************************************************************)
EXTENDS Lodge, Sequences

CONSTANTS
  Free,           \* bookings whose finalPriceCents is 0
  Provisional,    \* parties with non-members booked before the hold window
  Minors,         \* parties without an adult (blockForReview)
  CardSaved,      \* bookings with a saved card and Stripe customer
  Requested,      \* bookings converted from a BookingRequest
  Parent,         \* a split party's non-member child points to its parent
  MaxBeds,        \* bound: the largest lodge capacity an admin sets
  InitBeds,       \* the lodge capacity at the start
  LastDay,        \* bound: the calendar stops here
  MaxFaults       \* bound: crashes of the application process

ASSUME CapacityAssumption ==
  /\ Free \subseteq Bookings /\ Provisional \subseteq Bookings
  /\ Minors \subseteq Bookings /\ CardSaved \subseteq Bookings
  /\ Requested \subseteq Bookings
  /\ Parent \in [Bookings -> Bookings]
  /\ \A r \in Requested : Parent[r] = r
  /\ MaxBeds \in Nat /\ InitBeds \in 0 .. MaxBeds
  /\ LastDay \in Nat /\ MaxFaults \in Nat

VARIABLES
  status,         \* Booking.status
  deadline,       \* the deadline the status carries: draftExpiresAt,
                  \* nonMemberHoldUntil, waitlistOfferExpiresAt or
                  \* internetBankingHoldUntil
  payment,        \* the Payment row
  intent,         \* the primary Stripe PaymentIntent
  line,           \* the waitlisted bookings in createdAt order
  beds,           \* getLodgeCapacity()
  today,          \* the date
  jobs,           \* what running handlers have read and not yet written
  entry,          \* history: how the booking last came to take beds
  cut,            \* history: nights a capacity cut left oversold
  faults          \* crashes so far

rows == <<status, deadline, payment, intent, line>>
vars == <<status, deadline, payment, intent, line, beds, today, jobs, entry, cut, faults>>

Deadline == {"none", "ahead", "passed"}

(* card: unpaid, by Stripe; banked / invoiced: unpaid, an Internet Banking *)
(* invoice with / without held beds; settled: Payment SUCCEEDED; closed:   *)
(* failed, refunded or credited.                                           *)
PaymentRow == {"none", "card", "settled", "banked", "invoiced", "closed"}

(* captured: Stripe has the money and the booking does not know yet. *)
Intent == {"none", "open", "captured"}

JobKind ==
  {"charge", "earlyCharge", "freeConfirm", "pendingCancel", "unpaidCancel",
   "orphan", "switch", "line", "sweep", "complete"}
Job(kind, b) == [kind |-> kind, of |-> b]
Running(kind) == {b \in Bookings : Job(kind, b) \in jobs}
Start(kind, S) == jobs' = jobs \cup {Job(kind, b) : b \in S}

(* capacityHoldingBookingFilter *)
Holders(st) ==
  {b \in Bookings : \/ st[b] \in HoldingStatus
                    \/ st[b] = "PENDING" /\ b \in Requested}
Fits(b) == FitsBeside(Holders(status), b, beds)
Children(b) == {c \in Bookings \ {b} : Parent[c] = b}

(* A write of Booking.status that follows a capacity check, one that an     *)
(* admin forced over it, and one no check precedes.                         *)
Admit(b, s) ==
  /\ status' = [status EXCEPT ![b] = s]
  /\ entry' = [entry EXCEPT ![b] = "checked"]
Override(b, s) ==
  /\ status' = [status EXCEPT ![b] = s]
  /\ entry' = [entry EXCEPT ![b] = "admin"]
Slip(b, s) ==
  /\ status' = [status EXCEPT ![b] = s]
  /\ entry' = [entry EXCEPT ![b] = "unchecked"]
Put(b, s) == status' = [status EXCEPT ![b] = s] /\ UNCHANGED entry

SetDeadline(b, d) == deadline' = [deadline EXCEPT ![b] = d]
SetPayment(b, p) == payment' = [payment EXCEPT ![b] = p]
SetIntent(b, i) == intent' = [intent EXCEPT ![b] = i]
Elsewhere == UNCHANGED <<beds, today, cut, faults>>

Init ==
  /\ status = [b \in Bookings |-> "ABSENT"]
  /\ deadline = [b \in Bookings |-> "none"]
  /\ payment = [b \in Bookings |-> "none"]
  /\ intent = [b \in Bookings |-> "none"]
  /\ line = <<>>
  /\ beds = InitBeds
  /\ today = 0
  /\ jobs = {}
  /\ entry = [b \in Bookings |-> "none"]
  /\ cut = {}
  /\ faults = 0

----------------------------------------------------------------------------
(* Creation *)

Bookable(b) ==
  /\ status[b] = "ABSENT" /\ Parent[b] = b /\ b \notin Requested
  /\ CheckIn[b] >= today

(* createConfirmedBooking, paid by card or free.  A mixed party's           *)
(* non-member child is created PENDING by the same transaction.             *)
CreateConfirmed(b) ==
  LET first == IF b \in Minors THEN "AWAITING_REVIEW"
               ELSE IF b \in Provisional THEN "PENDING"
               ELSE IF b \in Free THEN "PAID" ELSE "PAYMENT_PENDING"
      kids == Children(b)
      pending == kids \cup (IF first = "PENDING" THEN {b} ELSE {})
  IN /\ Bookable(b) /\ Fits(b)
     /\ status' = [c \in Bookings |-> IF c = b THEN first
                                      ELSE IF c \in kids THEN "PENDING" ELSE status[c]]
     /\ entry' = [entry EXCEPT ![b] = "checked"]
     /\ deadline' = [c \in Bookings |-> IF c \in pending THEN "ahead" ELSE deadline[c]]
     /\ payment' = IF first = "PAID" THEN [payment EXCEPT ![b] = "settled"] ELSE payment
     /\ UNCHANGED <<intent, line, jobs>> /\ Elsewhere

(* createConfirmedBooking, paid by bank transfer: the beds are held only if *)
(* the club holds slots for transfers.                                      *)
CreateOnInvoice(b, holdSlots) ==
  /\ Bookable(b) /\ Fits(b) /\ b \notin Minors \cup Free /\ Children(b) = {}
  /\ Admit(b, IF holdSlots THEN "CONFIRMED" ELSE "PAYMENT_PENDING")
  /\ SetDeadline(b, IF holdSlots THEN "ahead" ELSE "none")
  /\ SetPayment(b, IF holdSlots THEN "banked" ELSE "invoiced")
  /\ UNCHANGED <<intent, line, jobs>> /\ Elsewhere

(* createDraftBooking runs no capacity check, and a draft that needs review *)
(* lands in AWAITING_REVIEW, which holds beds.                              *)
CreateDraft(b) ==
  /\ Bookable(b) /\ Children(b) = {}
  /\ \/ b \notin Minors /\ Put(b, "DRAFT") /\ SetDeadline(b, "ahead")
     \/ b \in Minors /\ Slip(b, "AWAITING_REVIEW") /\ UNCHANGED deadline
  /\ UNCHANGED <<payment, intent, line, jobs>> /\ Elsewhere

(* createWaitlistedBooking: a later transaction than the one that found the *)
(* lodge full, so nothing about the lodge is known any more.                *)
JoinWaitlist(b) ==
  /\ Bookable(b) /\ Children(b) = {}
  /\ Put(b, "WAITLISTED")
  /\ line' = Append(line, b)
  /\ UNCHANGED <<deadline, payment, intent, jobs>> /\ Elsewhere

(* holdBookingRequestSlots: a sent quote reserves the beds. *)
HoldRequest(b) ==
  /\ b \in Requested /\ status[b] = "ABSENT" /\ Fits(b)
  /\ Admit(b, "AWAITING_REVIEW")
  /\ UNCHANGED <<deadline, payment, intent, line, jobs>> /\ Elsewhere

(* convertBookingRequestToBooking: directly, or from the held quote. *)
ConvertRequest(b) ==
  /\ b \in Requested
  /\ \/ status[b] = "ABSENT" /\ Fits(b) /\ Admit(b, "PENDING")
     \/ status[b] = "AWAITING_REVIEW" /\ Put(b, "PENDING")
  /\ SetDeadline(b, "ahead")
  /\ UNCHANGED <<payment, intent, line, jobs>> /\ Elsewhere

----------------------------------------------------------------------------
(* Drafts and reviews *)

(* Mutant: the draft was checked when it was created, was it not? *)
ConfirmDraftUnchecked(b) ==
  /\ status[b] = "DRAFT" /\ b \in Free
  /\ Admit(b, "PAID") /\ SetDeadline(b, "none") /\ SetPayment(b, "settled")
  /\ UNCHANGED <<intent, line, jobs>> /\ Elsewhere

(* confirm-draft: a free draft becomes PAID. *)
ConfirmDraft(b) ==
  /\ status[b] = "DRAFT" /\ b \in Free /\ Fits(b)
  /\ Admit(b, "PAID") /\ SetDeadline(b, "none") /\ SetPayment(b, "settled")
  /\ UNCHANGED <<intent, line, jobs>> /\ Elsewhere

ExpireDraft(b) ==
  /\ status[b] = "DRAFT" /\ deadline[b] = "passed"
  /\ Put(b, "DELETED")
  /\ UNCHANGED <<deadline, payment, intent, line, jobs>> /\ Elsewhere

(* The admin review route, approval; a rejection is CancelNoPayment. *)
ApproveReview(b) ==
  /\ status[b] = "AWAITING_REVIEW" /\ b \in Minors
  /\ Put(b, "PAYMENT_PENDING")
  /\ UNCHANGED <<deadline, payment, intent, line, jobs>> /\ Elsewhere

----------------------------------------------------------------------------
(* Payment *)

(* create-payment-intent and the payment link of a converted request.  A    *)
(* draft moves to PAYMENT_PENDING after a capacity preflight; an open       *)
(* intent is handed back as it is.                                          *)
MintIntent(b) ==
  /\ b \notin Free /\ payment[b] \in {"none", "card"} /\ intent[b] = "none"
  /\ SetPayment(b, "card") /\ SetIntent(b, "open")
  /\ \/ /\ \/ status[b] \in {"PAYMENT_PENDING", "CONFIRMED"}
           \/ status[b] = "PENDING" /\ b \in Requested
        /\ UNCHANGED <<status, entry, deadline>>
     \/ /\ status[b] = "DRAFT" /\ Fits(b)
        /\ Put(b, "PAYMENT_PENDING") /\ SetDeadline(b, "none")
  /\ UNCHANGED <<line, jobs>> /\ Elsewhere

(* The member completes the card payment: Stripe alone knows. *)
Capture(b) ==
  /\ intent[b] = "open" /\ SetIntent(b, "captured")
  /\ UNCHANGED <<status, entry, deadline, payment, line, jobs>> /\ Elsewhere

(* markBookingPaymentSucceeded, from the webhook, confirm-payment or the    *)
(* handler that charged a saved card; for a cancelled booking the webhook's *)
(* full refund instead.                                                     *)
MarkPaid(b) ==
  /\ intent[b] = "captured" /\ SetIntent(b, "none")
  /\ \/ status[b] = "PAID" /\ SetPayment(b, "settled")
        /\ UNCHANGED <<status, entry, deadline>>
     \/ /\ status[b] \in PayableStatus /\ Fits(b)
        /\ Admit(b, "PAID") /\ SetPayment(b, "settled")
        /\ SetDeadline(b, IF status[b] = "DRAFT" THEN "none" ELSE deadline[b])
     \/ /\ status[b] \in PayableStatus /\ ~Fits(b)
        /\ Put(b, "CANCELLED") /\ SetPayment(b, "closed")
        /\ SetDeadline(b, IF status[b] = "DRAFT" THEN "none" ELSE deadline[b])
     \/ status[b] = "CANCELLED" /\ SetPayment(b, "closed")
        /\ UNCHANGED <<status, entry, deadline>>
  /\ UNCHANGED <<line, jobs>> /\ Elsewhere

(* switch-to-internet-banking reads the booking outside the lock and voids  *)
(* the intent if Stripe still lets it ...                                   *)
ReadSwitch(b) ==
  /\ status[b] = "PAYMENT_PENDING" /\ b \notin Free
  /\ payment[b] \in {"none", "card"} /\ Job("switch", b) \notin jobs
  /\ SetIntent(b, IF intent[b] = "open" THEN "none" ELSE intent[b])
  /\ Start("switch", {b})
  /\ UNCHANGED <<status, entry, deadline, payment, line>> /\ Elsewhere

(* ... and rewrites booking and payment under it, whatever they are by now. *)
WriteSwitch(b, holdSlots) ==
  /\ Job("switch", b) \in jobs
  /\ jobs' = jobs \ {Job("switch", b)}
  /\ \/ /\ holdSlots /\ Fits(b)
        /\ Admit(b, "CONFIRMED") /\ SetPayment(b, "banked") /\ SetDeadline(b, "ahead")
     \/ /\ ~holdSlots /\ SetPayment(b, "invoiced")
        /\ UNCHANGED <<status, entry, deadline>>
     \/ holdSlots /\ ~Fits(b) /\ UNCHANGED <<status, entry, payment, deadline>>
  /\ UNCHANGED <<intent, line>> /\ Elsewhere

(* applyInternetBankingInvoicePaid: Xero reports the invoice paid in cash.  *)
InvoicePaid(b) ==
  /\ payment[b] \in {"banked", "invoiced"}
  /\ \/ /\ status[b] \in {"PAID", "CANCELLED"}
        /\ SetPayment(b, IF status[b] = "PAID" THEN "settled" ELSE "closed")
        /\ UNCHANGED <<status, entry, jobs>>
     \/ /\ status[b] = "PAYMENT_PENDING" /\ payment[b] = "invoiced" /\ ~Fits(b)
        /\ Put(b, "CANCELLED") /\ SetPayment(b, "closed") /\ Start("line", {b})
     \/ /\ status[b] = "PAYMENT_PENDING" /\ payment[b] = "invoiced" /\ Fits(b)
        /\ Admit(b, "PAID") /\ SetPayment(b, "settled") /\ UNCHANGED jobs
     \/ /\ status[b] \notin {"PAID", "CANCELLED"}
        /\ ~(status[b] = "PAYMENT_PENDING" /\ payment[b] = "invoiced")
        /\ IF b \in Holders(status) THEN Put(b, "PAID") ELSE Slip(b, "PAID")
        /\ SetPayment(b, "settled") /\ UNCHANGED jobs
  /\ UNCHANGED <<deadline, intent, line>> /\ Elsewhere

(* releaseExpiredInternetBankingHolds *)
ReleaseBankHold(b) ==
  /\ status[b] = "CONFIRMED" /\ payment[b] = "banked" /\ deadline[b] = "passed"
  /\ Put(b, "CANCELLED") /\ SetPayment(b, "closed") /\ Start("line", {b})
  /\ UNCHANGED <<deadline, intent, line>> /\ Elsewhere

----------------------------------------------------------------------------
(* The non-member hold window *)

(* Mutant: the bump writes the status the schema still lists. *)
ResolveHoldToBumped(b) ==
  /\ status[b] = "PENDING" /\ deadline[b] = "passed" /\ ~Fits(b)
  /\ Put(b, "BUMPED") /\ SetDeadline(b, "none")
  /\ Start("line", {b})
  /\ UNCHANGED <<payment, intent, line>> /\ Elsewhere

(* Mutant: a booking without a card is left to its alert, a converted       *)
(* request like any other.                                                  *)
ResolveHoldForgetsRequests(b) ==
  /\ status[b] = "PENDING" /\ deadline[b] = "passed" /\ b \notin Requested
  /\ Fits(b) /\ Admit(b, "PAID") /\ SetDeadline(b, "none")
  /\ SetPayment(b, "settled")
  /\ UNCHANGED <<intent, line, jobs>> /\ Elsewhere

(* resolveHoldWindowUnderLock: bump, confirm for free, extend a converted   *)
(* request, or claim the beds before charging the saved card.               *)
ResolveHold(b) ==
  /\ status[b] = "PENDING" /\ deadline[b] = "passed"
  /\ \/ /\ ~Fits(b)
        /\ Put(b, "CANCELLED") /\ SetDeadline(b, "none")
        /\ Start("line", {b}) /\ UNCHANGED payment
     \/ /\ Fits(b) /\ b \in Free
        /\ Admit(b, "PAID") /\ SetDeadline(b, "none")
        /\ SetPayment(b, "settled") /\ UNCHANGED jobs
     \/ /\ Fits(b) /\ b \in Requested \ (Free \cup CardSaved)
        /\ SetDeadline(b, "ahead") /\ UNCHANGED <<status, entry, payment, jobs>>
     \/ /\ Fits(b) /\ b \in CardSaved \ Free
        /\ Admit(b, "CONFIRMED") /\ SetDeadline(b, "none")
        /\ Start("charge", {b}) /\ SetPayment(b, "card")
  /\ UNCHANGED <<intent, line>> /\ Elsewhere

(* confirm-pending-guests: the same decision taken by an admin, at any time *)
(* and, with allowOverbook, over the capacity.                              *)
ConfirmPendingGuests(b, allowOverbook) ==
  /\ status[b] = "PENDING" /\ deadline[b] # "none"
  /\ \/ /\ b \in Free /\ (Fits(b) \/ allowOverbook)
        /\ IF Fits(b) THEN Admit(b, "PAID") ELSE Override(b, "PAID")
        /\ SetPayment(b, "settled") /\ UNCHANGED jobs
     \/ /\ b \notin Free \cup CardSaved
        /\ Put(b, "PAYMENT_PENDING") /\ UNCHANGED <<payment, jobs>>
     \/ /\ b \in CardSaved \ Free /\ (Fits(b) \/ allowOverbook)
        /\ IF Fits(b) THEN Admit(b, "CONFIRMED") ELSE Override(b, "CONFIRMED")
        /\ Start(IF deadline[b] = "ahead" THEN "earlyCharge" ELSE "charge", {b})
        /\ SetPayment(b, "card")
  /\ SetDeadline(b, "none")
  /\ UNCHANGED <<intent, line>> /\ Elsewhere

ChargeJobs(b) == {Job("charge", b), Job("earlyCharge", b)} \cap jobs

(* The saved card is charged, outside every lock; the claim is not released *)
(* any more, and MarkPaid is what remains to be done.                       *)
ChargeSucceeds(b) ==
  /\ ChargeJobs(b) # {}
  /\ jobs' = jobs \ ChargeJobs(b)
  /\ SetIntent(b, "captured")
  /\ UNCHANGED <<status, entry, deadline, payment, line>> /\ Elsewhere

(* Mutant: a declined charge is logged and the claim forgotten. *)
ReleaseForgotten(b) ==
  /\ ChargeJobs(b) # {}
  /\ jobs' = jobs \ ChargeJobs(b)
  /\ UNCHANGED <<status, entry, deadline, payment, intent, line>> /\ Elsewhere

(* releaseChargeClaim: declined, or the card wants authentication. *)
ChargeFails(b) ==
  /\ ChargeJobs(b) # {}
  /\ jobs' = jobs \ ChargeJobs(b)
  /\ IF status[b] = "CONFIRMED"
     THEN /\ Put(b, "PENDING")
          /\ SetDeadline(b, IF Job("charge", b) \in jobs THEN "passed" ELSE "ahead")
     ELSE UNCHANGED <<status, entry, deadline>>
  /\ UNCHANGED <<payment, intent, line>> /\ Elsewhere

----------------------------------------------------------------------------
(* The waitlist *)

Before(c, d) ==
  \E i, j \in DOMAIN line : i < j /\ line[i] = c /\ line[j] = d

(* A waitlisted booking the nights of r would suit, all of its nights free. *)
Candidate(c, r) == status[c] = "WAITLISTED" /\ Overlap(c, r) /\ Fits(c)

(* processWaitlistForDates, for the nights booking r gave up. *)
ProcessLine(r) ==
  /\ Job("line", r) \in jobs
  /\ jobs' = jobs \ {Job("line", r)}
  /\ \/ \E c \in Bookings :
          /\ Candidate(c, r)
          /\ \A d \in Bookings : Candidate(d, r) => ~Before(d, c)
          /\ Put(c, "WAITLIST_OFFERED") /\ SetDeadline(c, "ahead")
     \/ /\ ~\E c \in Bookings : Candidate(c, r)
        /\ UNCHANGED <<status, entry, deadline>>
  /\ UNCHANGED <<payment, intent, line>> /\ Elsewhere

(* confirmWaitlistOffer; the route goes on to settle a free booking in a    *)
(* second transaction.                                                      *)
ConfirmOffer(b) ==
  /\ status[b] = "WAITLIST_OFFERED" /\ deadline[b] = "ahead"
  /\ \/ /\ ~Fits(b)
        /\ Put(b, "WAITLISTED") /\ SetDeadline(b, "none") /\ UNCHANGED jobs
     \/ /\ Fits(b) /\ b \in Provisional
        /\ Put(b, "PENDING") /\ UNCHANGED <<deadline, jobs>>
     \/ /\ Fits(b) /\ b \notin Provisional
        /\ Put(b, "PAYMENT_PENDING") /\ SetDeadline(b, "none")
        /\ IF b \in Free THEN Start("freeConfirm", {b}) ELSE UNCHANGED jobs
  /\ UNCHANGED <<payment, intent, line>> /\ Elsewhere

(* waitlist-confirm, second transaction: no lock, no re-read, no check; only *)
(* a Payment row the booking already has makes it abort.                     *)
SettleFreeOffer(b) ==
  /\ Job("freeConfirm", b) \in jobs
  /\ jobs' = jobs \ {Job("freeConfirm", b)}
  /\ \/ payment[b] = "none" /\ Slip(b, "PAID") /\ SetPayment(b, "settled")
     \/ payment[b] # "none" /\ UNCHANGED <<status, entry, payment>>
  /\ UNCHANGED <<deadline, intent, line>> /\ Elsewhere

(* expireStaleOffers: every stale offer at once, then each of their ranges. *)
ExpireOffers ==
  LET stale == {b \in Bookings : /\ status[b] = "WAITLIST_OFFERED"
                                 /\ deadline[b] = "passed"}
  IN /\ stale # {}
     /\ status' = [b \in Bookings |-> IF b \in stale THEN "WAITLISTED" ELSE status[b]]
     /\ deadline' = [b \in Bookings |-> IF b \in stale THEN "none" ELSE deadline[b]]
     /\ Start("line", stale)
     /\ UNCHANGED <<payment, intent, line, entry>> /\ Elsewhere

(* processWaitlistCronOnce, step 2: the past bookings are read ... *)
ReadSweep ==
  LET past == {b \in Bookings : /\ status[b] \in {"WAITLISTED", "WAITLIST_OFFERED"}
                                /\ CheckOut[b] <= today}
  IN /\ past # {} /\ Running("sweep") = {}
     /\ Start("sweep", past)
     /\ UNCHANGED <<rows, entry>> /\ Elsewhere

(* ... and cancelled by id, whatever they are by now. *)
WriteSweep ==
  LET past == Running("sweep")
  IN /\ past # {}
     /\ jobs' = jobs \ {Job("sweep", b) : b \in past}
     /\ status' = [b \in Bookings |-> IF b \in past THEN "CANCELLED" ELSE status[b]]
     /\ deadline' = [b \in Bookings |-> IF b \in past THEN "none" ELSE deadline[b]]
     /\ UNCHANGED <<payment, intent, line, entry>> /\ Elsewhere

(* The admin force-confirm route. *)
ForceConfirm(b, allowOverbook) ==
  LET next == IF b \in Minors THEN "AWAITING_REVIEW"
              ELSE IF b \in Free THEN "PAID" ELSE "PAYMENT_PENDING"
  IN /\ status[b] \in {"WAITLISTED", "WAITLIST_OFFERED"}
     /\ Fits(b) \/ allowOverbook
     /\ IF Fits(b) THEN Admit(b, next) ELSE Override(b, next)
     /\ SetDeadline(b, "none")
     /\ SetPayment(b, IF next = "PAID" THEN "settled" ELSE payment[b])
     /\ UNCHANGED <<intent, line, jobs>> /\ Elsewhere

----------------------------------------------------------------------------
(* Cancellation *)

(* performBookingCancellation, no-payment branch, under the lock. *)
CancelNoPayment(b) ==
  /\ status[b] \in NoPaymentStatus
  /\ Put(b, "CANCELLED") /\ SetDeadline(b, IF status[b] = "AWAITING_REVIEW"
                                           THEN deadline[b] ELSE "none")
  /\ IF status[b] = "WAITLIST_OFFERED" THEN Start("line", {b}) ELSE UNCHANGED jobs
  /\ UNCHANGED <<payment, intent, line>> /\ Elsewhere

(* The branches for a booking nobody has paid dispatch on an unlocked read; *)
(* the one for a booking that owes money voids the open intent.             *)
ReadCancel(b) ==
  LET kind == IF status[b] = "PENDING" THEN "pendingCancel" ELSE "unpaidCancel"
  IN /\ \/ status[b] = "PENDING"
        \/ status[b] \in {"PAYMENT_PENDING", "CONFIRMED", "PAID"} /\ payment[b] # "settled"
     /\ Job(kind, b) \notin jobs
     /\ Start(kind, {b})
     /\ SetIntent(b, IF kind = "unpaidCancel" /\ intent[b] = "open"
                     THEN "none" ELSE intent[b])
     /\ UNCHANGED <<status, entry, deadline, payment, line>> /\ Elsewhere

(* The provisional children cancelLinkedProvisionalChildBookings will find. *)
Orphans(b) == {Job("orphan", c) : c \in {k \in Children(b) : status[k] = "PENDING"}}

(* The write is by id: it does not look at the status again.  The payment   *)
(* is failed unless the ledger showed captured money when it was asked,     *)
(* which a capture since then can only have made stale.                     *)
WriteCancel(b, kind) ==
  /\ kind \in {"pendingCancel", "unpaidCancel"} /\ Job(kind, b) \in jobs
  /\ jobs' = (jobs \ {Job(kind, b)}) \cup {Job("line", b)} \cup Orphans(b)
  /\ Put(b, "CANCELLED")
  /\ \/ kind = "unpaidCancel" /\ payment[b] # "none" /\ SetPayment(b, "closed")
     \/ (kind = "pendingCancel" \/ payment[b] \in {"none", "settled"}) /\ UNCHANGED payment
  /\ UNCHANGED <<deadline, intent, line>> /\ Elsewhere

(* The paid path claims the cancellation under the lock; the refund of the  *)
(* money it freezes there is not this module's.                             *)
CancelPaid(b) ==
  /\ status[b] \in CancellableStatus /\ payment[b] = "settled"
  /\ Put(b, "CANCELLED") /\ SetPayment(b, "closed")
  /\ jobs' = jobs \cup {Job("line", b)} \cup Orphans(b)
  /\ UNCHANGED <<deadline, intent, line>> /\ Elsewhere

(* The children read PENDING are cancelled by id. *)
CancelOrphan(c) ==
  /\ Job("orphan", c) \in jobs
  /\ jobs' = (jobs \ {Job("orphan", c)}) \cup {Job("line", c)}
  /\ Put(c, "CANCELLED")
  /\ UNCHANGED <<deadline, payment, intent, line>> /\ Elsewhere

----------------------------------------------------------------------------
(* The calendar, the lodge and the process *)

(* completeBookings reads the paid bookings whose stay has begun ... *)
ReadComplete ==
  LET begun == {b \in Bookings : status[b] = "PAID" /\ CheckIn[b] <= today}
  IN /\ begun # {} /\ Running("complete") = {}
     /\ Start("complete", begun)
     /\ UNCHANGED <<rows, entry>> /\ Elsewhere

(* ... and completes them by id, whatever they are by now. *)
WriteComplete ==
  LET begun == Running("complete")
  IN /\ begun # {}
     /\ jobs' = jobs \ {Job("complete", b) : b \in begun}
     /\ status' = [b \in Bookings |-> IF b \in begun THEN "COMPLETED" ELSE status[b]]
     /\ entry' = [b \in Bookings |-> IF b \in begun \ Holders(status)
                                     THEN "unchecked" ELSE entry[b]]
     /\ UNCHANGED <<deadline, payment, intent, line>> /\ Elsewhere

PassDeadline(b) ==
  /\ deadline[b] = "ahead"
  /\ status[b] \in {"DRAFT", "PENDING", "WAITLIST_OFFERED", "CONFIRMED"}
  /\ SetDeadline(b, "passed")
  /\ UNCHANGED <<status, payment, intent, line, jobs, entry>> /\ Elsewhere

Tick ==
  /\ today < LastDay /\ today' = today + 1
  /\ UNCHANGED <<rows, beds, jobs, entry, cut, faults>>

(* The bookings whose beds count against the capacity that was checked. *)
Admitted == {b \in Holders(status) : entry[b] \notin {"admin", "unchecked"}}

(* An admin edits the lodge capacity (getLodgeCapacity reads it live). *)
SetCapacity(c) ==
  /\ c # beds /\ beds' = c
  /\ cut' = cut \cup {n \in Nights : c < beds /\ BedsTaken(Holders(status), n) > c}
  /\ UNCHANGED <<rows, today, jobs, entry, faults>>

(* The application process stops: what its handlers had read is gone. *)
Crash ==
  /\ faults < MaxFaults /\ jobs # {}
  /\ faults' = faults + 1 /\ jobs' = {}
  /\ UNCHANGED <<rows, beds, today, entry, cut>>

----------------------------------------------------------------------------
Member(b) ==
  \/ CreateConfirmed(b) \/ CreateDraft(b) \/ JoinWaitlist(b)
  \/ \E hold \in BOOLEAN : CreateOnInvoice(b, hold) \/ WriteSwitch(b, hold)
  \/ ConfirmDraft(b) \/ MintIntent(b) \/ ReadSwitch(b)
  \/ ConfirmOffer(b) \/ SettleFreeOffer(b)
  \/ CancelNoPayment(b) \/ ReadCancel(b) \/ CancelPaid(b) \/ CancelOrphan(b)
  \/ \E kind \in {"pendingCancel", "unpaidCancel"} : WriteCancel(b, kind)

Admin(b) ==
  \/ HoldRequest(b) \/ ConvertRequest(b) \/ ApproveReview(b)
  \/ \E allow \in BOOLEAN : ConfirmPendingGuests(b, allow) \/ ForceConfirm(b, allow)

Provider(b) ==
  \/ Capture(b) \/ MarkPaid(b) \/ InvoicePaid(b)
  \/ ChargeSucceeds(b) \/ ChargeFails(b)

Cron(b) ==
  \/ ExpireDraft(b) \/ ReleaseBankHold(b) \/ ResolveHold(b) \/ ProcessLine(b)

Next ==
  \/ \E b \in Bookings : Member(b) \/ Admin(b) \/ Provider(b) \/ Cron(b) \/ PassDeadline(b)
  \/ ExpireOffers \/ ReadSweep \/ WriteSweep \/ ReadComplete \/ WriteComplete
  \/ Tick \/ Crash
  \/ \E c \in 0 .. MaxBeds : SetCapacity(c)

Spec == Init /\ [][Next]_vars

(* What the scheduler and the providers owe: a deadline passes, the hold    *)
(* cron runs again, a handler that charges a card ends, and Stripe delivers *)
(* its webhook until it is accepted.  Members and admins owe nothing.       *)
Fairness ==
  \A b \in Bookings :
       /\ WF_vars(PassDeadline(b)) /\ WF_vars(ResolveHold(b)) /\ WF_vars(MarkPaid(b))
       /\ WF_vars(ChargeSucceeds(b) \/ ChargeFails(b))

FairSpec == Spec /\ Fairness

----------------------------------------------------------------------------
(* Every variable has its type; BUMPED, which the schema still lists, is a  *)
(* status no handler writes.                                                *)
TypeOK ==
  /\ status \in [Bookings -> Status]
  /\ deadline \in [Bookings -> Deadline]
  /\ payment \in [Bookings -> PaymentRow]
  /\ intent \in [Bookings -> Intent]
  /\ line \in Seq(Bookings)
  /\ beds \in 0 .. MaxBeds
  /\ today \in 0 .. LastDay
  /\ jobs \subseteq [kind : JobKind, of : Bookings]
  /\ entry \in [Bookings -> {"none", "checked", "admin", "unchecked"}]
  /\ cut \subseteq Nights
  /\ faults \in 0 .. MaxFaults

(* The advisory lock does its work: the bookings that took their beds       *)
(* through a capacity check together fit in the lodge on every night no     *)
(* capacity cut has oversold, whatever was read, charged, cancelled or      *)
(* forced in between.                                                       *)
CheckedFit == \A n \in Nights \ cut : BedsTaken(Admitted, n) <= beds

(* Somebody or something wants b gone: a member's or an admin's cancel      *)
(* (claimed, or already past its unlocked read), the line's sweep, or an    *)
(* expired bank transfer hold.                                              *)
Asked(b) ==
  \/ status[b] \in NoPaymentStatus \/ payment[b] = "settled"
  \/ payment[b] = "banked" /\ deadline[b] = "passed"
  \/ \E kind \in {"pendingCancel", "unpaidCancel", "orphan", "sweep"} : Job(kind, b) \in jobs

Bumped(b) == b \in Holders(status) /\ status'[b] = "CANCELLED" /\ ~Asked(b)

(* A booking that holds beds is cancelled for lack of beds only when a      *)
(* capacity cut, or a booking that took beds over or without the check,     *)
(* touches one of its nights; competing checked bookings never displace it. *)
BumpsAccounted ==
  [][\A b \in Bookings : Bumped(b) =>
       \E n \in Span(b) :
         \/ n \in cut
         \/ \E a \in Holders(status) \ Admitted : n \in Span(a)]_vars

(* A cancelled booking comes back only through the three handlers that      *)
(* write by id what they decided before it was cancelled.                   *)
CancelledStaysCancelled ==
  [][\A b \in Bookings \ (Running("freeConfirm") \cup Running("complete")
                                              \cup Running("switch")) :
       status[b] = "CANCELLED" => status'[b] = "CANCELLED"]_vars

(* A hold window that has passed is resolved: the booking is bumped,        *)
(* confirmed, claimed for its charge or, a converted request, given more    *)
(* time.  (A booking without card or request only raises an alert.)         *)
HoldWindowResolves ==
  \A b \in Free \cup CardSaved \cup Requested :
    (status[b] = "PENDING" /\ deadline[b] = "passed")
      ~> ~(status[b] = "PENDING" /\ deadline[b] = "passed")

(* A booking claimed for a charge does not keep its beds unpaid for ever:   *)
(* the charge promotes it or the claim is released.                         *)
ClaimResolves ==
  \A b \in Bookings :
    (status[b] = "CONFIRMED" /\ payment[b] = "card")
      ~> ~(status[b] = "CONFIRMED" /\ payment[b] = "card")
=============================================================================
