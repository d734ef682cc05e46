---------------------------- MODULE MemberCredit ----------------------------
(***************************************************************************)
(* The account credit of one member: spent on bookings when they are made, *)
(* given back when they are cancelled, minted for a bank transfer that     *)
(* comes too late, adjusted by two admins and allocated by operators in    *)
(* Xero.  The balance is the sum of the member's MemberCredit rows.        *)
(***************************************************************************)
EXTENDS Integers, FiniteSets, Sums

CONSTANTS
  Bookings,
  Price,         \* finalPriceCents of each
  Ways,          \* how it may be paid: by card, by bank, by a transfer that holds beds
  Opening,       \* the credit the member starts with
  Adjustments,   \* admins' adjustment requests
  Delta,         \* the cents each asks for, positive or negative
  Cancellers,    \* cancellation requests at work
  Handlers,      \* handlers of a paid invoice at work
  MaxCash,       \* the cash that comes for one invoice (bound)
  MaxAllocated   \* the cents operators allocate in Xero (bound)

ASSUME FinitenessAssumption == IsFiniteSet(Bookings) /\ IsFiniteSet(Adjustments)
ASSUME PriceAssumption == Price \in [Bookings -> Nat \ {0}]
ASSUME WaysAssumption == Ways \in [Bookings -> SUBSET {"card", "bank", "hold"}]
ASSUME DeltaAssumption == Delta \in [Adjustments -> Int]
ASSUME OpeningAssumption == Opening \in Nat
ASSUME CashAssumption == MaxCash \in Nat /\ MaxAllocated \in Nat

VARIABLES
  status,      \* Booking.status
  how,         \* card, bank (a transfer), or hold (a transfer that holds beds meanwhile)
  pay,         \* the Payment row: status, amountCents, creditAppliedCents
  own,         \* cents of the BOOKING_APPLIED row its creation wrote
  linked,      \* bookings whose own row points at a Xero credit note
  note,        \* cents of the BOOKING_APPLIED row a Xero allocation wrote
  back,        \* applied credit given back (CANCELLATION_REFUND)
  refunded,    \* a cancellation's refund held as credit (CANCELLATION_REFUND)
  minted,      \* credit for a late transfer (CANCELLATION_REFUND)
  balance,     \* the sum of all rows
  allocated,   \* history: cents that Xero allocations took, unchecked
  request,     \* AdminCreditAdjustmentRequest.status
  cash,        \* cash Xero has recorded on its invoice
  creating,    \* the creation that holds the lodge's lock
  cancel,      \* cancellations at work
  hook,        \* handlers of a paid invoice
  claimed,     \* history: cancelled on the paid path
  alerted,     \* history: an admin was told of its money
  overwritten  \* history: cancelled as unpaid after it had been paid

rows   == <<own, linked, note, back, refunded, minted, balance, allocated>>
booked == <<status, how, pay>>
past   == <<claimed, alerted, overwritten>>
vars   == <<booked, rows, request, cash, creating, cancel, hook, past>>

-----------------------------------------------------------------------------
Cancellable == {"PAYMENT_PENDING", "CONFIRMED", "PAID"}
Tiers == {"full", "half", "none"}
NoCreation == [at |-> "idle", of |-> "nothing", credit |-> 0, how |-> "card"]
NoCancel == [at |-> "idle", of |-> "nothing", known |-> FALSE, captured |-> FALSE]
NoHook == [at |-> "idle", of |-> "nothing", known |-> 0]

Lesser(a, b) == IF a < b THEN a ELSE b
Greater(a, b) == IF a < b THEN b ELSE a

(* A share of the money in question, rounded as Math.round does. *)
Share(tier, cents) ==
  CASE tier = "full" -> cents
    [] tier = "half" -> (cents + 1) \div 2
    [] tier = "none" -> 0

Applied(b) == own[b] + note[b]

(* A payment that is (or was) to come by bank transfer. *)
ByTransfer(b) == how[b] \in {"bank", "hold"} /\ pay[b].amount > 0

(* Transactions that take pg_advisory_xact_lock(1) wait for a creation.     *)
LodgeUnlocked == creating.at = "idle"

-----------------------------------------------------------------------------
(* Spending credit on a new booking.  The balance is read under the lodge's *)
(* lock, and read again under the member's when the row is written.         *)

BeginBooking(b, credit, method) ==
  /\ LodgeUnlocked
  /\ status[b] = "none"
  /\ credit <= Price[b] /\ (credit > 0 => credit <= balance)
  /\ creating' = [at |-> "commit", of |-> b, credit |-> credit, how |-> method]
  /\ UNCHANGED <<booked, rows, request, cash, cancel, hook, past>>

(* Mutant: the row of the spent credit does not name the booking. *)
SpendUnnamed(b, credit) == own' = own /\ balance' = balance - credit

Spend(b, credit) == own' = [own EXCEPT ![b] = credit] /\ balance' = balance - credit

Booked(b, credit, method) ==
  /\ status' = [status EXCEPT ![b] =
       IF credit = Price[b] THEN "PAID"
       ELSE IF method = "hold" THEN "CONFIRMED" ELSE "PAYMENT_PENDING"]
  /\ how' = [how EXCEPT ![b] = method]
  /\ pay' = [pay EXCEPT ![b] =
       IF credit = Price[b]
       THEN [status |-> "SUCCEEDED", amount |-> 0, mirror |-> credit]
       ELSE IF method = "card" THEN @
       ELSE [status |-> "PENDING", amount |-> Price[b] - credit, mirror |-> credit]]
  /\ Spend(b, credit)

(* The creation commits if it may, or is rolled back: the lodge may be full. *)
Commit(allowed) ==
  /\ ~LodgeUnlocked
  /\ creating' = NoCreation
  /\ \/ allowed /\ Booked(creating.of, creating.credit, creating.how)
     \/ UNCHANGED <<booked, own, balance>>
  /\ UNCHANGED <<linked, note, back, refunded, minted, allocated, request, cash,
                 cancel, hook, past>>

(* Mutant: the second look at the balance is dropped. *)
CommitAsRead == Commit(TRUE)

CommitBooking == Commit(creating.credit > 0 => creating.credit <= balance)

-----------------------------------------------------------------------------
(* Paying by card: the intent is for the whole price.                       *)

MintIntent(b) ==
  /\ how[b] = "card" /\ status[b] = "PAYMENT_PENDING" /\ pay[b].status = "none"
  /\ pay' = [pay EXCEPT ![b] = [status |-> "PENDING", amount |-> Price[b], mirror |-> 0]]
  /\ UNCHANGED <<status, how, rows, request, cash, creating, cancel, hook, past>>

(* The captured payment finds beds, or the booking is cancelled, its credit *)
(* given back in full and the capture refunded.                             *)
CardPays(b) ==
  /\ LodgeUnlocked
  /\ how[b] = "card" /\ status[b] = "PAYMENT_PENDING" /\ pay[b].status = "PENDING"
  /\ \/ /\ status' = [status EXCEPT ![b] = "PAID"]
        /\ pay' = [pay EXCEPT ![b].status = "SUCCEEDED"]
        /\ UNCHANGED <<back, balance>>
     \/ /\ status' = [status EXCEPT ![b] = "CANCELLED"]
        /\ pay' = [pay EXCEPT ![b].status = "REFUNDED"]
        /\ back' = [back EXCEPT ![b] = @ + Applied(b)]
        /\ balance' = balance + Applied(b)
  /\ UNCHANGED <<how, own, linked, note, refunded, minted, allocated, request, cash,
                 creating, cancel, hook, past>>

-----------------------------------------------------------------------------
(* Paying by bank transfer: the payment has an invoice of its own.          *)

PayCash(b, cents) ==
  /\ ByTransfer(b) /\ cash[b] + cents <= MaxCash
  /\ cash' = [cash EXCEPT ![b] = @ + cents]
  /\ UNCHANGED <<booked, rows, request, creating, cancel, hook, past>>

(* Xero reports the invoice PAID, any number of times; the handler fetches  *)
(* its cash.                                                                *)
ReadInvoice(h, b) ==
  /\ hook[h] = NoHook
  /\ ByTransfer(b) /\ cash[b] > 0
  /\ hook' = [hook EXCEPT ![h] = [at |-> "apply", of |-> b, known |-> cash[b]]]
  /\ UNCHANGED <<booked, rows, request, cash, creating, cancel, past>>

(* Mutants: a payment whose hold was released is taken for settled; every   *)
(* payment is taken for one that never settled.                             *)
PendingOnly(p) == p.status = "PENDING"
AnyPayment(p) == TRUE

NeverSettled(p) == p.status \in {"PENDING", "FAILED"}

(* Mutant: a payment mints its face amount. *)
FaceAmount(b, known) == pay[b].amount

(* The credit a payment may mint: its face amount, within the cash.         *)
Mintable(b, known) == Lesser(pay[b].amount, known)

Mint(b, cents) ==
  /\ minted' = [minted EXCEPT ![b] = @ + cents]
  /\ balance' = balance + cents

(* Whatever becomes of the booking, the payment is settled, unless refunded. *)
Settled(b) ==
  pay' = IF pay[b].status = "REFUNDED" THEN pay
         ELSE [pay EXCEPT ![b].status = "SUCCEEDED"]

(* The booking was cancelled before the money came. *)
ApplyToCancelled(b, known) ==
  LET cents == Mintable(b, known)
      mints == NeverSettled(pay[b]) /\ minted[b] = 0 /\ cents > 0
      later == ~mints /\ minted[b] > 0 /\ cents > minted[b]
      empty == NeverSettled(pay[b]) /\ minted[b] = 0 /\ cents = 0
  IN /\ status[b] = "CANCELLED"
     /\ IF mints THEN Mint(b, cents) ELSE UNCHANGED <<minted, balance>>
     /\ alerted' = IF mints \/ later \/ empty THEN alerted \union {b} ELSE alerted
     /\ status' = status

(* The beds are gone: the booking is cancelled and the cash held as credit. *)
ApplyWithoutBeds(b, known) ==
  /\ status[b] = "PAYMENT_PENDING" /\ how[b] = "bank"
  /\ Mint(b, Mintable(b, known))
  /\ alerted' = alerted \union {b}
  /\ status' = [status EXCEPT ![b] = "CANCELLED"]

ApplyToBooking(b) ==
  /\ status[b] # "CANCELLED"
  /\ status' = [status EXCEPT ![b] = "PAID"]
  /\ UNCHANGED <<minted, balance, alerted>>

ApplyInvoice(h) ==
  LET b == hook[h].of
  IN /\ LodgeUnlocked
     /\ hook[h].at = "apply"
     /\ hook' = [hook EXCEPT ![h] = NoHook]
     /\ Settled(b)
     /\ \/ ApplyToCancelled(b, hook[h].known)
        \/ ApplyWithoutBeds(b, hook[h].known)
        \/ ApplyToBooking(b)
     /\ UNCHANGED <<how, own, linked, note, back, refunded, allocated, request, cash,
                    creating, cancel, claimed, overwritten>>

(* The handler dies; the event comes again. *)
EndHook(h) ==
  /\ hook[h] # NoHook
  /\ hook' = [hook EXCEPT ![h] = NoHook]
  /\ UNCHANGED <<booked, rows, request, cash, creating, cancel, past>>

(* The hold of a booking that was not paid in time is released. *)
ReleaseHold(b) ==
  /\ LodgeUnlocked
  /\ how[b] = "hold" /\ status[b] = "CONFIRMED" /\ pay[b].status = "PENDING"
  /\ status' = [status EXCEPT ![b] = "CANCELLED"]
  /\ pay' = [pay EXCEPT ![b].status = "FAILED"]
  /\ UNCHANGED <<how, rows, request, cash, creating, cancel, hook, past>>

-----------------------------------------------------------------------------
(* Cancellation.  Its first read, without the lock, decides the branch.     *)

ReadCancel(k, b) ==
  /\ cancel[k] = NoCancel
  /\ status[b] \in Cancellable
  /\ cancel' = [cancel EXCEPT ![k] =
       [at |-> IF pay[b].status = "SUCCEEDED" THEN "claim" ELSE "evidence", of |-> b,
        known |-> pay[b].status # "none", captured |-> FALSE]]
  /\ UNCHANGED <<booked, rows, request, cash, creating, hook, past>>

(* The paid branch: cancel, give back a share of the applied credit and, as  *)
(* its tiers may differ, another share of the money as credit.  A transfer   *)
(* is never returned otherwise; what goes back to a card is no credit.       *)
Claim(k, tier, creditTier, allowed) ==
  LET b == cancel[k].of
      restored == IF pay[b].mirror > 0
                  THEN Lesser(Share(tier, pay[b].mirror), Applied(b)) ELSE 0
      held == Share(creditTier, pay[b].amount)
  IN /\ LodgeUnlocked
     /\ cancel[k].at = "claim"
     /\ cancel' = [cancel EXCEPT ![k] = NoCancel]
     /\ IF allowed
        THEN /\ status' = [status EXCEPT ![b] = "CANCELLED"]
             /\ back' = [back EXCEPT ![b] = @ + restored]
             /\ refunded' = [refunded EXCEPT ![b] = @ + held]
             /\ balance' = balance + restored + held
             /\ pay' = IF held > 0 THEN [pay EXCEPT ![b].status = "REFUNDED"] ELSE pay
             /\ claimed' = claimed \union {b}
        ELSE UNCHANGED <<status, back, refunded, balance, pay, claimed>>
     /\ UNCHANGED <<how, own, linked, note, minted, allocated, request, cash,
                    creating, hook, alerted, overwritten>>

Eligible(k) == pay[cancel[k].of].status = "SUCCEEDED"

(* Mutant: the claim trusts the status it read at first. *)
ClaimAsRead(k, tier, creditTier) == Claim(k, tier, creditTier, Eligible(k))

(* The claim looks at booking and payment again, under the lock. *)
ClaimPaid(k, tier, creditTier) ==
  Claim(k, tier, creditTier, status[cancel[k].of] \in Cancellable /\ Eligible(k))

(* The unpaid branch: has the ledger captured money after all?              *)
ReadEvidence(k) ==
  /\ cancel[k].at = "evidence"
  /\ cancel' = [cancel EXCEPT ![k].at = "write",
       ![k].captured = pay[cancel[k].of].status \in {"SUCCEEDED", "REFUNDED"}]
  /\ UNCHANGED <<booked, rows, request, cash, creating, hook, past>>

(* It writes by id, without the lock, and gives no credit back.             *)
WriteUnpaid(k) ==
  LET b == cancel[k].of
  IN /\ cancel[k].at = "write"
     /\ cancel' = [cancel EXCEPT ![k] = NoCancel]
     /\ status' = [status EXCEPT ![b] = "CANCELLED"]
     /\ pay' = IF cancel[k].known /\ ~cancel[k].captured
               THEN [pay EXCEPT ![b].status = "FAILED"] ELSE pay
     /\ overwritten' = IF status[b] = "PAID" \/ pay[b].status \in {"SUCCEEDED", "REFUNDED"}
                       THEN overwritten \union {b} ELSE overwritten
     /\ UNCHANGED <<how, rows, request, cash, creating, hook, claimed, alerted>>

CrashCancel(k) ==
  /\ cancel[k] # NoCancel
  /\ cancel' = [cancel EXCEPT ![k] = NoCancel]
  /\ UNCHANGED <<booked, rows, request, cash, creating, hook, past>>

-----------------------------------------------------------------------------
(* Two admins adjust the credit.  What is asked for is checked when asked,   *)
(* and again, under the member's lock, when the other admin approves.        *)

Covered(r) == Delta[r] < 0 => balance + Delta[r] >= 0

RequestAdjustment(r) ==
  /\ request[r] = "none" /\ Covered(r)
  /\ request' = [request EXCEPT ![r] = "PENDING"]
  /\ UNCHANGED <<booked, rows, cash, creating, cancel, hook, past>>

ReviewAdjustment(r) ==
  /\ request[r] = "PENDING"
  /\ \/ /\ Covered(r)
        /\ request' = [request EXCEPT ![r] = "APPROVED"]
        /\ balance' = balance + Delta[r]
     \/ /\ request' = [request EXCEPT ![r] = "REJECTED"]
        /\ balance' = balance
  /\ UNCHANGED <<booked, own, linked, note, back, refunded, minted, allocated,
                 cash, creating, cancel, hook, past>>

(* An operator has allocated a credit note in Xero to the booking's invoice. *)
(* The allocation is linked to the row it matches, corrects the row it is    *)
(* linked to, or becomes a row, and the payment's mirror follows the rows.   *)
AllocateInXero(b, cents) ==
  LET before == IF b \in linked THEN own[b] ELSE IF note[b] > 0 THEN note[b]
                ELSE IF own[b] = cents THEN cents ELSE 0
      corrects == b \in linked
      links == b \notin linked /\ note[b] = 0 /\ own[b] = cents
  IN /\ LodgeUnlocked
     /\ pay[b].status # "none"
     /\ allocated' = allocated + Greater(0, cents - before) /\ allocated' <= MaxAllocated
     /\ linked' = IF links THEN linked \union {b} ELSE linked
     /\ own' = IF corrects THEN [own EXCEPT ![b] = cents] ELSE own
     /\ note' = IF corrects \/ links THEN note ELSE [note EXCEPT ![b] = cents]
     /\ balance' = balance + before - cents
     /\ pay' = [pay EXCEPT ![b].mirror =
                  Lesser(Applied(b) + cents - before, pay[b].amount)]
     /\ UNCHANGED <<status, how, back, refunded, minted, request, cash, creating,
                    cancel, hook, past>>

-----------------------------------------------------------------------------
Init ==
  /\ status = [b \in Bookings |-> "none"] /\ how = [b \in Bookings |-> "card"]
  /\ pay = [b \in Bookings |-> [status |-> "none", amount |-> 0, mirror |-> 0]]
  /\ own = [b \in Bookings |-> 0] /\ note = [b \in Bookings |-> 0] /\ linked = {}
  /\ back = [b \in Bookings |-> 0] /\ refunded = [b \in Bookings |-> 0]
  /\ minted = [b \in Bookings |-> 0]
  /\ balance = Opening /\ allocated = 0
  /\ request = [r \in Adjustments |-> "none"] /\ cash = [b \in Bookings |-> 0]
  /\ creating = NoCreation /\ cancel = [k \in Cancellers |-> NoCancel]
  /\ hook = [h \in Handlers |-> NoHook]
  /\ claimed = {} /\ alerted = {} /\ overwritten = {}

Next ==
  \/ \E b \in Bookings : \E method \in Ways[b], credit \in 0..Price[b] :
       BeginBooking(b, credit, method)
  \/ CommitBooking
  \/ \E b \in Bookings : MintIntent(b) \/ CardPays(b) \/ ReleaseHold(b)
  \/ \E b \in Bookings, cents \in 1..MaxCash : PayCash(b, cents)
  \/ \E h \in Handlers : (\E b \in Bookings : ReadInvoice(h, b)) \/ ApplyInvoice(h) \/ EndHook(h)
  \/ \E k \in Cancellers, b \in Bookings : ReadCancel(k, b)
  \/ \E k \in Cancellers, tier, creditTier \in Tiers : ClaimPaid(k, tier, creditTier)
  \/ \E k \in Cancellers : ReadEvidence(k) \/ WriteUnpaid(k) \/ CrashCancel(k)
  \/ \E r \in Adjustments : RequestAdjustment(r) \/ ReviewAdjustment(r)
  \/ \E b \in Bookings : \E cents \in 1..MaxAllocated : AllocateInXero(b, cents)

Spec == Init /\ [][Next]_vars

-----------------------------------------------------------------------------
(* What every variable may hold; the running balance is the sum of the rows. *)
Payments == [status : {"none", "PENDING", "SUCCEEDED", "FAILED", "REFUNDED"},
             amount : Nat, mirror : Nat]
Creations == [at : {"idle", "commit"}, of : Bookings \union {"nothing"},
              credit : Nat, how : {"card", "bank", "hold"}]
Cancellations == [at : {"idle", "claim", "evidence", "write"}, of : Bookings \union {"nothing"},
                  known : BOOLEAN, captured : BOOLEAN]
Hooks == [at : {"idle", "apply"}, of : Bookings \union {"nothing"}, known : Nat]

BookingShapes ==
  /\ status \in [Bookings -> Cancellable \union {"none", "CANCELLED"}]
  /\ how \in [Bookings -> {"card", "bank", "hold"}]
  /\ pay \in [Bookings -> Payments]
SpentShapes ==
  /\ own \in [Bookings -> Nat] /\ note \in [Bookings -> Nat] /\ linked \subseteq Bookings
  /\ balance \in Int /\ allocated \in 0..MaxAllocated
ReturnShapes ==
  /\ back \in [Bookings -> Nat] /\ refunded \in [Bookings -> Nat]
  /\ minted \in [Bookings -> Nat] /\ cash \in [Bookings -> 0..MaxCash]
WorkShapes ==
  /\ request \in [Adjustments -> {"none", "PENDING", "APPROVED", "REJECTED"}]
  /\ creating \in Creations /\ cancel \in [Cancellers -> Cancellations]
  /\ hook \in [Handlers -> Hooks]
  /\ claimed \subseteq Bookings /\ alerted \subseteq Bookings /\ overwritten \subseteq Bookings
Shapes == BookingShapes /\ SpentShapes /\ ReturnShapes /\ WorkShapes

TypeOK ==
  /\ Shapes
  /\ balance = Opening
       + Sum(Delta, {r \in Adjustments : request[r] = "APPROVED"})
       + Sum([b \in Bookings |-> back[b] + refunded[b] + minted[b] - Applied(b)], Bookings)

(* The application never lets a member, or an admin, spend credit that is   *)
(* not there, whatever was read before the lock: what the balance lacks is  *)
(* at most what operators allocated in Xero.                                *)
NeverOverdrawn == balance + allocated >= 0

(* Applied credit is given back once, with the cancellation, and never more *)
(* of it than was applied; the rows are added up without looking for an     *)
(* earlier restoration, so this rests on the claim alone.                   *)
RestoredOnce ==
  [][\A b \in Bookings : back'[b] # back[b] =>
       /\ back[b] = 0 /\ back'[b] <= Applied(b)
       /\ status[b] # "CANCELLED" /\ status'[b] = "CANCELLED"]_vars

(* However often and however late its event is handled, a transfer mints no *)
(* more credit than cash came for it.                                       *)
MintsWithinCash == \A b \in Bookings : minted[b] <= cash[b]

(* Money comes back one way only, by the cancellation or as a late          *)
(* transfer's credit, unless the cancellation of an unpaid booking wrote    *)
(* over a payment that had come.                                            *)
PaidBackOnce ==
  \A b \in Bookings \ overwritten :
    (refunded[b] = 0 \/ minted[b] = 0) /\ refunded[b] + minted[b] <= pay[b].amount

(* A transfer whose booking is gone is not kept in silence: it was minted,  *)
(* or settled by the cancellation under its policy, or an admin was told,   *)
(* with the same exception.                                                 *)
CashIsPlaced ==
  \A b \in Bookings :
    status[b] = "CANCELLED" /\ ByTransfer(b) /\ pay[b].status = "SUCCEEDED" =>
      minted[b] > 0 \/ b \in claimed \union alerted \union overwritten

(* "Credit nets off the booking price, so amount due = finalPriceCents -    *)
(* creditAppliedCents."                                                     *)
CreditNetsOff == \A b \in Bookings : status[b] = "PAID" => pay[b].amount + own[b] <= Price[b]
=============================================================================
