---------------------------- MODULE EditPayments ----------------------------
(***************************************************************************)
(* Editing a booking that was paid by card, and its money: an increase is  *)
(* billed with an additional payment intent of its own, a reduction comes  *)
(* back to the card or as account credit, and a cancellation settles what  *)
(* is left.  Each edit commits under the lodge's lock and then talks to    *)
(* Stripe outside it; what fails there is left to recovery operations.     *)
(***************************************************************************)
EXTENDS Integers, FiniteSets, Sums

CONSTANTS
  Price,      \* finalPriceCents of the booking, captured in full
  MaxEdits,   \* bound: edits of the booking
  Ups,        \* the cents an edit may add to the price
  Downs,      \* the cents an edit may take off it
  Shares,     \* the shares of a reduction or cancellation the policy gives back
  MaxFaults   \* bound: calls of Stripe that fail, requests and runs that die

ASSUME EditAssumption ==
  /\ Price \in Nat \ {0} /\ MaxEdits \in Nat /\ MaxFaults \in Nat
  /\ Ups \subseteq Nat \ {0} /\ Downs \subseteq Nat \ {0}
  /\ Shares \subseteq {"full", "half", "none"}

Edits == 1..MaxEdits
Intents == 0..MaxEdits     \* the booking's own intent, and that of each edit
Refunders == 0..MaxEdits   \* the cancellation, and each edit

VARIABLES
  status, price,  \* Booking.status, Booking.finalPriceCents
  edit,           \* edit |-> what it bills and what it owes to the card
  at,             \* where the request of each refunder, or the run that resumed it, is
  row,            \* intent |-> its PaymentTransaction, rank its place by createdAt
  stripe,         \* intent |-> its state at Stripe
  sent,           \* the refunds Stripe made, by idempotency key
  ledger,         \* those with a PaymentRefund row
  credit,         \* cents given as account credit
  debt,           \* refunder |-> its REFUND_BOOKING_MODIFICATION operation
  plan,           \* refunder |-> the cents it takes from each intent
  togo,           \* refunder |-> the intents it has still to refund
  seen,           \* refunder |-> refundedAmountCents of each row when it began
  createOp,       \* edit |-> CREATE_ADDITIONAL_PAYMENT_INTENT, since the rows it knew of
  made,           \* edit |-> who had Stripe make its intent, "nobody" as yet
  voidOp,         \* intent |-> CANCEL_PAYMENT_INTENT
  backOp,         \* intent |-> REFUND_SUPERSEDED_PAYMENT
  mail,           \* payment_intent.succeeded events not yet handled
  hook,           \* intent |-> what the handler of its event is about to do
  counted,        \* history: intents whose money the cancellation counted
  crashed,        \* history: edits whose request died, or whose run gave up halfway
  unheard,        \* history: edits that never heard of a refund Stripe made
  reminted,       \* history: those whose plan then asked for more than was due
  short,          \* history: refunds that found less than they owed
  repeated,       \* history: those whose plan then asked again for a recorded refund
  borrowed,       \* history: withdrawn intents that other refunds took from
  raced,          \* history: marked paid by an event read before the cancellation
  faults

booking == <<status, price, edit>>
refunds == <<sent, ledger, credit>>
work    == <<plan, togo, seen>>
ops     == <<createOp, made, voidOp, backOp>>
events  == <<mail, hook>>
past    == <<counted, crashed, unheard, reminted, short, repeated, borrowed, raced>>
vars    == <<booking, at, row, stripe, refunds, debt, work, ops, events, past, faults>>

-----------------------------------------------------------------------------
NoRow == [status |-> "none", amount |-> 0, refunded |-> 0, rank |-> 0]
NoEdit == [kind |-> "none", add |-> 0, due |-> 0]
NoDebt == [op |-> "none", cents |-> 0]

Lesser(a, b) == IF a < b THEN a ELSE b
Greater(a, b) == IF a > b THEN a ELSE b
Cents(R) == Sum([r \in R |-> r.cents], R)

(* A share of the money in question, rounded as Math.round does. *)
Share(s, cents) ==
  CASE s = "full" -> cents
    [] s = "half" -> (cents + 1) \div 2
    [] s = "none" -> 0

(* The rows that hold captured money; SUCCEEDED stands for all three.       *)
Captured == {x \in Intents : row[x].status = "SUCCEEDED"}
Registered == {x \in Edits : row[x].status # "none"}
Newest == {x \in Registered : \A y \in Registered : row[y].rank <= row[x].rank}

(* Mutant: what was refunded before is not looked at. *)
WholeRoom == [x \in Intents |-> IF x \in Captured THEN row[x].amount ELSE 0]

(* What each row has left, and the slices of a refund, newest row first.    *)
Room == [x \in Intents |-> IF x \in Captured THEN row[x].amount - row[x].refunded ELSE 0]
Refundable == Sum(Room, Intents)

Allocation(cents) ==
  [x \in Intents |->
     LET newer == {y \in Intents : Room[y] > 0 /\ row[y].rank > row[x].rank}
         left == cents - Sum(Room, newer)
     IN IF left > 0 THEN Lesser(Room[x], left) ELSE 0]

Planned(p) == {x \in Intents : p[x] > 0}

(* A withdrawn intent's money was to come back whole. *)
Borrows(p) == borrowed \union {x \in Planned(p) : voidOp[x] # "none"}

Sent(x) == Cents({r \in sent : r.of = x})
SentFor(e) == {r \in sent : r.by = "edit" /\ r.from = e}
Key(a, x) == [by |-> "edit", from |-> a, of |-> x, cents |-> plan[a][x]]

(* Stripe answers a repeated key, and never refunds more than it captured.  *)
Accepts(r) == r \in sent \/ Sent(r.of) + r.cents <= row[r.of].amount

Goto(a, place) == at' = [at EXCEPT ![a] = place]
SetRow(x, state) == row' = [row EXCEPT ![x].status = state]
With(x, state, cents) ==
  [status |-> state, amount |-> row[x].amount, refunded |-> cents, rank |-> row[x].rank]
SettleRow(x, cents) == row' = [row EXCEPT ![x] = With(x, "SUCCEEDED", cents)]
Fault == faults < MaxFaults /\ faults' = faults + 1

-----------------------------------------------------------------------------
(* The transaction of an edit.                                              *)

Commit(e, kind, cents, place) ==
  /\ status = "PAID" /\ edit[e] = NoEdit
  /\ \A f \in Edits : f < e => edit[f] # NoEdit
  /\ price' = price + cents
  /\ Goto(e, place)
  /\ UNCHANGED <<status, stripe, sent, ledger, debt, work, ops, events, counted,
                 crashed, unheard, reminted, short, repeated, raced, faults>>

(* An increase is billed in full.                                           *)
CommitIncrease(e, cents) ==
  /\ Commit(e, "up", cents, "mint")
  /\ edit' = [edit EXCEPT ![e] = [kind |-> "up", add |-> cents, due |-> 0]]
  /\ UNCHANGED <<row, credit, borrowed>>

(* A reduction gives back a share of what it takes off, within what the     *)
(* payment has left.                                                        *)
Due(cents, s) == Share(s, Lesser(cents, Refundable))

CommitCardReduction(e, cents, s) ==
  /\ cents < price
  /\ Commit(e, "card", 0 - cents, IF Due(cents, s) > 0 THEN "read" ELSE "done")
  /\ edit' = [edit EXCEPT ![e] = [kind |-> "card", add |-> 0, due |-> Due(cents, s)]]
  /\ UNCHANGED <<row, credit, borrowed>>

(* Credit takes from the rows in the same transaction. *)
AllocateLocally(p) ==
  /\ row' = [x \in Intents |-> With(x, row[x].status, row[x].refunded + p[x])]
  /\ borrowed' = Borrows(p)

CommitCreditReduction(e, cents, s) ==
  /\ cents < price
  /\ Commit(e, "credit", 0 - cents, "done")
  /\ edit' = [edit EXCEPT ![e] = [kind |-> "credit", add |-> 0, due |-> 0]]
  /\ credit' = credit + Due(cents, s)
  /\ AllocateLocally(Allocation(Due(cents, s)))

-----------------------------------------------------------------------------
(* refundPaymentTransactions, by the request or by a run of the recovery.   *)

(* The request divides its refund when it begins; a run follows its plan.   *)
BeginRefund(a, p) ==
  /\ plan' = [plan EXCEPT ![a] = p]
  /\ togo' = [togo EXCEPT ![a] = Planned(p)]
  /\ seen' = [seen EXCEPT ![a] = [x \in Intents |-> row[x].refunded]]
  /\ borrowed' = Borrows(p)
  /\ Goto(a, "send")

(* The operation is enqueued when the refund has failed, for what is owed.  *)
Owe(e, cents) ==
  /\ debt' = IF debt[e].op = "none" /\ cents > 0
             THEN [debt EXCEPT ![e] = [op |-> "due", cents |-> cents]] ELSE debt
  /\ Goto(e, "done")

ReadRows(a) ==
  /\ at[a] = "read"
  /\ \/ /\ debt[a].op = "frozen"
        /\ BeginRefund(a, plan[a]) /\ UNCHANGED debt
     \/ /\ debt[a].op = "none" /\ edit[a].due <= Refundable
        /\ BeginRefund(a, Allocation(edit[a].due)) /\ UNCHANGED debt
     \/ /\ debt[a].op = "none" /\ edit[a].due > Refundable
        /\ Owe(a, edit[a].due) /\ UNCHANGED <<work, borrowed>>
  /\ UNCHANGED <<booking, row, stripe, refunds, ops, events, counted, crashed,
                 unheard, reminted, short, repeated, raced, faults>>

IsNext(a, x) == x \in togo[a] /\ \A y \in togo[a] : row[y].rank <= row[x].rank

(* Mutant: the whole refund is owed again. *)
WholeRefund(a) == edit[a].due

(* What was refunded and recorded before the failure is not owed again. *)
Remainder(a) == edit[a].due - Sum(plan[a], Intents \ togo[a])

FailSend(a) == Owe(a, Remainder(a))
SendSlice(a, x) ==
  LET r == Key(a, x)
  IN /\ at[a] = "send" /\ IsNext(a, x)
     /\ \/ /\ Accepts(r) /\ sent' = sent \union {r}
           /\ Goto(a, "record") /\ UNCHANGED <<debt, faults>>
        \/ /\ Accepts(r) /\ sent' = sent \union {r}
           /\ Fault /\ FailSend(a)
        \/ /\ Accepts(r) /\ Fault
           /\ FailSend(a) /\ UNCHANGED sent
        \/ ~Accepts(r) /\ FailSend(a) /\ UNCHANGED <<sent, faults>>
     /\ unheard' = IF r \in sent' /\ at'[a] = "done" THEN unheard \union {a} ELSE unheard
     /\ UNCHANGED <<booking, row, stripe, ledger, credit, work, ops, events, counted,
                    crashed, reminted, short, repeated, borrowed, raced>>

(* The record of a refund, and the row as the recorded refunds, or what was *)
(* seen before, show it.                                                    *)
Record(r, before) ==
  LET x == r.of
      recorded == Cents({q \in ledger \union {r} : q.of = x})
  IN /\ ledger' = ledger \union {r}
     /\ row' = [row EXCEPT ![x].refunded =
                  Lesser(row[x].amount, Greater(before, recorded))]

RecordSlice(a, x) ==
  /\ at[a] = "record" /\ IsNext(a, x)
  /\ \/ /\ Record(Key(a, x), seen[a][x])
        /\ togo' = [togo EXCEPT ![a] = @ \ {x}]
        /\ Goto(a, "send") /\ UNCHANGED <<debt, unheard, faults>>
     \/ /\ Fault /\ Owe(a, edit[a].due) /\ unheard' = unheard \union {a}
        /\ UNCHANGED <<row, ledger, togo>>
  /\ UNCHANGED <<booking, stripe, sent, credit, plan, seen, ops, events, counted,
                 crashed, reminted, short, repeated, borrowed, raced>>

FinishRefund(a) ==
  /\ at[a] = "send" /\ togo[a] = {}
  /\ Goto(a, "done")
  /\ debt' = IF debt[a].op = "frozen" THEN [debt EXCEPT ![a].op = "done"] ELSE debt
  /\ UNCHANGED <<booking, row, stripe, refunds, work, ops, events, past, faults>>

(* What went through of the refund as it was divided. *)
Recorded(a) == {Key(a, x) : x \in Planned(plan[a]) \ togo[a]}

(* A run of the recovery divides what is owed when it first takes the       *)
(* operation, and keeps to that.                                            *)
FreezePlan(e) ==
  LET cents == Lesser(debt[e].cents, Refundable)
      p == Allocation(cents)
      asked == {[by |-> "edit", from |-> e, of |-> x, cents |-> p[x]] : x \in Planned(p)}
  IN /\ at[e] = "done" /\ debt[e].op = "due"
     /\ \/ /\ cents = 0 /\ debt' = [debt EXCEPT ![e].op = "done"]
           /\ UNCHANGED <<at, plan>>
        \/ /\ cents > 0 /\ debt' = [debt EXCEPT ![e].op = "frozen"]
           /\ plan' = [plan EXCEPT ![e] = p] /\ Goto(e, "read")
     /\ reminted' = IF e \in unheard /\ Cents(SentFor(e) \union asked) > edit[e].due
                    THEN reminted \union {e} ELSE reminted
     /\ short' = IF cents < debt[e].cents THEN short \union {e} ELSE short
     /\ repeated' = IF asked \cap Recorded(e) # {} THEN repeated \union {e} ELSE repeated
     /\ UNCHANGED <<booking, row, stripe, refunds, togo, seen, ops, events, counted,
                    crashed, unheard, borrowed, raced, faults>>

Replay(a) ==
  /\ at[a] = "done" /\ debt[a].op = "frozen"
  /\ Goto(a, "read")
  /\ UNCHANGED <<booking, row, stripe, refunds, debt, work, ops, events, past, faults>>

(* charge.refunded tells what Stripe has refunded of an intent. *)
SyncRefunds(x) ==
  /\ row[x].status # "none" /\ \E r \in sent : r.of = x
  /\ ledger' = ledger \union {r \in sent : r.of = x}
  /\ SettleRow(x, Lesser(row[x].amount, Greater(row[x].refunded, Sent(x))))
  /\ UNCHANGED <<booking, at, stripe, sent, credit, debt, work, ops, events, past, faults>>

-----------------------------------------------------------------------------
(* The additional intent of an increase, made by the request or by a run of *)
(* the recovery.                                                            *)

(* The operation knows the rows there were when it was enqueued.            *)
Postpone(e) ==
  /\ createOp' = IF createOp[e].op = "none"
                 THEN [createOp EXCEPT ![e] = [op |-> "due", since |-> Cardinality(Registered)]]
                 ELSE createOp
  /\ Goto(e, "done")

(* The key belongs to the edit, but the request and the runs describe the   *)
(* intent in other words: Stripe refuses the key of the one to the other.   *)
MintIntent(e) ==
  LET own == IF createOp[e].op = "due" THEN "run" ELSE "request"
      Made == stripe' = [stripe EXCEPT ![e] = "open"] /\ made' = [made EXCEPT ![e] = own]
  IN /\ at[e] = "mint"
     /\ \/ /\ made[e] \in {"nobody", own} /\ Made
           /\ Goto(e, "supersede") /\ UNCHANGED <<createOp, faults>>
        \/ /\ made[e] \in {"nobody", own} /\ Made
           /\ Fault /\ Postpone(e)
        \/ /\ Fault /\ Postpone(e) /\ UNCHANGED <<stripe, made>>
        \/ /\ made[e] \notin {"nobody", own}
           /\ Postpone(e) /\ UNCHANGED <<stripe, made, faults>>
     /\ UNCHANGED <<booking, row, refunds, debt, work, voidOp, backOp, events, past>>

(* Other increases still to be paid are withdrawn. *)
Superseded(e) == {x \in Registered \ {e} : row[x].status = "PENDING"}

Supersede(e) ==
  /\ at[e] = "supersede"
  /\ voidOp' = [x \in Intents |-> IF x \in Superseded(e) /\ voidOp[x] = "none"
                                 THEN "due" ELSE voidOp[x]]
  /\ Goto(e, "register")
  /\ UNCHANGED <<booking, row, stripe, refunds, debt, work, createOp, made, backOp,
                 events, past, faults>>

(* Mutant: the age of the other rows is not looked at. *)
OutdatedByAny(e) == status = "CANCELLED" \/ Registered # {}

(* A newer increase, or a cancellation, has taken its place.                *)
Outdated(e) ==
  status = "CANCELLED" \/ \E x \in Registered : row[x].rank > createOp[e].since

(* A run that fails here is dropped when it is tried again, if a newer bill *)
(* was registered meanwhile: the bill it may just have withdrawn.           *)
Register(e) ==
  /\ at[e] = "register"
  /\ \/ /\ row' = [row EXCEPT ![e] = [status |-> "PENDING", amount |-> edit[e].add,
               refunded |-> 0, rank |-> Cardinality(Registered) + 1]]
        /\ createOp' = IF createOp[e].op = "due"
                       THEN [createOp EXCEPT ![e].op = "done"] ELSE createOp
        /\ Goto(e, "done") /\ UNCHANGED <<crashed, faults>>
     \/ /\ Fault /\ Postpone(e) /\ UNCHANGED row
        /\ crashed' = IF createOp[e].op = "due" /\ Outdated(e)
                      THEN crashed \union {e} ELSE crashed
  /\ UNCHANGED <<booking, stripe, refunds, debt, work, made, voidOp, backOp, events,
                 counted, unheard, reminted, short, repeated, borrowed, raced>>

ResumeIntent(e) ==
  /\ at[e] = "done" /\ createOp[e].op = "due"
  /\ \/ Outdated(e) /\ createOp' = [createOp EXCEPT ![e].op = "done"] /\ UNCHANGED at
     \/ ~Outdated(e) /\ Goto(e, "mint") /\ UNCHANGED createOp
  /\ UNCHANGED <<booking, row, stripe, refunds, debt, work, made, voidOp, backOp, events,
                 past, faults>>

(* The request dies and leaves nothing behind, or the run dies and its      *)
(* operation is taken again.                                                *)
GivesUp(e) == createOp[e].op # "due" \/ (at[e] = "register" /\ Outdated(e))

Crash(a) ==
  /\ at[a] \in {"mint", "supersede", "register", "teardown", "read", "send", "record"}
  /\ Fault /\ Goto(a, "done")
  /\ crashed' = IF a \in Edits /\ debt[a].op # "frozen" /\ GivesUp(a)
                THEN crashed \union {a} ELSE crashed
  /\ UNCHANGED <<booking, row, stripe, refunds, debt, work, ops, events, counted,
                 unheard, reminted, short, repeated, borrowed, raced>>

-----------------------------------------------------------------------------
(* The member pays.                                                         *)

Pay(x) ==
  /\ stripe[x] = "open" /\ row[x].status # "none"
  /\ stripe' = [stripe EXCEPT ![x] = "captured"]
  /\ mail' = mail \union {x}
  /\ UNCHANGED <<booking, at, row, refunds, debt, work, ops, hook, past, faults>>

(* A card is declined; the intent can be paid still. *)
Decline(x) ==
  /\ stripe[x] = "open" /\ row[x].status = "PENDING"
  /\ SetRow(x, "FAILED")
  /\ UNCHANGED <<booking, at, stripe, refunds, debt, work, ops, events, past, faults>>

(* confirm-modification-payment: only the newest row's intent is known.     *)
Confirm(x) ==
  /\ x \in Newest /\ stripe[x] = "captured" /\ row[x].status # "SUCCEEDED"
  /\ SetRow(x, "SUCCEEDED")
  /\ UNCHANGED <<booking, at, stripe, refunds, debt, work, ops, events, past, faults>>

Handled(x) == mail' = mail \ {x} /\ hook' = [hook EXCEPT ![x] = "idle"]

(* Mutant: it is kept, as if nobody had withdrawn it. *)
KeepMoney(x) ==
  /\ SetRow(x, "SUCCEEDED")
  /\ voidOp' = [voidOp EXCEPT ![x] = "done"]
  /\ UNCHANGED backOp

(* Captured although withdrawn: the money is to go back. *)
HandOff(x) ==
  /\ SetRow(x, "SUCCEEDED")
  /\ voidOp' = [voidOp EXCEPT ![x] = "done"]
  /\ backOp' = [backOp EXCEPT ![x] = IF @ = "none" THEN "due" ELSE @]

(* payment_intent.succeeded reads the booking, and acts on what it read.    *)
ReadEvent(x) ==
  /\ x \in mail /\ hook[x] = "idle"
  /\ \/ voidOp[x] = "due" /\ HandOff(x) /\ Handled(x)
     \/ /\ voidOp[x] # "due" /\ status = "CANCELLED"
        /\ hook' = [hook EXCEPT ![x] = "late"] /\ UNCHANGED <<row, voidOp, backOp, mail>>
     \/ /\ voidOp[x] # "due" /\ status = "PAID" /\ row[x].status = "SUCCEEDED"
        /\ Handled(x) /\ UNCHANGED <<row, voidOp, backOp>>
     \/ /\ voidOp[x] # "due" /\ status = "PAID" /\ row[x].status # "SUCCEEDED"
        /\ hook' = [hook EXCEPT ![x] = "mark"] /\ UNCHANGED <<row, voidOp, backOp, mail>>
  /\ UNCHANGED <<booking, at, stripe, refunds, debt, work, createOp, made, past, faults>>

MarkPaid(x) ==
  /\ hook[x] = "mark"
  /\ SetRow(x, "SUCCEEDED") /\ Handled(x)
  /\ raced' = IF status = "CANCELLED" THEN raced \union {x} ELSE raced
  /\ UNCHANGED <<booking, at, stripe, refunds, debt, work, ops, counted, crashed,
                 unheard, reminted, short, repeated, borrowed, faults>>

Late(x) == [by |-> "late", from |-> 0, of |-> x, cents |-> row[x].amount]
Back(x) == [by |-> "back", from |-> 0, of |-> x, cents |-> Room[x]]

(* The booking is cancelled: the money goes back, or Stripe refuses and the *)
(* event comes again.                                                       *)
ReturnLate(x) ==
  /\ hook[x] = "late"
  /\ \/ /\ Accepts(Late(x)) /\ sent' = sent \union {Late(x)}
        /\ ledger' = ledger \union {Late(x)}
        /\ SettleRow(x, row[x].amount)
        /\ Handled(x)
     \/ /\ ~Accepts(Late(x)) /\ SetRow(x, "SUCCEEDED")
        /\ hook' = [hook EXCEPT ![x] = "idle"] /\ UNCHANGED <<sent, ledger, mail>>
  /\ UNCHANGED <<booking, at, stripe, credit, debt, work, ops, past, faults>>

(* The recovery, or Stripe's event, ends a withdrawn intent, or hands its   *)
(* money on.                                                                *)
VoidIntent(x) ==
  /\ voidOp[x] = "due"
  /\ \/ /\ stripe[x] \in {"open", "void"} /\ stripe' = [stripe EXCEPT ![x] = "void"]
        /\ row' = IF row[x].status = "PENDING" THEN [row EXCEPT ![x].status = "FAILED"] ELSE row
        /\ voidOp' = [voidOp EXCEPT ![x] = "done"] /\ UNCHANGED backOp
     \/ stripe[x] = "captured" /\ HandOff(x) /\ UNCHANGED stripe
  /\ UNCHANGED <<booking, at, refunds, debt, work, createOp, made, events, past, faults>>

(* The money of a withdrawn intent goes back under one key, whatever is     *)
(* left of it.                                                              *)
ReturnWithdrawn(x) ==
  /\ backOp[x] = "due"
  /\ \/ /\ Room[x] = 0 /\ backOp' = [backOp EXCEPT ![x] = "done"]
        /\ UNCHANGED <<sent, ledger, row, faults>>
     \/ /\ Room[x] > 0 /\ Accepts(Back(x))
        /\ \A r \in sent : r.by = "back" /\ r.of = x => r = Back(x)
        /\ sent' = sent \union {Back(x)}
        /\ \/ /\ Record(Back(x), row[x].refunded)
              /\ backOp' = [backOp EXCEPT ![x] = "done"] /\ UNCHANGED faults
           \/ Fault /\ UNCHANGED <<ledger, row, backOp>>
  /\ UNCHANGED <<booking, at, stripe, credit, debt, work, createOp, made, voidOp, events,
                 past>>

-----------------------------------------------------------------------------
(* The cancellation of the booking: what the payment has left, but no more  *)
(* than the booking is worth, goes back by the policy's share.              *)

Base == Lesser(Refundable, price)

(* The newest additional intent, if it is still to be paid. *)
Outstanding == {x \in Newest : row[x].status = "PENDING"}

Cancel(way, s) ==
  LET cents == Share(s, Base)
      p == Allocation(cents)
  IN /\ status = "PAID" /\ Refundable > 0
     /\ status' = "CANCELLED" /\ counted' = Captured
     /\ row' = [x \in Intents |->
          With(x, IF x \in Outstanding THEN "FAILED" ELSE row[x].status,
               IF way = "credit" THEN row[x].refunded + p[x] ELSE row[x].refunded)]
     /\ voidOp' = [x \in Intents |-> IF x \in Outstanding /\ voidOp[x] = "none"
                                    THEN "due" ELSE voidOp[x]]
     /\ borrowed' = Borrows(p)
     /\ \/ /\ way = "credit" /\ credit' = credit + cents
           /\ UNCHANGED <<debt, plan>>
        \/ /\ way = "card" /\ UNCHANGED credit
           /\ debt' = IF cents > 0
                      THEN [debt EXCEPT ![0] = [op |-> "frozen", cents |-> cents]] ELSE debt
           /\ plan' = [plan EXCEPT ![0] = p]
     /\ togo' = [togo EXCEPT ![0] = Outstanding]
     /\ Goto(0, IF Outstanding # {} THEN "teardown"
                ELSE IF debt'[0].op = "frozen" THEN "read" ELSE "done")
     /\ UNCHANGED <<price, edit, stripe, sent, ledger, seen, createOp, made, backOp, events,
                    crashed, unheard, reminted, short, repeated, raced, faults>>

(* The request then cancels that intent at Stripe itself, if it can.        *)
TearDown ==
  /\ at[0] = "teardown"
  /\ Goto(0, IF debt[0].op = "frozen" THEN "read" ELSE "done")
  /\ \/ /\ stripe' = [x \in Intents |-> IF x \in togo[0] /\ stripe[x] = "open"
                                       THEN "void" ELSE stripe[x]]
        /\ UNCHANGED faults
     \/ Fault /\ UNCHANGED stripe
  /\ UNCHANGED <<booking, row, refunds, debt, work, ops, events, past>>

-----------------------------------------------------------------------------
Init ==
  /\ status = "PAID" /\ price = Price
  /\ edit = [e \in Refunders |-> NoEdit] /\ at = [a \in Refunders |-> "done"]
  /\ row = [x \in Intents |->
       IF x = 0 THEN [status |-> "SUCCEEDED", amount |-> Price, refunded |-> 0, rank |-> 0]
       ELSE NoRow]
  /\ stripe = [x \in Intents |-> IF x = 0 THEN "captured" ELSE "none"]
  /\ sent = {} /\ ledger = {} /\ credit = 0
  /\ debt = [a \in Refunders |-> NoDebt]
  /\ plan = [a \in Refunders |-> [x \in Intents |-> 0]]
  /\ togo = [a \in Refunders |-> {}]
  /\ seen = [a \in Refunders |-> [x \in Intents |-> 0]]
  /\ createOp = [e \in Edits |-> [op |-> "none", since |-> 0]]
  /\ made = [e \in Edits |-> "nobody"]
  /\ voidOp = [x \in Intents |-> "none"] /\ backOp = [x \in Intents |-> "none"]
  /\ mail = {} /\ hook = [x \in Intents |-> "idle"]
  /\ counted = {} /\ crashed = {} /\ unheard = {} /\ reminted = {}
  /\ short = {} /\ repeated = {} /\ borrowed = {} /\ raced = {} /\ faults = 0

Next ==
  \/ \E e \in Edits, cents \in Ups : CommitIncrease(e, cents)
  \/ \E e \in Edits, cents \in Downs, s \in Shares :
       CommitCardReduction(e, cents, s) \/ CommitCreditReduction(e, cents, s)
  \/ \E way \in {"card", "credit"}, s \in Shares : Cancel(way, s)
  \/ TearDown
  \/ \E a \in Refunders :
       \/ ReadRows(a) \/ FinishRefund(a) \/ Replay(a) \/ Crash(a)
       \/ \E x \in Intents : SendSlice(a, x) \/ RecordSlice(a, x)
  \/ \E e \in Edits :
       FreezePlan(e) \/ MintIntent(e) \/ Supersede(e) \/ Register(e) \/ ResumeIntent(e)
  \/ \E x \in Edits :
       Pay(x) \/ Decline(x) \/ Confirm(x) \/ ReadEvent(x) \/ MarkPaid(x) \/ ReturnLate(x)
  \/ \E x \in Edits : VoidIntent(x) \/ ReturnWithdrawn(x)
  \/ \E x \in Intents : SyncRefunds(x)

Spec == Init /\ [][Next]_vars

-----------------------------------------------------------------------------
(* What each variable may hold; no row shows more refunded than it has.     *)
Rows == [status : {"none", "PENDING", "SUCCEEDED", "FAILED"},
         amount : Nat, refunded : Nat, rank : Nat]
Refunds == [by : {"edit", "late", "back"}, from : Refunders, of : Intents, cents : Nat]
Bills == [kind : {"none", "up", "card", "credit"}, add : Nat, due : Nat]
Debts == [op : {"none", "due", "frozen", "done"}, cents : Nat]
Operations == {"none", "due", "done"}

BookingShapes ==
  /\ status \in {"PAID", "CANCELLED"} /\ price \in Int
  /\ edit \in [Refunders -> Bills]

PlaceShapes ==
  /\ at \in [Refunders -> {"done", "mint", "supersede", "register", "read", "send",
                           "record", "teardown"}]
  /\ hook \in [Intents -> {"idle", "mark", "late"}]
  /\ stripe \in [Intents -> {"none", "open", "captured", "void"}]

MoneyShapes ==
  /\ row \in [Intents -> Rows] /\ \A x \in Intents : row[x].refunded <= row[x].amount
  /\ sent \subseteq Refunds /\ ledger \subseteq sent /\ credit \in Nat
  /\ debt \in [Refunders -> Debts]

WorkShapes ==
  /\ plan \in [Refunders -> [Intents -> Nat]] /\ seen \in [Refunders -> [Intents -> Nat]]
  /\ togo \in [Refunders -> SUBSET Intents]

OperationShapes ==
  /\ createOp \in [Edits -> [op : Operations, since : Nat]]
  /\ made \in [Edits -> {"nobody", "request", "run"}]
  /\ voidOp \in [Intents -> Operations] /\ backOp \in [Intents -> Operations]

PastShapes ==
  /\ mail \subseteq Edits /\ counted \subseteq Intents
  /\ crashed \subseteq Edits /\ unheard \subseteq Refunders /\ reminted \subseteq Edits
  /\ short \subseteq Edits /\ repeated \subseteq Edits /\ borrowed \subseteq Intents
  /\ raced \subseteq Edits /\ faults \in 0..MaxFaults

TypeOK ==
  /\ BookingShapes /\ PlaceShapes /\ MoneyShapes /\ WorkShapes
  /\ OperationShapes /\ PastShapes

(* An increase is not lost: its bill is at work, or owed (what is owed too  *)
(* long is reported), or can be paid, or a newer increase has taken its     *)
(* place, unless its request died, or the run for the newer one gave up     *)
(* when it had withdrawn the bill of the older.                             *)
Replaces(f, e) ==
  /\ edit[f].kind = "up"
  /\ \/ row[f].rank > row[e].rank \/ at[f] = "register"
     \/ createOp[f].op = "due" \/ f \in crashed

IncreasesAreCollectable ==
  \A e \in Edits : edit[e].kind = "up" /\ status = "PAID" =>
    \/ at[e] # "done" \/ createOp[e].op = "due" \/ e \in crashed
    \/ /\ row[e].status # "none" /\ voidOp[e] = "none"
       /\ stripe[e] \in {"open", "captured"}
    \/ \E f \in Edits \ {e} : Replaces(f, e)

(* Money paid on an intent that was withdrawn, or after the cancellation,   *)
(* is on its way back or has come back, unless another refund took from it  *)
(* or the event's handler had read the booking before the cancellation.     *)
CameBack(x) == \E r \in sent : r.of = x /\ r.by # "edit" /\ r.cents = row[x].amount

ToComeBack(x) ==
  /\ stripe[x] = "captured"
  /\ voidOp[x] # "none" \/ (status = "CANCELLED" /\ x \notin counted)

MoneyComesBack ==
  \A x \in Edits : ToComeBack(x) =>
    \/ voidOp[x] = "due" \/ backOp[x] = "due" \/ x \in mail
    \/ CameBack(x) \/ x \in borrowed \union raced

(* A reduction to the card returns what is due, in however many attempts:   *)
(* not more, unless a refund it never heard of was asked for again in other *)
(* parts, and not less, unless its request died, the rows had less left, or *)
(* the run asked for what is missing in the very words of a refund that was *)
(* made and recorded, and Stripe answered with that one.                    *)
ReductionsAreReturned ==
  \A e \in Edits : edit[e].kind = "card" =>
    /\ e \notin reminted => Cents(SentFor(e)) <= edit[e].due
    /\ at[e] = "done" /\ debt[e].op \in {"none", "done"}
       /\ e \notin crashed \union short \union repeated =>
         Cents(SentFor(e)) >= edit[e].due
=============================================================================
