-------------------------- MODULE GroupSettlement --------------------------
(***************************************************************************)
(* A group whose organiser pays for every joiner.  The settlement commits  *)
(* the joiners' bookings to their beds, then collects one card payment or  *)
(* one bank transfer for all of them; the reaper takes the beds back from   *)
(* an organiser who does not pay, and a cancelled organiser booking takes   *)
(* the joiners with it and returns the money along a frozen plan.           *)
(***************************************************************************)
EXTENDS Integers, FiniteSets, Sums

CONSTANTS
  Children,     \* the joiners' bookings
  Price,        \* finalPriceCents of each
  Leavers,      \* the joiners who may cancel their booking while it is unpaid
  ByBank,       \* the methods offered: TRUE is a bank transfer, FALSE a card
  MaxTries,     \* how often the organiser starts a settlement (bound)
  MaxFaults     \* crashes, declined cards, provider errors, lost answers (bound)

ASSUME ChildrenAssumption == IsFiniteSet(Children)
ASSUME PriceAssumption == Price \in [Children -> Nat \ {0}]
ASSUME LeaversAssumption == Leavers \subseteq Children /\ ByBank \subseteq BOOLEAN
ASSUME TriesAssumption == MaxTries \in Nat \ {0}
ASSUME FaultsAssumption == MaxFaults \in Nat

VARIABLES
  host,      \* the organiser's own booking: live or CANCELLED
  group,     \* the group: OPEN or CANCELLED
  child,     \* booking status of each joiner
  leaving,   \* joiners whose cancellation has read the booking as unpaid
  pay,       \* what paid each child: an intent, Bank, or None
  mirror,    \* payment.refundedAmountCents of each child
  row,       \* the GroupBookingSettlement row, without its plan
  plan,      \* settlement.refundPlan: the cents to return for each child
  tier,      \* what the cancellation policy returns by now
  intent,    \* the PaymentIntents of this group at Stripe
  refund,    \* the refund Stripe made under the group's refund key
  invoice,   \* the combined Xero invoice
  mail,      \* events of Stripe and Xero that are still to be handled
  desk,      \* the organiser's settlement request
  hook,      \* the three handlers of a payment: the desk, Stripe's and Xero's webhook
  reap,      \* the reaper's first phase
  run,       \* the organiser-cancel cleanup, from the request or resumed
  debt,      \* the recovery operation: none, owed or done
  replay,    \* the recovery job replaying the plan
  skipped,   \* plan children no mirror could be written for
  reused,    \* history: paid or returned intents the row offers for payment again
  strayed,   \* history: intents that paid, of which the row lost track
  tries, faults

rooms  == <<child, leaving, pay, mirror>>
stripe == <<intent, refund>>
calm   == <<host, group, tier>>
past   == <<reused, strayed>>
ends   == <<past, tries, faults>>
vars == <<host, group, child, leaving, pay, mirror, row, plan, tier, intent, refund,
          invoice, mail, desk, hook, reap, run, debt, replay, skipped, reused, strayed,
          tries, faults>>

-----------------------------------------------------------------------------
None == 0
Bank == 0 - 1
Intents == 1..MaxTries

Active == {"PAYMENT_PENDING", "CONFIRMED", "PAID"}
Settleable == {"PAYMENT_PENDING", "CONFIRMED"}
Refunded == {"REFUNDED", "PARTIALLY_REFUNDED"}

With(statuses) == {c \in Children : child[c] \in statuses}
Nothing == [c \in Children |-> 0]
Least(a, b) == IF a < b THEN a ELSE b

(* The policy is a percentage of the price that falls as the stay nears.    *)
RefundOf(c, t) == IF t = "full" THEN Price[c] ELSE Price[c] \div 2

AtRest == [at |-> "idle", kids |-> {}, late |-> {}, total |-> 0, old |-> None,
           bank |-> FALSE, pi |-> None]
Handlers == {"desk", "stripe", "xero"}
NoHook == [at |-> "idle", of |-> None, amount |-> 0]
NoReap == [at |-> "idle", intent |-> None]
NoRun == [at |-> "idle", status |-> "none", intent |-> None, amount |-> 0,
          kids |-> {}, billed |-> {}, had |-> Nothing, view |-> Nothing]
NoRefund == [intent |-> None, cents |-> 0]
NoReplay == [at |-> "idle", intent |-> None, amount |-> 0, todo |-> {}]

Fault == faults < MaxFaults /\ faults' = faults + 1
(* A replay follows a failure, and may meet one more. *)
LateFault == faults <= MaxFaults /\ faults' = faults + 1

(* Every write of the row restarts its clock (@updatedAt). *)
Write(r) == row' = [r EXCEPT !.due = FALSE]

Paid(i) == {c \in Children : pay[c] = i}
Payers == {i \in Intents : Paid(i) # {}}

(* Stripe voids an intent nobody paid, and says so. *)
Void(i) ==
  IF i # None /\ intent[i].st = "open"
  THEN /\ intent' = [intent EXCEPT ![i].st = "canceled"]
       /\ mail' = mail \union {<<"failed", i>>}
  ELSE UNCHANGED <<intent, mail>>

(* Best effort: an error is logged and nothing is voided. *)
TryVoid(i) ==
  \/ Void(i) /\ faults' = faults
  \/ i # None /\ Fault /\ UNCHANGED <<intent, mail>>

-----------------------------------------------------------------------------
(* Joiners.                                                                 *)

Join(c) ==
  /\ child[c] = "none" /\ group = "OPEN" /\ host = "live"
  /\ child' = [child EXCEPT ![c] = "PAYMENT_PENDING"]
  /\ UNCHANGED <<calm, leaving, pay, mirror, row, plan, stripe, invoice, mail, desk,
                 hook, reap, run, debt, replay, skipped, ends>>

(* A joiner cancels an unpaid booking: read without the lock, written by id. *)
ReadLeave(c) ==
  /\ c \in Leavers \ leaving /\ child[c] \in Settleable
  /\ leaving' = leaving \union {c}
  /\ UNCHANGED <<calm, child, pay, mirror, row, plan, stripe, invoice, mail, desk,
                 hook, reap, run, debt, replay, skipped, ends>>

WriteLeave(c) ==
  /\ c \in leaving
  /\ leaving' = leaving \ {c}
  /\ child' = [child EXCEPT ![c] = "CANCELLED"]
  /\ UNCHANGED <<calm, pay, mirror, row, plan, stripe, invoice, mail, desk,
                 hook, reap, run, debt, replay, skipped, ends>>

-----------------------------------------------------------------------------
(* The organiser settles.  What the request reads, it reads without a lock. *)

StartSettlement(bank) ==
  LET kids == With(Settleable)
      total == Sum(Price, kids)
  IN /\ desk = AtRest /\ tries < MaxTries
     /\ row.status # "SUCCEEDED" /\ kids # {}
     /\ tries' = tries + 1
     /\ desk' = [at |-> IF ~bank /\ row.intent # None /\ row.amount = total
                        THEN "check" ELSE "commit",
                 kids |-> kids, late |-> With({"PAYMENT_PENDING"}), total |-> total,
                 old |-> row.intent, bank |-> bank, pi |-> None]
     /\ UNCHANGED <<calm, rooms, row, plan, stripe, invoice, mail, hook, reap, run,
                    debt, replay, skipped, past, faults>>

(* Mutant: the commit trusts the status it was given. *)
CommitAsRead ==
  child' = [c \in Children |-> IF c \in desk.late THEN "CONFIRMED" ELSE child[c]]

(* commitChildrenToConfirmed: all of them or, when one does not fit, none.  *)
Committed == {c \in desk.late : child[c] = "PAYMENT_PENDING"}
Commit == child' = [c \in Children |-> IF c \in Committed THEN "CONFIRMED" ELSE child[c]]

(* The intent on the row is for the same total: it is used again, unless it *)
(* was voided, or applied when it has been paid.                            *)
CheckIntent ==
  LET seen == intent[desk.old].st
  IN /\ desk.at = "check"
     /\ \/ /\ seen = "captured" /\ row.intent = desk.old /\ row.status # "SUCCEEDED"
           /\ hook' = [hook EXCEPT !["desk"] = [at |-> "apply", of |-> desk.old,
                                               amount |-> row.amount]]
           /\ desk' = [desk EXCEPT !.at = "apply"]
           /\ UNCHANGED <<rooms, intent>>
        \/ /\ seen = "captured" /\ (row.intent # desk.old \/ row.status = "SUCCEEDED")
           /\ desk' = AtRest
           /\ UNCHANGED <<rooms, intent, hook>>
        \/ /\ seen = "open"
           /\ Commit
           /\ intent' = [intent EXCEPT ![desk.old].given = TRUE]
           /\ desk' = AtRest
           /\ UNCHANGED <<leaving, pay, mirror, hook>>
        \/ /\ seen = "canceled"
           /\ desk' = [desk EXCEPT !.at = "commit"]
           /\ UNCHANGED <<rooms, intent, hook>>
     /\ UNCHANGED <<calm, row, plan, refund, invoice, mail, reap, run, debt, replay,
                    skipped, ends>>

CommitChildren ==
  /\ desk.at = "commit"
  /\ Commit
  /\ desk' = [desk EXCEPT !.at = IF desk.bank THEN "record" ELSE "mint"]
  /\ UNCHANGED <<calm, leaving, pay, mirror, row, plan, stripe, invoice, mail, hook,
                 reap, run, debt, replay, skipped, ends>>

(* The lodge is full, or a provider is down. *)
RefuseSettlement ==
  /\ \/ desk.at = "commit" /\ Committed # {} /\ faults' = faults
     \/ desk.at \in {"check", "mint"} /\ Fault
  /\ desk' = AtRest
  /\ UNCHANGED <<calm, rooms, row, plan, stripe, invoice, mail, hook, reap, run, debt,
                 replay, skipped, past, tries>>

(* The idempotency key is the total and the intent being superseded.        *)
SameKey == {i \in Intents : intent[i].st # "none" /\ intent[i].amount = desk.total
                              /\ intent[i].from = desk.old}
NewIntent == CHOOSE i \in Intents : intent[i].st = "none" /\
               \A j \in Intents : intent[j].st = "none" => i <= j

MintIntent ==
  /\ desk.at = "mint"
  /\ \/ /\ \E i \in SameKey : desk' = [desk EXCEPT !.at = "record", !.pi = i]
        /\ intent' = intent
     \/ /\ SameKey = {}
        /\ \E i \in Intents : intent[i].st = "none"
        /\ intent' = [intent EXCEPT ![NewIntent] =
             [@ EXCEPT !.st = "open", !.amount = desk.total, !.from = desk.old]]
        /\ desk' = [desk EXCEPT !.at = "record", !.pi = NewIntent]
  /\ UNCHANGED <<calm, rooms, row, plan, refund, invoice, mail, hook, reap, run, debt,
                 replay, skipped, ends>>

(* The upsert writes over whatever the row has become.  A card settlement   *)
(* leaves the source as it was.                                             *)
RecordSettlement ==
  /\ desk.at = "record"
  /\ Write([row EXCEPT !.status = "PENDING", !.intent = desk.pi, !.amount = desk.total,
                       !.bank = IF desk.bank THEN TRUE ELSE @])
  /\ reused' = reused \union {i \in Intents : i = desk.pi /\ intent[i].st = "captured"}
  /\ strayed' = strayed \union Payers
  /\ desk' = [desk EXCEPT !.at = "void"]
  /\ UNCHANGED <<calm, rooms, plan, stripe, invoice, mail, hook, reap, run, debt,
                 replay, skipped, tries, faults>>

(* The superseded intent is voided, then the request answers: with the      *)
(* client secret, or by queueing the combined invoice.                      *)
VoidSuperseded ==
  /\ desk.at = "void"
  /\ IF desk.old # desk.pi THEN TryVoid(desk.old)
     ELSE UNCHANGED <<intent, mail, faults>>
  /\ desk' = [desk EXCEPT !.at = IF desk.bank THEN "queue" ELSE "answer"]
  /\ UNCHANGED <<calm, rooms, row, plan, refund, invoice, hook, reap, run, debt,
                 replay, skipped, past, tries>>

Answer ==
  /\ desk.at = "answer"
  /\ intent' = [intent EXCEPT ![desk.pi].given = TRUE]
  /\ desk' = AtRest
  /\ UNCHANGED <<calm, rooms, row, plan, refund, invoice, mail, hook, reap, run, debt,
                 replay, skipped, ends>>

QueueInvoice ==
  /\ desk.at = "queue"
  /\ \/ /\ invoice' = IF invoice.amount = 0 THEN [invoice EXCEPT !.queued = TRUE]
                      ELSE invoice
        /\ faults' = faults
     \/ invoice' = invoice /\ Fault
  /\ desk' = AtRest
  /\ UNCHANGED <<calm, rooms, row, plan, stripe, mail, hook, reap, run, debt,
                 replay, skipped, past, tries>>

CrashDesk ==
  /\ desk # AtRest
  /\ Fault
  /\ desk' = AtRest
  /\ hook' = [hook EXCEPT !["desk"] = NoHook]
  /\ UNCHANGED <<calm, rooms, row, plan, stripe, invoice, mail, reap, run, debt,
                 replay, skipped, past, tries>>

-----------------------------------------------------------------------------
(* The organiser's card, and the invoice.                                   *)

Capture(i) ==
  /\ intent[i].st = "open" /\ intent[i].given
  /\ intent' = [intent EXCEPT ![i].st = "captured"]
  /\ mail' = mail \union {<<"succeeded", i>>}
  /\ UNCHANGED <<calm, rooms, row, plan, refund, invoice, desk, hook, reap, run, debt,
                 replay, skipped, ends>>

Decline(i) ==
  /\ intent[i].st = "open" /\ intent[i].given
  /\ mail' = mail \union {<<"failed", i>>}
  /\ Fault
  /\ UNCHANGED <<calm, rooms, row, plan, stripe, invoice, desk, hook, reap, run, debt,
                 replay, skipped, past, tries>>

(* The invoice bills the children that hold a bed when the outbox runs, and *)
(* is never raised again.                                                   *)
RaiseInvoice ==
  /\ invoice.queued
  /\ invoice' = [invoice EXCEPT !.queued = FALSE,
                                !.amount = Sum(Price, With({"CONFIRMED", "PAID"}))]
  /\ UNCHANGED <<calm, rooms, row, plan, stripe, mail, desk, hook, reap, run, debt,
                 replay, skipped, ends>>

PayInvoice ==
  /\ invoice.amount > 0 /\ ~invoice.paid
  /\ invoice' = [invoice EXCEPT !.paid = TRUE]
  /\ mail' = mail \union {<<"paid", Bank>>}
  /\ UNCHANGED <<calm, rooms, row, plan, stripe, desk, hook, reap, run, debt,
                 replay, skipped, ends>>

-----------------------------------------------------------------------------
(* Settling the children.  The row is read, and the amounts compared, before *)
(* the lock; under it only the status and the children are read again.      *)

(* Mutant: an intent the row does not name any more is nobody's. *)
ReadSucceededOfRow(i) ==
  /\ hook["stripe"] = NoHook /\ <<"succeeded", i>> \in mail
  /\ IF row.intent = i /\ row.status # "SUCCEEDED"
     THEN /\ hook' = [hook EXCEPT !["stripe"] = [at |-> "apply", of |-> i,
                                                amount |-> row.amount]]
          /\ mail' = mail
     ELSE mail' = mail \ {<<"succeeded", i>>} /\ hook' = hook
  /\ UNCHANGED <<calm, rooms, row, plan, stripe, invoice, desk, reap, run, debt,
                 replay, skipped, ends>>

ReadSucceeded(i) ==
  /\ hook["stripe"] = NoHook /\ <<"succeeded", i>> \in mail
  /\ \/ /\ row.intent # i \/ (row.status # "SUCCEEDED" /\ row.amount # intent[i].amount)
        /\ hook' = [hook EXCEPT !["stripe"] = [at |-> "return", of |-> i, amount |-> 0]]
        /\ mail' = mail
     \/ /\ row.intent = i /\ row.status = "SUCCEEDED"
        /\ mail' = mail \ {<<"succeeded", i>>} /\ hook' = hook
     \/ /\ row.intent = i /\ row.status # "SUCCEEDED" /\ row.amount = intent[i].amount
        /\ hook' = [hook EXCEPT !["stripe"] = [at |-> "apply", of |-> i,
                                              amount |-> row.amount]]
        /\ mail' = mail
  /\ UNCHANGED <<calm, rooms, row, plan, stripe, invoice, desk, reap, run, debt,
                 replay, skipped, ends>>

ReadPaidInvoice ==
  /\ hook["xero"] = NoHook /\ <<"paid", Bank>> \in mail
  /\ \/ /\ row.bank /\ row.status # "SUCCEEDED"
        /\ hook' = [hook EXCEPT !["xero"] = [at |-> "apply", of |-> Bank,
                                            amount |-> row.amount]]
        /\ mail' = mail
     \/ /\ ~row.bank \/ row.status = "SUCCEEDED"
        /\ mail' = mail \ {<<"paid", Bank>>} /\ hook' = hook
  /\ UNCHANGED <<calm, rooms, row, plan, stripe, invoice, desk, reap, run, debt,
                 replay, skipped, ends>>

(* The handler is through with its payment. *)
Handled(h) ==
  /\ hook' = [hook EXCEPT ![h] = NoHook]
  /\ mail' = mail \ {CASE h = "desk" -> <<"none", None>>
                     [] h = "stripe" -> <<"succeeded", hook[h].of>>
                     [] h = "xero" -> <<"paid", Bank>>}

Settle(h, beds) ==
  /\ child' = [c \in Children |-> IF c \in beds THEN "PAID" ELSE child[c]]
  /\ pay' = [c \in Children |-> IF c \in beds THEN hook[h].of ELSE pay[c]]
  /\ Write([row EXCEPT !.status = "SUCCEEDED"])
  /\ reused' = reused \union {i \in Intents : i = hook[h].of /\
                  (intent[i].back \/ (hook["stripe"].at = "return" /\ hook["stripe"].of = i))}
  /\ strayed' = strayed \union {i \in Intents : i = hook[h].of /\ i # row.intent}
  /\ Handled(h)

(* Mutant: the total is not compared with the children under the lock. *)
ApplyUnverified(h) ==
  /\ hook[h].at = "apply"
  /\ \/ row.status = "SUCCEEDED" /\ Handled(h) /\ UNCHANGED <<child, pay, row, past>>
     \/ row.status # "SUCCEEDED" /\ Settle(h, With({"CONFIRMED"}))
  /\ desk' = IF h = "desk" THEN AtRest ELSE desk
  /\ UNCHANGED <<calm, leaving, mirror, plan, stripe, invoice, reap, run, debt,
                 replay, skipped, tries, faults>>

(* settleConfirmedChildrenAndNotify: a capture that does not fit goes back, *)
(* a bank transfer that does not fit is left to an operator.                *)
Apply(h) ==
  LET beds == With({"CONFIRMED"})
      fits == Sum(Price, beds) = hook[h].amount
  IN /\ hook[h].at = "apply"
     /\ \/ row.status = "SUCCEEDED" /\ Handled(h) /\ UNCHANGED <<child, pay, row, past>>
        \/ row.status # "SUCCEEDED" /\ fits /\ Settle(h, beds)
        \/ /\ row.status # "SUCCEEDED" /\ ~fits
           /\ \/ h # "stripe" /\ Handled(h)
              \/ h = "stripe" /\ hook' = [hook EXCEPT ![h].at = "return"] /\ mail' = mail
           /\ UNCHANGED <<child, pay, row, past>>
     /\ desk' = IF h = "desk" THEN AtRest ELSE desk
     /\ UNCHANGED <<calm, leaving, mirror, plan, stripe, invoice, reap, run, debt,
                    replay, skipped, tries, faults>>

(* refundSupersededGroupSettlementIntent: all of it, under a key of the     *)
(* intent.  Stripe refuses what was already given back by the cancel; then, *)
(* and on any failure, the event comes again.                               *)
ReturnCapture ==
  LET i == hook["stripe"].of
      Again == hook' = [hook EXCEPT !["stripe"] = NoHook] /\ mail' = mail
      Returned == intent' = [intent EXCEPT ![i].back = TRUE]
  IN /\ hook["stripe"].at = "return"
     /\ \/ refund.intent # i /\ Returned /\ Handled("stripe") /\ faults' = faults
        \/ refund.intent # i /\ Returned /\ Again /\ Fault
        \/ refund.intent = i /\ Again /\ UNCHANGED <<intent, faults>>
     /\ UNCHANGED <<calm, rooms, row, plan, refund, invoice, desk, reap, run, debt,
                    replay, skipped, past, tries>>

CrashHandler(h) ==
  /\ h # "desk" /\ hook[h] # NoHook
  /\ Fault
  /\ hook' = [hook EXCEPT ![h] = NoHook]
  /\ UNCHANGED <<calm, rooms, row, plan, stripe, invoice, mail, desk, reap, run, debt,
                 replay, skipped, past, tries>>

(* markGroupSettlementIntentFailed: declined or voided at Stripe. *)
MarkFailed(i) ==
  /\ <<"failed", i>> \in mail
  /\ IF row.intent = i /\ row.status \notin Refunded \union {"SUCCEEDED"}
     THEN Write([row EXCEPT !.status = "FAILED"]) ELSE row' = row
  /\ mail' = mail \ {<<"failed", i>>}
  /\ UNCHANGED <<calm, rooms, plan, stripe, invoice, desk, hook, reap, run, debt,
                 replay, skipped, ends>>

-----------------------------------------------------------------------------
(* Time: the row's deadline, and the policy's next tier, which nothing      *)
(* reads before the organiser cancels.                                      *)

Tick ==
  /\ row.status \in {"PENDING", "FAILED"} /\ ~row.due
  /\ row' = [row EXCEPT !.due = TRUE]
  /\ UNCHANGED <<calm, rooms, plan, stripe, invoice, mail, desk, hook, reap, run, debt,
                 replay, skipped, ends>>

DropTier ==
  /\ host = "CANCELLED" /\ tier = "full" /\ tier' = "half"
  /\ UNCHANGED <<host, group, rooms, row, plan, stripe, invoice, mail, desk, hook, reap,
                 run, debt, replay, skipped, ends>>

-----------------------------------------------------------------------------
(* The reaper.  Its first phase decides on the scanned row and looks again, *)
(* under the lock, at the status only.                                      *)

Scan ==
  /\ reap = NoReap
  /\ row.status \in {"PENDING", "FAILED"} /\ row.due
  /\ reap' = [at |-> "release", intent |-> row.intent]
  /\ UNCHANGED <<calm, rooms, row, plan, stripe, invoice, mail, desk, hook, run, debt,
                 replay, skipped, ends>>

(* Mutant: every pass writes the row, and so restarts its clock. *)
ReleaseAlwaysWrites ==
  LET beds == With({"CONFIRMED"})
  IN /\ reap.at = "release"
     /\ \/ /\ row.status \in {"PENDING", "FAILED"}
           /\ child' = [c \in Children |-> IF c \in beds THEN "PAYMENT_PENDING" ELSE child[c]]
           /\ Write([row EXCEPT !.status = "FAILED"])
           /\ reap' = IF beds = {} THEN NoReap ELSE [reap EXCEPT !.at = "void"]
        \/ /\ row.status \notin {"PENDING", "FAILED"}
           /\ reap' = NoReap
           /\ UNCHANGED <<child, row>>
     /\ UNCHANGED <<calm, leaving, pay, mirror, plan, stripe, invoice, mail, desk, hook,
                    run, debt, replay, skipped, ends>>

Release ==
  LET beds == With({"CONFIRMED"})
  IN /\ reap.at = "release"
     /\ \/ /\ row.status \in {"PENDING", "FAILED"}
           /\ child' = [c \in Children |-> IF c \in beds THEN "PAYMENT_PENDING" ELSE child[c]]
           /\ IF beds # {} \/ row.status # "FAILED"
              THEN Write([row EXCEPT !.status = "FAILED"]) ELSE row' = row
           /\ reap' = IF beds = {} THEN NoReap ELSE [reap EXCEPT !.at = "void"]
        \/ /\ row.status \notin {"PENDING", "FAILED"}
           /\ reap' = NoReap
           /\ UNCHANGED <<child, row>>
     /\ UNCHANGED <<calm, leaving, pay, mirror, plan, stripe, invoice, mail, desk, hook,
                    run, debt, replay, skipped, ends>>

VoidReaped ==
  /\ reap.at = "void"
  /\ TryVoid(reap.intent)
  /\ reap' = NoReap
  /\ UNCHANGED <<calm, rooms, row, plan, refund, invoice, desk, hook, run, debt,
                 replay, skipped, past, tries>>

(* The second phase looks at everything again under the lock. *)
Expire ==
  /\ row.status = "FAILED" /\ row.due
  /\ With({"PAYMENT_PENDING"}) # {}
  /\ child' = [c \in Children |-> IF child[c] = "PAYMENT_PENDING" THEN "CANCELLED"
                                  ELSE child[c]]
  /\ UNCHANGED <<calm, leaving, pay, mirror, row, plan, stripe, invoice, mail, desk,
                 hook, reap, run, debt, replay, skipped, ends>>

CrashReaper ==
  /\ reap # NoReap
  /\ Fault
  /\ reap' = NoReap
  /\ UNCHANGED <<calm, rooms, row, plan, stripe, invoice, mail, desk, hook, run, debt,
                 replay, skipped, past, tries>>

-----------------------------------------------------------------------------
(* The organiser cancels: settleGroupBookingOnOrganiserCancel, called by    *)
(* the request that cancelled the host, and resumed by the reaper when it   *)
(* left the group open.                                                     *)

OrganiserCancels ==
  /\ host = "live"
  /\ host' = "CANCELLED"
  /\ run' = [run EXCEPT !.at = "read"]
  /\ UNCHANGED <<group, tier, rooms, row, plan, stripe, invoice, mail, desk, hook, reap,
                 debt, replay, skipped, ends>>

(* Mutant: a cleanup is taken for finished when no child is active. *)
ResumeWithChildren ==
  /\ host = "CANCELLED" /\ group # "CANCELLED" /\ run = NoRun
  /\ With(Active) # {}
  /\ run' = [run EXCEPT !.at = "read"]
  /\ UNCHANGED <<calm, rooms, row, plan, stripe, invoice, mail, desk, hook, reap, debt,
                 replay, skipped, ends>>

Resume ==
  /\ host = "CANCELLED" /\ group # "CANCELLED" /\ run = NoRun
  /\ run' = [run EXCEPT !.at = "read"]
  /\ UNCHANGED <<calm, rooms, row, plan, stripe, invoice, mail, desk, hook, reap, debt,
                 replay, skipped, ends>>

(* What the run reads here it uses until its end. *)
ReadGroup ==
  /\ run.at = "read"
  /\ run' = [at |-> IF row.status = "PENDING" /\ row.intent # None THEN "fail" ELSE "plan",
             status |-> row.status, intent |-> row.intent, amount |-> row.amount,
             kids |-> With(Active), billed |-> With({"PAID"}),
             had |-> [c \in Children |-> IF child[c] \in Active THEN mirror[c] ELSE 0],
             view |-> plan]
  /\ UNCHANGED <<calm, rooms, row, plan, stripe, invoice, mail, desk, hook, reap, debt,
                 replay, skipped, ends>>

(* An open intent is voided, and the row failed whatever it has become.     *)
VoidOpen ==
  /\ run.at = "fail"
  /\ TryVoid(run.intent)
  /\ run' = [run EXCEPT !.at = "mark"]
  /\ UNCHANGED <<calm, rooms, row, plan, refund, invoice, desk, hook, reap, debt,
                 replay, skipped, past, tries>>

FailRow ==
  /\ run.at = "mark"
  /\ Write([row EXCEPT !.status = "FAILED"])
  /\ reused' = IF row.status = "SUCCEEDED" THEN reused \union {row.intent} ELSE reused
  /\ strayed' = strayed \union Payers
  /\ run' = [run EXCEPT !.at = "plan"]
  /\ UNCHANGED <<calm, rooms, plan, stripe, invoice, mail, desk, hook, reap, debt,
                 replay, skipped, tries, faults>>

NewPlan == [c \in Children |-> IF c \in run.billed THEN RefundOf(c, tier) ELSE 0]
Planned(p) == Sum(p, Children)

(* Mutant: every run computes the plan from the tier it finds. *)
MakePlanAnew ==
  LET p == IF run.status = "SUCCEEDED" THEN NewPlan ELSE run.view
  IN /\ run.at = "plan"
     /\ plan' = IF Planned(p) > 0 THEN p ELSE plan
     /\ run' = [run EXCEPT !.view = p,
                           !.at = IF Planned(p) > 0 /\ run.intent # None
                                     /\ run.status = "SUCCEEDED"
                                  THEN "owe" ELSE "cancel"]
     /\ UNCHANGED <<calm, rooms, row, stripe, invoice, mail, desk, hook, reap, debt,
                    replay, skipped, ends>>

(* A recorded plan is used as it is; a new one is recorded before any money *)
(* moves, and the debt before the refund.                                   *)
MakePlan ==
  LET p == IF run.view = Nothing /\ run.status = "SUCCEEDED" THEN NewPlan ELSE run.view
  IN /\ run.at = "plan"
     /\ plan' = IF run.view = Nothing /\ Planned(p) > 0 THEN p ELSE plan
     /\ run' = [run EXCEPT !.view = p,
                           !.at = IF Planned(p) > 0 /\ run.intent # None
                                     /\ run.status = "SUCCEEDED"
                                  THEN "owe" ELSE "cancel"]
     /\ UNCHANGED <<calm, rooms, row, stripe, invoice, mail, desk, hook, reap, debt,
                    replay, skipped, ends>>

(* The recovery operation is upserted by key, due later or at once; one     *)
(* that is done stays done.                                                 *)
Owe(when) == debt' = IF debt = "done" THEN debt ELSE when

OweRefund ==
  /\ run.at = "owe"
  /\ \/ Owe("later") /\ faults' = faults
     \/ debt' = debt /\ Fault
  /\ run' = [run EXCEPT !.at = "refund"]
  /\ UNCHANGED <<calm, rooms, row, plan, stripe, invoice, mail, desk, hook, reap,
                 replay, skipped, past, tries>>

(* processRefund under the settlement's key: the same request is answered   *)
(* again, another one, or one that exceeds the capture, is refused.         *)
Request(i, p) == [intent |-> i, cents |-> Planned(p)]
Accepts(r) ==
  \/ refund = r
  \/ refund = NoRefund /\ intent[r.intent].st = "captured" /\ ~intent[r.intent].back

(* Mutant: a refund that failed is abandoned, and its plan with it. *)
RefundInlineAbandons ==
  LET r == Request(run.intent, run.view)
      Dropped == run' = [run EXCEPT !.at = "cancel", !.view = Nothing] /\ plan' = Nothing
  IN /\ run.at = "refund"
     /\ \/ /\ Accepts(r) /\ refund' = r
           /\ run' = [run EXCEPT !.at = "flip"]
           /\ UNCHANGED <<plan, faults>>
        \/ Accepts(r) /\ refund' \in {refund, r} /\ Dropped /\ Fault
        \/ ~Accepts(r) /\ refund' = refund /\ Dropped /\ faults' = faults
     /\ UNCHANGED <<calm, rooms, row, intent, invoice, mail, desk, hook, reap, debt,
                    replay, skipped, past, tries>>

(* A failed refund stays owed: the plan is kept, the children are cancelled *)
(* without mirrors, and the recovery job may replay at once.                *)
RefundInline ==
  LET r == Request(run.intent, run.view)
      Failed == run' = [run EXCEPT !.at = "cancel", !.view = Nothing]
  IN /\ run.at = "refund"
     /\ \/ /\ Accepts(r) /\ refund' = r
           /\ run' = [run EXCEPT !.at = "flip"]
           /\ UNCHANGED <<debt, faults>>
        \/ Accepts(r) /\ refund' \in {refund, r} /\ Failed /\ Owe("owed") /\ Fault
        \/ ~Accepts(r) /\ refund' = refund /\ Failed /\ Owe("owed") /\ faults' = faults
     /\ UNCHANGED <<calm, rooms, row, plan, intent, invoice, mail, desk, hook, reap,
                    replay, skipped, past, tries>>

(* Mutant: the word of the Xero operations. *)
FlippedPartial(cents, amount) == IF cents >= amount THEN "REFUNDED" ELSE "PARTIAL"

Flipped(cents, amount) == IF cents >= amount THEN "REFUNDED" ELSE "PARTIALLY_REFUNDED"

FlipInline ==
  /\ run.at = "flip"
  /\ Write([row EXCEPT !.status = Flipped(Planned(run.view), run.amount)])
  /\ reused' = reused \union {row.intent}
  /\ \/ debt' = (IF debt = "none" THEN "none" ELSE "done") /\ faults' = faults
     \/ debt' = debt /\ Fault
  /\ run' = [run EXCEPT !.at = "cancel"]
  /\ UNCHANGED <<calm, rooms, plan, stripe, invoice, mail, desk, hook, reap,
                 replay, skipped, strayed, tries>>

(* Each child is cancelled, with its mirror, in a transaction of its own; a *)
(* child whose transaction fails is left as it was.                         *)
CancelChild(c) ==
  /\ run.at = "cancel" /\ c \in run.kids
  /\ \/ /\ child' = [child EXCEPT ![c] = "CANCELLED"]
        /\ mirror' = IF run.view[c] > 0
                     THEN [mirror EXCEPT ![c] = Least(Price[c], run.had[c] + run.view[c])]
                     ELSE mirror
        /\ UNCHANGED <<skipped, faults>>
     \/ /\ Fault
        /\ skipped' = skipped \union {c}
        /\ UNCHANGED <<child, mirror>>
  /\ run' = [run EXCEPT !.kids = @ \ {c}]
  /\ UNCHANGED <<calm, leaving, pay, row, plan, stripe, invoice, mail, desk, hook, reap,
                 debt, replay, past, tries>>

MarkGroupCancelled ==
  /\ run.at = "cancel" /\ run.kids = {}
  /\ group' = "CANCELLED"
  /\ run' = NoRun
  /\ UNCHANGED <<host, tier, rooms, row, plan, stripe, invoice, mail, desk, hook, reap,
                 debt, replay, skipped, ends>>

CrashRun ==
  /\ run # NoRun
  /\ Fault
  /\ run' = NoRun
  /\ UNCHANGED <<calm, rooms, row, plan, stripe, invoice, mail, desk, hook, reap, debt,
                 replay, skipped, past, tries>>

-----------------------------------------------------------------------------
(* The recovery job replays the recorded plan: executeGroupSettlementRefundPlan. *)

Mirrorable == {c \in Children : plan[c] > 0}

ReadPlan ==
  LET refundable == row.status = "SUCCEEDED" /\ row.intent # None
  IN /\ replay = NoReplay
     /\ debt = "owed" \/ (debt = "later" /\ run = NoRun)
     /\ \/ /\ Planned(plan) > 0 /\ refundable
           /\ replay' = [at |-> "refund", intent |-> row.intent, amount |-> row.amount,
                        todo |-> {}]
           /\ debt' = debt
        \/ /\ Planned(plan) > 0 /\ row.status \in Refunded
           /\ replay' = [NoReplay EXCEPT !.at = "mirror", !.todo = Mirrorable]
           /\ debt' = debt
        \/ /\ Planned(plan) = 0 \/ ~(refundable \/ row.status \in Refunded)
           /\ debt' = "done" /\ replay' = replay
     /\ UNCHANGED <<calm, rooms, row, plan, stripe, invoice, mail, desk, hook, reap, run,
                    skipped, ends>>

ReplayRefund ==
  LET r == Request(replay.intent, plan)
  IN /\ replay.at = "refund"
     /\ \/ /\ Accepts(r) /\ refund' = r
           /\ replay' = [replay EXCEPT !.at = "flip"] /\ faults' = faults
        \/ Accepts(r) /\ refund' \in {refund, r} /\ replay' = NoReplay /\ LateFault
        \/ ~Accepts(r) /\ refund' = refund /\ replay' = NoReplay /\ faults' = faults
     /\ UNCHANGED <<calm, rooms, row, plan, intent, invoice, mail, desk, hook, reap, run,
                    debt, skipped, past, tries>>

ReplayFlip ==
  /\ replay.at = "flip"
  /\ Write([row EXCEPT !.status = Flipped(Planned(plan), replay.amount)])
  /\ reused' = reused \union {row.intent}
  /\ replay' = [NoReplay EXCEPT !.at = "mirror", !.todo = Mirrorable]
  /\ UNCHANGED <<calm, rooms, plan, stripe, invoice, mail, desk, hook, reap, run, debt,
                 skipped, strayed, tries, faults>>

(* An active child is left to the cleanup, one that has a mirror is done.   *)
ReplayMirror(c) ==
  /\ replay.at = "mirror" /\ c \in replay.todo
  /\ IF child[c] = "CANCELLED" /\ mirror[c] = 0
     THEN mirror' = [mirror EXCEPT ![c] = Least(Price[c], plan[c])] ELSE mirror' = mirror
  /\ skipped' = IF child[c] = "CANCELLED" THEN skipped ELSE skipped \union {c}
  /\ replay' = [replay EXCEPT !.todo = @ \ {c}]
  /\ UNCHANGED <<calm, child, leaving, pay, row, plan, stripe, invoice, mail, desk, hook,
                 reap, run, debt, ends>>

ReplayDone ==
  /\ replay.at = "mirror" /\ replay.todo = {}
  /\ debt' = "done"
  /\ replay' = NoReplay
  /\ UNCHANGED <<calm, rooms, row, plan, stripe, invoice, mail, desk, hook, reap, run,
                 skipped, ends>>

CrashReplay ==
  /\ replay # NoReplay
  /\ LateFault
  /\ replay' = NoReplay
  /\ UNCHANGED <<calm, rooms, row, plan, stripe, invoice, mail, desk, hook, reap, run,
                 debt, skipped, past, tries>>

-----------------------------------------------------------------------------
Init ==
  /\ host = "live" /\ group = "OPEN" /\ tier = "full"
  /\ child = [c \in Children |-> "none"] /\ leaving = {}
  /\ pay = [c \in Children |-> None] /\ mirror = Nothing /\ plan = Nothing
  /\ row = [status |-> "none", intent |-> None, amount |-> 0, bank |-> FALSE, due |-> FALSE]
  /\ intent = [i \in Intents |-> [st |-> "none", amount |-> 0, from |-> None,
                given |-> FALSE, back |-> FALSE]]
  /\ refund = NoRefund
  /\ invoice = [queued |-> FALSE, amount |-> 0, paid |-> FALSE]
  /\ mail = {} /\ desk = AtRest /\ hook = [h \in Handlers |-> NoHook]
  /\ reap = NoReap /\ run = NoRun /\ debt = "none" /\ replay = NoReplay
  /\ skipped = {} /\ reused = {} /\ strayed = {} /\ tries = 0 /\ faults = 0

DeskStep == CheckIntent \/ CommitChildren \/ RefuseSettlement \/ MintIntent
              \/ RecordSettlement \/ VoidSuperseded \/ Answer \/ QueueInvoice
HandlerStep == \/ \E i \in Intents : ReadSucceeded(i) \/ MarkFailed(i)
               \/ ReadPaidInvoice \/ ReturnCapture
               \/ \E h \in Handlers : Apply(h)
ReaperStep == Scan \/ Release \/ VoidReaped \/ Expire
RunStep == ReadGroup \/ VoidOpen \/ FailRow \/ MakePlan \/ OweRefund \/ RefundInline
             \/ FlipInline \/ (\E c \in Children : CancelChild(c)) \/ MarkGroupCancelled
ReplayStep == ReadPlan \/ ReplayRefund \/ ReplayFlip
                \/ (\E c \in Children : ReplayMirror(c)) \/ ReplayDone

Next ==
  \/ \E c \in Children : Join(c) \/ ReadLeave(c) \/ WriteLeave(c)
  \/ \E bank \in ByBank : StartSettlement(bank)
  \/ DeskStep \/ CrashDesk
  \/ \E i \in Intents : Capture(i) \/ Decline(i)
  \/ RaiseInvoice \/ PayInvoice
  \/ HandlerStep \/ \E h \in Handlers : CrashHandler(h)
  \/ Tick \/ DropTier
  \/ ReaperStep \/ CrashReaper
  \/ OrganiserCancels \/ Resume \/ RunStep \/ CrashRun
  \/ ReplayStep \/ CrashReplay

Spec == Init /\ [][Next]_vars

(* Requests that were begun are run to their end or crash; Stripe and Xero   *)
(* deliver until an event is handled; the reaper and the recovery job are    *)
(* crons; a row's deadline comes.  Nobody has to join, settle or pay.        *)
Fairness ==
  /\ WF_vars(DeskStep) /\ WF_vars(Tick) /\ WF_vars(RunStep) /\ WF_vars(Resume)
  /\ WF_vars(ReplayStep) /\ WF_vars(RaiseInvoice) /\ WF_vars(Expire)
  /\ WF_vars(Scan) /\ WF_vars(Release) /\ WF_vars(VoidReaped)
  /\ \A h \in Handlers : WF_vars(Apply(h))
  /\ WF_vars(ReturnCapture) /\ WF_vars(ReadPaidInvoice)
  /\ \A i \in Intents : WF_vars(ReadSucceeded(i)) /\ WF_vars(MarkFailed(i))
  /\ \A c \in Children : WF_vars(WriteLeave(c))
FairSpec == Spec /\ Fairness

-----------------------------------------------------------------------------
(* What every variable may hold. *)
Cent == 0..Sum(Price, Children)
Statuses == {"none", "PENDING", "FAILED", "SUCCEEDED"} \union Refunded
Plans == {p \in [Children -> Cent] : \A c \in Children : p[c] <= Price[c]}
TypeOK ==
  /\ host \in {"live", "CANCELLED"} /\ group \in {"OPEN", "CANCELLED"}
  /\ group = "CANCELLED" => host = "CANCELLED"
  /\ child \in [Children -> Active \union {"none", "CANCELLED"}]
  /\ leaving \subseteq Leavers /\ skipped \subseteq Children
  /\ pay \in [Children -> Intents \union {None, Bank}]
  /\ mirror \in Plans /\ plan \in Plans /\ tier \in {"full", "half"}
  /\ row \in [status : Statuses, intent : Intents \union {None}, amount : Cent,
              bank : BOOLEAN, due : BOOLEAN]
  /\ intent \in [Intents -> [st : {"none", "open", "captured", "canceled"}, amount : Cent,
                 from : Intents \union {None}, given : BOOLEAN, back : BOOLEAN]]
  /\ refund \in [intent : Intents \union {None}, cents : Cent]
  /\ invoice \in [queued : BOOLEAN, amount : Cent, paid : BOOLEAN]
  /\ mail \subseteq {<<"paid", Bank>>} \union ({"succeeded", "failed"} \X Intents)
  /\ hook \in [Handlers -> [at : {"idle", "apply", "return"},
                           of : Intents \union {None, Bank}, amount : Cent]]
  /\ reap \in [at : {"idle", "release", "void"}, intent : Intents \union {None}]
  /\ run.kids \subseteq Children /\ run.billed \subseteq Children /\ run.view \in Plans
  /\ debt \in {"none", "later", "owed", "done"}
  /\ replay.todo \subseteq Children
  /\ reused \subseteq Intents \union {None} /\ strayed \subseteq Intents
  /\ tries \in 0..MaxTries /\ faults \in 0..(MaxFaults + 1)

(* What pays a child is real: the children a card payment paid cost exactly *)
(* what was captured, and that money has not gone back.  Exempt is an intent *)
(* that is offered for payment again after it paid or was returned (reused). *)
PaidByItsIntent ==
  \A i \in Intents \ reused :
    Paid(i) # {} => /\ intent[i].st = "captured" /\ Sum(Price, Paid(i)) = intent[i].amount
                    /\ ~intent[i].back

(* Captured money is never kept for nothing: once its event has been        *)
(* handled it has paid children or has gone back.  The one exception: money *)
(* that arrives after another payment settled the group is kept.            *)
MoneyIsPlaced ==
  \A i \in Intents :
    intent[i].st = "captured" =>
      <<"succeeded", i>> \in mail \/ intent[i].back \/ \E c \in Children : pay[c] # None

(* A child's refund mirror is the recorded plan's amount, written once, for *)
(* a cancelled child, and for a card the money did go back: all of the plan *)
(* in one refund.  Exempt is the money of an intent the row lost track of   *)
(* (strayed): the one refund the group has went to another, or was not made. *)
MirrorsFollowThePlan ==
  \A c \in Children :
    mirror[c] > 0 =>
      /\ child[c] = "CANCELLED" /\ mirror[c] = plan[c]
      /\ pay[c] \notin {Bank} \union strayed =>
           refund = [intent |-> pay[c], cents |-> Planned(plan)]

(* A child that was cancelled, or paid for, is not taken back into the     *)
(* settlement: PAID ends only by a cancellation, CANCELLED never.           *)
ClosedStaysClosed ==
  [][\A c \in Children :
       /\ child[c] = "CANCELLED" => child'[c] = "CANCELLED"
       /\ child[c] = "PAID" => \/ child'[c] = "PAID"
                              \/ /\ child'[c] = "CANCELLED"
                                 /\ host = "CANCELLED" \/ c \in leaving]_vars

(* A cancelled host's group is closed, however often the cleanup crashed.   *)
CleanupFinishes == (host = "CANCELLED") ~> (group = "CANCELLED")

(* A child the organiser was asked to pay for is paid or cancelled in the   *)
(* end: no retry, scan or late event restarts the row's clock for ever.  A  *)
(* child who joined after the group was paid is not covered.                *)
ChildrenResolve ==
  \A c \in Children :
    (child[c] \in Settleable /\ row.status \in {"PENDING", "FAILED"})
      ~> (child[c] \notin Settleable \/ (child[c] = "PAYMENT_PENDING" /\ row.status = "SUCCEEDED"))

(* A recorded refund is made and mirrored, whatever fails on the way, for   *)
(* every child that was cancelled before the replay looked at it and whose  *)
(* joiner did not cancel meanwhile.                                         *)
PlanIsCarriedOut ==
  \A c \in Children \ Leavers : (plan[c] > 0 /\ pay[c] # Bank) ~> (mirror[c] > 0 \/ c \in skipped)

(* When the organiser's cancellation has closed the group, the money of     *)
(* every child a card paid for is on the refund plan.                       *)
CancelledGroupIsRefunded ==
  group = "CANCELLED" =>
    \A c \in Children : pay[c] \in Intents /\ child[c] = "CANCELLED" => plan[c] > 0
=============================================================================
