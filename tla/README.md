# TLA+ models and proofs of the bookings platform

The platform lets the members of an alpine club, and guests they vouch for, book beds in one lodge. It decides who gets the
beds, takes the money (a card through Stripe, or a bank transfer against a Xero invoice), keeps a waitlist, and cancels and refunds.
One PostgreSQL database holds everything; the Next.js process runs the request handlers and, in the same process, the cron jobs.
This directory models its core, checks small instances with TLC, and proves the main results with TLAPS for every instance.

1. [The system](#1-the-system): the inventory
2. [The modules](#2-the-modules): what models what
3. [The runs](#3-the-runs): what each checks, its bounds, the fairness assumed
4. [Where code and documentation disagree](#4-where-code-and-documentation-disagree)
5. [The proofs](#5-the-proofs)
6. [Abstractions and limits](#6-abstractions-and-limits)
7. [Plan](#7-plan)

## 1. The system

How parts interact: request handlers, cron jobs and webhooks share the database and nothing else. What is *capacity sensitive* runs
in a transaction under `pg_advisory_xact_lock(1)`, one lock for the whole lodge. Calls to Stripe and Xero are made outside
transactions, so every use of money is *decide under the lock, call, record*, and everything that can happen between these three is
where the system is hard. Freed beds are offered to the waitlist by a call the cancelling handler makes after its transaction.

| Component | State it keeps | Operations | Hard behaviour | What makes it correct |
|---|---|---|---|---|
| Lodge capacity | `LodgeSettings` capacity, live | `checkCapacityForGuestRanges` | capacity edited under bookings; stays of any shape | checked admissions fit |
| Booking creation | `Booking`, `BookingGuest` | confirmed, draft, waitlisted creation, confirm/expire draft | races for the last bed; review and split parties | same |
| Non-member hold window | `nonMemberHoldUntil` | cron bump / confirm / claim + charge; admin override; charge-saved-method | three chargers, two requests under one key, crash between claim and charge, lost answers | what the cron charges is charged once; the window stays or resolves; no bump without a reason |
| Waitlist | `waitlistPosition`/`createdAt` order, `waitlistOfferExpiresAt` | offer, confirm, expire, sweep, force-confirm | two-transaction confirmation, unlocked sweep | FIFO, no admission beside the check |
| Booking cancellation | status, policy snapshot, `PaymentRecoveryOperation` | one handler, seven branches, the sweep of provisional children | branch chosen by an unlocked read; refund outside the lock | settled once; nobody revives a cancelled booking |
| Payment reconciliation | `Payment`, `PaymentTransaction` | intents, `markBookingPaymentSucceeded`, switch to bank transfer | money arriving late; capacity lost meanwhile | PAID means captured; paid never owes |
| Internet Banking holds | `internetBankingHoldUntil` | release, invoice paid | cash after release | no silent overbooking |
| Booking completion | status | nightly `completeBookings` | read, then write by id | cancelled stays cancelled |
| Booking requests and quotes | `BookingRequest`, quotes, hold | verify, quote, hold beds, convert, decline | a PENDING booking that does hold beds | only an admin takes its beds back |
| Stripe webhook | `ProcessedWebhookEvent` | one handler for each event type | redelivery, early and late events, failure after the marker | reported money is applied, returned or reported |
| Payment recovery and refunds | `PaymentRecoveryOperation`, `PaymentRefund` | claim, replay, retry, stale reset, alert | two runs on one operation, stale writes by id | each part goes back once; retried to the end |
| Xero outbox | `XeroSyncOperation` | enqueue, claim, replay, stale reset | at-least-once calls to Xero | one invoice or credit note for each correlation key |
| Group bookings and settlement | `GroupBooking`, joins, settlement intent | create, join, settle for all, cancel, reap | joiner cancels while the organiser pays | nobody is settled twice or after leaving |
| Member credit ledger | `MemberCredit` rows | earn, apply, restore, reconcile | two spends of one balance | balance never negative; restored once |
| Payment links | hashed token, expiry | issue, resolve, pay | link outlives the booking | a link pays only what is owed |
| Booking modification | booking, guests, ledger | dates, guests, batch; settle or refund the difference | capacity and money change together | no overbooking by editing; difference paid once |
| Bed allocation | `BedAllocation` | auto-allocate, move, approve, clean up | follows status changes | one guest for each bed and night |
| Promo codes | redemption count | validate, redeem, release | count against limit | never above the limit |
| Membership nomination | application, two nominator tokens | nominate, confirm, decide | tokens used twice | decided once, after both |
| Membership cancellation, member lifecycle | request, approvals | request, approve, execute | two admins | executed once, by two |
| Accounts and two-factor | codes, recovery codes, tokens | issue, verify, consume | concurrent use | used once |
| E-mail delivery | `EmailLog` | send, retry, suppress | retry against success | bounded attempts |
| Scheduler | cron runs, advisory locks | node-cron schedules in process | overlap of runs | skips a run while one is running |
| Pricing and policies | rates, seasons, rules | pure functions | rounding, date edges | unit tested |
| Finance reporting; Xero contacts and hardening; lodge operations; site content | projections, mirrors, rosters, pages | reads, repair reports, forms | little of their own | - |

`PROJECT.json` lists the same components with their files and says of each whether it is modelled, and its hazards with their lines.

## 2. The modules

| Module | Models | Lines |
|---|---|---|
| `Lodge` | the occupancy arithmetic and the status sets shared by all handlers | 72 |
| `BookingCapacity` | every handler that changes `Booking.status`, and the beds it takes (extends `Lodge`) | 633 |
| `MCBooking` | small lodges for TLC | 30 |
| `CardCharge` | one saved card, its three chargers, Stripe, the webhook, cancellations | 491 |
| `CancelRefund` | the race to cancel a paid booking, the refund and its recovery job | 266 |
| `RefundDebt` | abstract: a refund that is incurred once and paid once, part by part | 36 |
| `MCRefund` | two cancellers and two recovery runs for TLC | 7 |
| `RefundNotes` | the refund credit notes of one payment: ledger, outbox, Xero, links, retries, repair, reconciliation | 462 |
| `MCNotes` | two refunds of different size | 6 |
| `GroupSettlement` | a group whose organiser pays: settlement, webhook, invoice, reaper, cancellation, frozen refund plan and its replay | 853 |
| `MCGroup` | joiners of equal price | 6 |
| `MemberCredit` | the account credit of one member: spent, given back, minted for late transfers, adjusted, allocated in Xero | 434 |
| `MCCredit` | a booking paid by card, one by transfer, a withdrawal | 14 |
| `EditPayments` | the money of editing a booking paid by card: increases, reductions, withdrawn intents, recovery, cancellation | 601 |
| `Sums` | amounts added up over a set, as the code's `reduce` and `aggregate` calls do | 11 |
| `SumTheorems` | lemmas about such sums, proved by induction on finite sets (section 5) | |
| `BookingCapacityProofs`, `CardChargeProofs`, `CancelRefundProofs`, `RefundNotesProofs`, `GroupSettlementProofs`, `MemberCreditProofs`, `EditPaymentsProofs` | the theorems of section 5 | |

An action is a handler's transaction with everything it writes. *A handler that reads outside the lock and writes later is two actions*,
whatever its code looks like: that is where the interleavings are. Definitions whose comment begins with *Mutant* are not part of any
specification: each is one plausible mistake in the definition below or above it, kept so that every property can be shown to notice
it (`mutants` in `PROJECT.json`).

### BookingCapacity (with Lodge)

State: `status`, one `deadline` for each booking (the code has four columns, of which a status uses one: whether it is set, ahead or
passed is all the handlers ask), `payment` (the `Payment` row), `intent` (the primary PaymentIntent), `line` (waitlisted bookings by
`createdAt`), `beds` (the capacity), `today`, and `jobs`: what a running handler has read and not yet written. `entry`
and `cut` are history: how each booking last came to hold beds (checked, by an admin's override, unchecked), and the nights an
admin's edit left oversold.

| Code | Actions |
|---|---|
| `booking-create.ts` | `CreateConfirmed`, `CreateOnInvoice`, `CreateDraft`, `JoinWaitlist` |
| `booking-request*.ts`, admin review route | `HoldRequest`, `ConvertRequest`, `ApproveReview` |
| confirm-draft, `draft-booking-cleanup.ts` | `ConfirmDraft`, `ExpireDraft` |
| create-payment-intent, `payment-reconciliation.ts` | `MintIntent`, `Capture` (the customer), `MarkPaid` |
| switch-to-internet-banking | `ReadSwitch`, then `WriteSwitch` |
| `invoice-paid-effects.ts`, `internet-banking-payment-cron.ts` | `InvoicePaid`, `ReleaseBankHold` |
| `cron-confirm-pending.ts`, confirm-pending-guests | `ResolveHold`, `ConfirmPendingGuests`, then `ChargeSucceeds` or `ChargeFails` |
| `waitlist.ts`, `cron-waitlist.ts`, waitlist-confirm, force-confirm | `ProcessLine`, `ConfirmOffer` then `SettleFreeOffer`, `ExpireOffers`, `ReadSweep` then `WriteSweep`, `ForceConfirm` |
| `booking-cancel.ts` | `CancelNoPayment`, `CancelPaid`, `ReadCancel` then `WriteCancel`, `CancelOrphan` |
| `cron-complete-bookings.ts` | `ReadComplete`, then `WriteComplete` |
| `lodge-capacity.ts` (admin edit), time, process | `SetCapacity`, `PassDeadline`, `Tick`, `Crash` |

Points a reader of the code may doubt:
- `FitsBeside` excludes the booking itself and counts, night by night, the guests who sleep there: `capacity.ts` reads guests' own nights,
  not the booking's range.
- `Holders` is `capacityHoldingBookingFilter`: four statuses, and PENDING for a converted request only.
- `markBookingPaymentSucceeded` checks capacity again whatever came before, so a booking an admin force-confirmed over capacity is cancelled
  and refunded when its member pays. That follows the code; the override is acknowledged for the confirmation only.
- The line is processed where the code calls `processWaitlistForDates`. A payment that finds the lodge full, a rejected review and a
  cancelled AWAITING_REVIEW booking free beds (or may) without calling it.
- The PENDING and the unpaid branches of the cancellation, the children's sweep, the past-waitlist sweep and the completion write by id
  without looking at the status again.

### CardCharge

One provisional booking. State: `status`, `hold`, Stripe's side (the intents it `minted`, the `money` of each, the `reply` and the request's
`body` stored under the idempotency key), per intent the PRIMARY `row`, the `event` payment_intent.succeeded, its `marker` row and the place of
the handler at work on it (`hook`), the program counters of three chargers, and a `cancel`lation that has read the booking. `by` (who captured an
intent), `adrift` (the intents whose last messenger was lost, by one of the six causes below) and `revived` (a write went over a paid or cancelled
booking) are history.

| Code | Actions |
|---|---|
| `cron-confirm-pending.ts` | `CronClaim`, `Charge`, `Record`, `Settle`, `RefundNoRoom`, `Release` |
| confirm-pending-guests | `AdminClaim`, then the same with the admin's differences |
| charge-saved-method | `DeskRead`, `Charge`, `Settle`, `RefundNoRoom`, `DeskFails` |
| `stripe.ts` (`chargePaymentMethod`) and Stripe | `Charge`, `Authenticate`, `KeyExpires` |
| `payment-reconciliation.ts` | `MarkSettles`, `MarkFindsNoRoom`, `MarkRefuses` inside `Settle` and `HookSettles` |
| `stripe-webhook-service.ts` | `Deliver`, `DeliverClaimed`, `HookFinds`, `HookSettles`, `HookRefundsNoRoom`, `HookRefundsLate`, `HookRefundFails` |
| `booking-cancel.ts` | `ReadCancel`, `WriteCancel`, `CancelPaid` |

Capacity is nondeterministic here (`MarkSettles` or `MarkFindsNoRoom`), which covers whatever the rest of the lodge does.

The three chargers share one Stripe key, `pending_charge_<booking>`, but not one request: the admin's metadata names its source
(confirm-pending-guests, lines 369-374), those of the cron and of charge-saved-method do not. Stripe tells the first answer again to the same request and
refuses the key to another (`payment-recovery.ts:1108-1147` says so). So the cron and the desk find each other's money; the admin finds only its own,
and is refused, as they are after the admin. After a day Stripe forgets the key, whatever it held (`KeyExpires`), and the next charge is a new intent.
The one thing `KeyExpires` waits for is the cron: what the cron captured, of a booking it still selects (PENDING with its window), it asks
for again within three hours, long before the day is over.

### CancelRefund and RefundDebt

One paid booking, requests that cancel it (`Cancellers`) and runs of the recovery job (`Workers`: the cron of each instance and the
payments route). State: `status`, `credited`, the operation (`op`, `attempts`, `due`), what Stripe sent back for each part (`taken`), the
`PaymentRefund` rows (`ledger`), and for each actor its place, its part and, for a worker, the `attempts` it read.

| Code | Actions |
|---|---|
| `booking-cancel.ts`, paid branch | `ReadCancel`, `ClaimCancel`, `CloseInline`, `FailInline` |
| `payment-transactions.ts`, `refundPaymentTransactions` | `RefundPart`, `RecordPart` |
| `stripe-webhook-service.ts`, charge.refunded | `SyncRefunds` |
| `payment-recovery.ts` | `ClaimOperation`, `Complete`, `Fail`, `ResetStale`, `AlertAdmins` |
| process | `Crash` of one actor |

`ResetStale` may happen at any time: the code's 30 minutes are no guarantee that the run is dead, so a live run whose operation is claimed
again is in the model. `RefundDebt` is the promise, with no actors, retries or ledger: a debt incurred once, each part paid
once while owed, settled when all are paid. `Reopen` is there because the code really can write FAILED over SUCCEEDED (a run taken for
dead fails last); what must not happen is a second payment.

### RefundNotes

One payment that is refunded in `Steps` steps. State: the ledger (`refunded`), refunds whose enqueue has not run or was lost (`unsent`, `lost`),
the `XeroSyncOperation` rows (`ops`, each with the retry row that points at it), what the database knows of Xero (`links`, their sum
`covered`, the payment's `field` with a note's id), what Xero really has (`notes`, `paid`), and the workers' places (`job`). `adopted` is
history: rows that two workers ran. A note is known by its *correlation key*: the kind of key and the watermark, the cents refunded
before it plus its own.

| Code | Actions |
|---|---|
| `handleChargeRefunded` and the enqueue after it | `RecordRefund`, then `EnqueueStep` or `LoseEnqueue` |
| `cron-credit-reconciliation.ts` | `ReconcileCredits` |
| `xero-operation-outbox.ts`, `xero-operation-claim.ts` | `Enqueue`, `ClaimRow`, `FailJob` |
| `xero-operation-queue.ts` (retries) | `QueueRetry`, `ClaimRetry`, `Closed` |
| `createXeroCreditNote` | `Look`, `CloseCovered`, `SkipLegacy`, `Prepare`, `CreateNote` or `RefuseNote`, `PayNote`, `RecordNote` |
| `repairRefundCreditNoteFollowUpActions` | `RepairPartial` |
| stale reset, process | `ResetStale`, `Crash` |

`createXeroCreditNote` reads the ledger (`Look`), counts what the links cover and starts its row (`Prepare`), asks Xero (`CreateNote`), pays
the note (`PayNote`) and records the link (`RecordNote`): five steps, between any two of which other workers, refunds and crashes come.

### GroupSettlement

One group. State: the organiser's booking (`host`), the `group`, the joiners' bookings (`child`, `pay`, `mirror`), the settlement `row` with
its `plan`, Stripe's side (`intent`, `refund`), the combined `invoice`, events not yet handled (`mail`), and one program counter for each
request or job: `desk` (settle), `hook` (three handlers that can apply a payment), `reap`, `run` (the cancellation's cleanup), `replay` with
its `debt`. Three variables are history, one for each exception a property names: `skipped`, the planned children for whom the replay could not
write a mirror; `reused`, the intents the row offers for payment again after they had paid or gone back; `strayed`, the intents that paid joiners and
that the row no longer names, or no longer knows to be paid.

| Code | Actions |
|---|---|
| `group-booking.ts`, `booking-cancel.ts` for a joiner | `Join`, `ReadLeave` then `WriteLeave` |
| `createGroupSettlementIntent`, `createGroupSettlementInvoice` | `StartSettlement`, `CheckIntent`, `CommitChildren` or `RefuseSettlement`, `MintIntent`, `RecordSettlement`, `VoidSuperseded`, `Answer`, `QueueInvoice`, `CrashDesk` |
| Stripe, Xero | `Capture`, `Decline`, `RaiseInvoice`, `PayInvoice` |
| webhook, confirm request, paid invoice | `ReadSucceeded`, `ReadPaidInvoice`, `Apply`, `ReturnCapture`, `MarkFailed`, `CrashHandler` |
| `cron-group-settlement-reaper.ts` | `Tick`, `Scan`, `Release`, `VoidReaped`, `Expire`, `Resume`, `CrashReaper` |
| `settleGroupBookingOnOrganiserCancel` | `OrganiserCancels`, `ReadGroup`, `VoidOpen`, `FailRow`, `MakePlan`, `OweRefund`, `RefundInline`, `FlipInline`, `CancelChild`, `MarkGroupCancelled`, `CrashRun` |
| `executeGroupSettlementRefundPlan`, recovery job | `ReadPlan`, `ReplayRefund`, `ReplayFlip`, `ReplayMirror`, `ReplayDone`, `CrashReplay` |
| cancellation policy as the stay nears | `DropTier` |

A request reads the joiners without a lock (`StartSettlement`) and commits them under it (`Commit`, which checks status and beds again); the money
is applied under the lock (`Apply`), by whichever of the three handlers comes first, and only for the intent the row names and the amount the
children cost. The cancellation decides once what goes back to whom and freezes it in `plan`; whatever runs later, the replay included, only
carries the plan out.

### MemberCredit

One member's account. The code has rows and sums them; the model keeps the sums apart by what wrote them: spent by a creation (`own`) or by
an allocation in Xero (`note`), given back (`back`), a cancellation's refund held as credit (`refunded`), credit of a late transfer (`minted`), and
`balance`, the running sum of all (`TypeOK` says that it is). Beside them the bookings (`status`, `how` they are paid, the `pay`ment row with the
`mirror` of its applied credit), the cash Xero knows of (`cash`), the admins' `request`s, and what handlers at work have read (`creating`,
`cancel`, `hook`). `claimed`, `alerted` and `overwritten` are history.

| Code | Actions |
|---|---|
| `booking-create.ts`, `applyCreditToBooking` | `BeginBooking` (balance read under the lodge's lock), `CommitBooking` (and again under the member's) |
| create-payment-intent, `payment-reconciliation.ts` | `MintIntent`, `CardPays` |
| `xero-inbound/invoice-paid-effects.ts` | `ReadInvoice` (the cash, fetched outside the transaction), `ApplyInvoice`, `EndHook`; `PayCash` is the bank |
| `internet-banking-payment-cron.ts` | `ReleaseHold` |
| `booking-cancel.ts` | `ReadCancel`, then `ClaimPaid`, or `ReadEvidence` and `WriteUnpaid`; `CrashCancel` |
| `member-credit.ts`, two admins | `RequestAdjustment`, `ReviewAdjustment` |
| `xero-inbound/credit-note-repairs.ts` | `AllocateInXero` |

Adjustments take the member's lock but not the lodge's, so one may come between the two steps of a creation: this is what the second look at the
balance is for. An allocation reported by Xero is written without any look at the balance, since it has happened; `allocated` counts what
such rows took.

### EditPayments

One booking paid by card and edited up to `MaxEdits` times. State: `status`, `price`, what each `edit` bills or owes; the `PaymentTransaction`
rows (`row`; intent 0 is the booking's own, intent *e* that of edit *e*; `rank` is their order by `createdAt`), Stripe's side (`stripe`, the
refunds it made by key in `sent`), the `PaymentRefund` rows (`ledger`), and account `credit`. Of each refunder (an edit, or 0, the
cancellation) there is the place of its request or of the run that resumed it (`at`) with its `plan`, the slices `togo` and the refunded cents
it had `seen`. Four kinds of recovery operation: `debt` (REFUND_BOOKING_MODIFICATION, and the cancellation's), `createOp`
(CREATE_ADDITIONAL_PAYMENT_INTENT), `voidOp` (CANCEL_PAYMENT_INTENT) and `backOp` (REFUND_SUPERSEDED_PAYMENT). Events are in `mail`, and
`hook` is a handler that has read the booking and not yet written. The last eight variables before the count of faults are history, one for each
exception a property names.

| Code | Actions |
|---|---|
| `modifyBookingBatch` and its settlement | `CommitIncrease`, `CommitCardReduction`, `CommitCreditReduction` |
| `executeBookingModificationRefund`, `refundPaymentTransactions` | `ReadRows`, `SendSlice`, `RecordSlice`, `FinishRefund` |
| `createModificationAdditionalPaymentIntent` | `MintIntent`, `Supersede`, `Register` |
| `payment-recovery.ts` | `FreezePlan`, `Replay` (refunds); `ResumeIntent` (additional intents); `VoidIntent`, `ReturnWithdrawn` (withdrawn ones) |
| webhook, confirm-modification-payment | `ReadEvent`, `MarkPaid`, `ReturnLate`, `Decline`, `SyncRefunds`; `Confirm` |
| `booking-cancel.ts` | `Cancel`, `TearDown`, then the same refund with `a` = 0 |
| the member; process | `Pay`; `Crash` |

An edit commits its price under the lock and then talks to Stripe in three or four steps. A second edit, a payment, a cancellation or a recovery
run may come between any two. The refund is divided newest row first by what the rows had left *when it began* (`Allocation`), and each slice has a key
of its own; a recovery run divides again, once, and freezes that. A new increase withdraws the older ones that are still to be paid.

## 3. The runs

All runs use breadth-first search to the end of the state space (the passing ones) and two workers. States are distinct states. Only
`credit_all`, which has no liveness property, uses symmetry: of the cancellation requests and of the invoice handlers, which no definition tells apart.

| Run | Question | Instance | States |
|---|---|---|---|
| `desk` | Can two members, the crons, the admin's routes and the capacity editor ever admit both to one bed? Does anything revive a cancelled booking? | 2 bookings (one paid by card or transfer, one free), 1 bed, 2 days | 935,098 |
| `requests` | Who can take the beds of a converted request? | a request for two nights with one guest on each, a one-night party under review, capacity 0..1, one crash | 572,009 |
| `split` | The provisional child of a split party: claimed, charged, swept with its parent; is its window resolved and its claim settled? | member parent (free), child with a saved card | 70,498 |
| `all` | When is a card charged twice, although one key is shared? Is the cron's money found again, does the window stay? Is PAID captured? What can orphan money? | 3 chargers, 2 intents, 1 fault (a lost answer, a crash or a repeated delivery) | 3,095,163 |
| `refund` | Does a cancellation settle once, is each part refunded once, and does it end? | 2 cancellers, 2 workers, 2 parts, 2 attempts, 1 lost answer, 1 crash | 234,490 |
| `notes_all` | Does what the database believes of Xero stay true, and do the notes come to cover the ledger? | 2 refunds of different size, 3 rows, 2 workers, 1 crash, error or lost answer | 490,555 |
| `group_all` | Does the cancellation of a group finish, are its joiners resolved, is the plan carried out? | 2 joiners, card or bank, 1 settlement, 1 fault (a replay: 1 more) | 130,895 |
| `group_again` | Does a capture pay exactly what it was for, when the group is settled again while joiners come and leave? | 2 joiners of whom one may leave, card, 2 settlements, no fault | 1,600,584 |
| `credit_all` | Is credit spent that is not there? Does applied credit return once, and late money become credit once, within its cash? | a booking of 1 paid by card, one of 2 paid by transfer with or without a hold, opening credit 1, a withdrawal of 1, 2 cancellations, 1 invoice handler | 1,995,214 |
| `edits_all` | Is an increase ever lost, does money for a withdrawn or late intent come back, is a reduction refunded once? | price 3, 2 edits of +1 or -2, to card or credit, full share, 1 fault | 1,037,297 |
| `group_lost`, `credit_twice` | section 4 | | |

What the properties say (each is stated above its definition):

- `CheckedFit`: bookings that took their beds through a check fit together, except on nights an admin's cut oversold. Its hazard is the
  lock's whole purpose: some handler admits on a stale or missing check, counts a holder twice, or treats an override as room.
- `BumpsAccounted`: a bed-holding booking nobody asked to cancel loses its beds only when a cut, an override or an unchecked admission
  touches one of its nights. It relates the reason for a step to how *other* bookings came in, perhaps many steps before.
- `CancelledStaysCancelled`: three handlers can write over a cancelled booking (by id, from a stale read). There is no fourth.
- `HoldWindowResolves`, `ClaimResolves`: the hold cron and a charge that began finish what they owe.
- `SecondCaptureExplained`, `RetryFindsTheMoney`: the key keeps every booking from being charged again after the cron has charged it, whoever else is
  told or refused, and lets the cron's next run find money whose answer was lost. It does so for the cron only: two captures are possible after one
  that waited for the customer past the key's day, or one of the admin or the desk nobody heard of (section 4). Each relates what Stripe holds, what the
  key still says and what the chargers have read, over several runs.
- `WindowIsKept`: a PENDING booking without its window is selected by nobody. Claims take it and releases give it back, except where the desk's write by
  id comes between, or a crash. `PaidIsCaptured`: PAID is never a booking whose money all went back.
- `OrphansHaveACause`: captured money nobody will look at again - no handler at work, no event Stripe would still deliver, no row of a PAID booking, no run of
  the cron that would be told of it - has one of six causes: the webhook came before the row, a repeat was answered while the attempt it repeated then
  failed, the process died, a write by id went over a paid or a cancelled booking, a refund made on its account took another capture, or the booking was
  paid twice and its cancellation settled the price once. An event left behind its marker counts as lost, so a handler that keeps its claim when it
  fails is caught. `docs/STATE_MACHINES.md:46-49` says captured money is never silently orphaned; this is the extent to which the code keeps that.
- `SettledOnce`, `ClosedIsRecorded`, `DebtSpec`, `DebtResolves`: one credit or one operation; a closed operation has all its refunds in the
  ledger; the refund implements `RefundDebt`; and it is made, or the admins are told, unless the run died when about to tell them or a stale
  run hid that the last attempt was the last.

- `LinksMatchNotes`, `NotesWithinLedger`, `UnpaidNoteIsKnown`: what every later delta is cut to is true of Xero; no single note reaches
  beyond the refunds, however stale the ledger was when it was read; and a note whose refund payment is missing is known by a row an
  operator can retry, unless a retry adopted a row another worker also ran. `BooksConverge`: without faults the daily reconciliation makes
  up for every lost enqueue and every delta that was cut to a stale ledger.
- `PaidByItsIntent`, `MoneyIsPlaced`: the joiners a capture paid cost what was captured, and captured money whose event was handled has
  paid joiners or has gone back; it relates Stripe, the row that may since name another intent, and the joiners who came or left
  meanwhile. The stated exceptions: money that comes when another payment has settled the group is kept by the code, and an intent that is offered
  again after it paid or was returned (`reused`; section 4 says how that happens).
- `MirrorsFollowThePlan`, `PlanIsCarriedOut`, `CleanupFinishes`: joiners' refund mirrors are the frozen plan's cents and, for a card, the
  money really went back in one refund, unless the row had lost track of the intent that paid the joiner (`strayed`, section 4); the plan and the cleanup are carried out by the replay and the reaper's resumption wherever a crash comes.
- `ClosedStaysClosed`, `ChildrenResolve`: no late event, retry or scan takes a paid or cancelled joiner back, and none of them restarts the
  row's clock for ever.
- `NeverOverdrawn`: whatever was read before a lock, no creation and no adjustment spends credit that is not there; what the balance may lack is
  what operators allocated in Xero. It relates several bookings, two admins and the operators over one sum.
- `RestoredOnce`: the code adds applied credit up without looking for an earlier restoration; that it is given back once rests on the claim of the
  cancellation, and on nothing else, however many requests cancel the booking while the payment is captured or lost.
- `MintsWithinCash`, `PaidBackOnce`, `CashIsPlaced`: a paid invoice is reported any number of times, with ever more cash, to a booking that was
  meanwhile cancelled, released or paid. The credit is within the cash; the same money is not credited once by the cancellation and again as late
  money; and it is never kept in silence. The stated exception: an unpaid cancellation that wrote over a payment that had come.
- `IncreasesAreCollectable`: an edit commits first and bills afterwards, and newer increases withdraw older ones; between request, recovery
  run and webhook the bill must be at work, owed, payable or replaced. Stated exceptions: a request that died before it enqueued anything, and a run
  that gave up halfway (section 4).
- `MoneyComesBack`: a withdrawn intent may be paid all the same, before, while and after it is voided, and an intent the cancellation did not count
  may be paid after it. Each such capture is reported, owed or back in one piece. Stated exceptions: another refund took from it, or its event was
  read before the cancellation and written after it.
- `ReductionsAreReturned`: whatever fails between the slices of a refund, and however often it is taken up again, Stripe makes refunds of
  exactly what is due. Stated exceptions: an answer never heard followed by another division (more); a crash, rows with less left, or a run that asks
  in the words of a refund already made and recorded (`repeated`), which Stripe answers with that one (less).

### Bounds, and why they are enough

- *Two bookings over one bed* are the smallest instance in which every handler meets every other over the last bed; kinds
  (free, provisional, under review, saved card, request, child) are spread over the runs so that each pair the hazards name meets in one.
  `requests` has stays of different length, so that a booking may be full on one of its nights only. A third booking and more
  beds change only the arithmetic, which the theorems treat for every value.
- `LastDay` 0 or 1: the calendar only has to make a stay begin or lie in the past. `MaxBeds` 1: a cut is to 0.
- `all`: two intents are the fewest in which a capture can be the second, a refund can come from the wrong row and a cancellation can leave one behind.
  `MaxFaults` 1 lets each fault meet every interleaving of the three chargers, two handlers of events and a cancellation. What takes two faults or
  three intents is in the theorems: all the properties of this run are proved for every number of both. `StaleWindow` FALSE lets the admin's route
  claim only while the window is there. The route asks for the window before it takes the lock, where it looks at the status only, so it may
  claim a booking that the desk has put back without a window meanwhile. TRUE lets it claim any PENDING booking, which is more than the code does; it triples the
  states, and the theorems hold for both.
- `MaxAttempts` 2 (the code has 5): the first attempt is not the last, the second is; the code distinguishes no more. `Slices` 2: a
  refund can stop between two parts. The theorems hold for every value.
- `notes_all`: two workers, two refunds and one fault make each hazard of the outbox (lost enqueue, lost answer, crash between Xero's answer
  and the link, a retry beside a second delta) happen; three rows are one for each refund and one for a retry or the reconciliation.
- `group_all` and `group_again` split what one run cannot hold: faults with one settlement, two settlements without faults. Two joiners are
  enough for a set that changes between read and commit. `MaxFaults` bounds crashes, declined cards, provider errors and lost answers together;
  a replay exists only after a failure, so it may meet one more (`LateFault`).
- `credit_all`: one credit of 1 that each of two bookings, a withdrawal and an allocation want makes every pair of spenders compete; a price of 2 lets
  a transfer be paid in two parts and refunded by half. Two cancellations meet each other and the invoice's handler; a second handler finds what
  the first left, since the event comes again. The theorems of MemberCredit hold for every number of all of these.
- `edits_all`: two edits are the fewest in which one increase withdraws another or a reduction is divided over two rows; +1 and -2 at price 3 make a
  refund larger than the newest row. One fault (a lost answer, a refused call or a crash) makes each recovery operation arise. What needs a larger
  price or a further edit or fault is in the theorems, which hold for every number of all of them.
- Deadlock is not checked: a booking that is completed or cancelled in a bounded calendar has no step left.

### Fairness

- Weak fairness of the hold cron (`ResolveHold`), of the recovery job (`Work`) and of time (`PassDeadline`): node-cron runs
  them in process, every three hours and every quarter of an hour, and a run that throws does not stop the schedule.
- Weak fairness of what a handler that has begun still has to do. A crash discards it, and is an explicit, bounded action.
- Weak fairness of the webhook (`MarkPaid`): Stripe redelivers until it is answered 200.
- `RefundNotes`: weak fairness of a refund's enqueue (it runs or is lost), of the daily reconciliation, of each worker's steps and of the operator's
  reset of stale rows; strong fairness of claiming each row, since the outbox takes the oldest first and the rows before it are finite.
- `GroupSettlement`: weak fairness of requests once begun, of the reaper, the recovery job, Stripe's and Xero's deliveries, and of time.
- `CardCharge`, `EditPayments` and `MemberCredit` state no fairness, and no liveness. In CardCharge the states in which money has come to rest are named instead
  (`Abandoned`), and the invariants say what is true in them.
- Nothing is assumed of members, admins or cards: nobody has to pay, cancel, authenticate or approve, and a charge may always be declined.

## 4. Where code and documentation disagree

Each run checks one sentence of the repository and TLC refutes it by the code as it is.

| Run | The repository says | What the code does (shortest trace) |
|---|---|---|
| `group_lost` | `group-cancel.ts:198-201`: the settlement is failed before the joiners are cancelled, so the webhook cannot charge for beds about to be released | the webhook commits between the cleanup's read of the row and its child loop: joiners are marked PAID, cancelled by id, and with the status read earlier no refund is planned |
| `credit_twice` | `bookings/[id]/page.tsx:565-566`: credit nets off the price, amount due = finalPriceCents - creditAppliedCents | create-payment-intent (line 241) asks for the whole `finalPriceCents` and its Payment row knows no applied credit: `BeginBooking` with credit, `CommitBooking`, `MintIntent`, `CardPays`, and the member has paid the price and spent the credit; a later cancellation gives none of it back |

Met while modelling, in the models, without a run of their own:
- `docs/DOMAIN_INVARIANTS.md:671-677` says per-delta credit notes sum exactly to the refunded total. Xero makes a note, its answer is lost and the row
  fails without a link; the next refund's delta has another watermark, hence another key, and covers the first note's cents again. `NotesWithinLedger`
  therefore speaks of single notes only.
- `member-credit.ts:150-156` and `docs/DOMAIN_INVARIANTS.md:581-588` have a reduction settled by credit reserved on the payment rows. The card refund after it
  writes the row's refunded cents as the greater of what it had seen and the refund ledger (`boundedRefundedAmountCents`,
  `payment-transactions.ts:113-118`), which knows no credit: of 3 paid, 1 returned as credit and 1 to the card leave a row that shows 1 refunded, and
  the cancellation gives back more than was left. A card reduction that has committed and is not yet recorded is not reserved either.
- `booking-modification-settlement.ts:112-114` says a refund is replayed, never re-minted. It holds for equal slices only: when the answer is lost and charge.refunded
  is recorded before the recovery divides what is owed, the slices and their keys differ and the member is refunded twice (`reminted`).
- `payment-recovery.ts:1193-1197` says of a newer increase that its intent is the whole truth. It is made for its own difference only, so the
  older increase, withdrawn by it, is never billed (`Replaces`).
- A crash between an edit's commit and its refund or intent leaves no row from which it could be resumed (`crashed`).
- A recovery run that has withdrawn a newer bill (`payment-recovery.ts:1244-1254`) and fails before its own row is written is dropped as outdated
  when it is tried again, because of that very bill: both are gone (`GivesUp`; it takes two faults).
- Recovering an additional intent repeats the request's idempotency key with other metadata (`payment-recovery.ts:1234-1244`), which Stripe refuses;
  an intent that was made and not recorded is so never recovered (`MintIntent`), where `booking-modification-settlement.ts:203-206` expects the same intent again.
- A refund takes the newest captures first, among them one that was withdrawn and waits to go back whole (`borrowed`): the member gets
  only one of the two. A failure to record a slice, after earlier ones were recorded, owes the whole reduction again (`RecordSlice`).
- A declined additional payment is FAILED with its intent open, and is neither withdrawn by a later increase nor voided by the cancellation (`Superseded`,
  `Outstanding`); its webhook may have read a PAID booking that is cancelled when it writes (`raced`).
- `booking-create.ts:562-564` says AWAITING_REVIEW holds capacity, so capacity must be verified; `createDraftBooking` (line 108) creates such a booking under
  the lodge's lock (line 155) but without the check: `CreateConfirmed`, `CreateDraft`, and the night is over capacity. `CheckedFit` counts it among the unchecked.
- `cron-confirm-pending.ts:350-352` says the claim is released if the charge cannot complete; the claim has erased the window, so a crash before the
  charge leaves CONFIRMED with beds, unpaid, that no cron selects. `ClaimResolves` is checked without crashes (`split`) for that reason.
- `docs/email-message-audit.md:510-516` speaks of restored credit to members whose booking is cancelled; the unpaid cancellation, the release of a hold and a
  late transfer that finds no beds give applied credit back nowhere (`WriteUnpaid`, `ReleaseHold`, `ApplyWithoutBeds`).
- The unpaid cancellation writes FAILED over a payment that was settled after its look at the evidence (`booking-cancel.ts:602`, `overwritten`); a further
  event of the same invoice then mints credit, and the alert is the only trace of the rest.
- An allocation in Xero clamps the payment's `creditAppliedCents` to its amount (`credit-note-repairs.ts`, the mirror in `AllocateInXero`), so a
  cancellation afterwards may give back less than was applied.
- `switch-to-internet-banking/route.ts:147` says the intent is voided so the member cannot be charged by card as well; a capture Stripe will
  not void may land before the transaction, which re-reads nothing: `Capture`, `ReadSwitch`, `MarkPaid`, `WriteSwitch`, and a paid booking
  owes again.
- `confirm-pending-guests/route.ts:359-361` says that it charges under the same Stripe idempotency key as the cron, so that the two can never double-charge
  the same booking. The two requests differ in their metadata (lines 369-374 against `cron-confirm-pending.ts:551-555`), so Stripe refuses the second
  instead of answering it. When the answer to the admin's charge is lost, the cron is refused every three hours; it never learns of the money
  from the key, and once Stripe has forgotten the key it charges again: `AdminClaim`, `Charge` (captured, answer lost), `Release`, `KeyExpires`,
  `CronClaim`, `Charge`. The same follows the desk's lost answer or crash when nobody but the admin tries again within the day, and an intent that wants the customer and
  is authenticated later: the webhook may have no row to find it by, and the key's day passes. `SecondCaptureExplained` says that there is no other way.
- A second capture of a booking that is PAID is taken in silence (`payment-reconciliation.ts`, `MarkSettles`), and the cancellation settles at most the
  price (`booking-cancel.ts:850`): the other capture stays with the lodge (`CancelPaid`, a cause of `OrphansHaveACause`). Likewise a refund
  because the lodge is full is taken from the newest row with money left, not from the row of the capture it is for (`ReturnPriceOf`).
- charge-saved-method writes PENDING by id over a claim too, when the card wants the customer (`DeskFails`). The claim has taken the window, the release that
  follows finds nothing CONFIRMED to release, and the booking is PENDING without a window, which neither the cron nor the admin's route selects
  (an exception of `WindowIsKept`).
- `confirm-pending-guests/route.ts:414-416` leaves the booking "for the Stripe webhook to resolve"; the route keeps no row, so the webhook only
  warns and answers 200: `AdminClaim`, `Charge`, `Authenticate`, `Release`, `Deliver`, `HookFinds` (a cause of `OrphansHaveACause`).
- waitlist-confirm settles a free offer in a second transaction with neither lock nor check (`SettleFreeOffer`): the same silent
  overbooking as by `CreateDraft`, by another path.
- `confirm-pending-guests/route.ts:443` has the webhook always finishing the promotion; one that comes before the row is written
  is answered and gone (`HookFinds`).
- charge-saved-method writes PENDING by id over a booking that may be paid or cancelled (`revived`).
- A late webhook for a booking paid and cancelled since returns the capture in full, the part the policy kept too.
- A recovery run taken for dead writes its failure from the attempts it once read, and can so hide that another run's attempt was the last
  (`silenced`).
- A retry of an operation whose own retry failed is no longer in delta mode (`queued` is false on the row a retry starts), and asks for the
  amount the first row asked for. The note's payment is keyed differently by the handler and by the repair, so Xero may be asked for it twice.
- The group's re-settlement writes the settlement row by upsert (`group-settlement.ts:255`, `:336`) and can overwrite one that became SUCCEEDED
  meanwhile, and `createGroupSettlementIntent` asks neither whether the organiser's booking stands nor whether the group is open; a later
  cancellation then refunds the intent the row names now, or finds nothing to refund. Two settlements suffice, without a fault: the first capture pays
  a joiner while the row already names the second, captured intent, which the cancellation refunds (`strayed`).
- `group-settlement.ts:243-253` says `(amount, supersededIntentId)` is unique per epoch of a settlement, so that no idempotency key comes twice. A settlement by bank
  sets the row's intent to null (`:348`), so the next card settlement of the same total uses the key of the first one again, is given the
  captured intent, and pays another joiner with money that was used. The same happens when the cancellation's FAILED is written over a SUCCEEDED row
  (`group-cancel.ts:215`), after a refund whose row is no longer SUCCEEDED, and when a handler applies a capture that another decided to return:
  Stripe still calls it succeeded (`reused`). These take a bank settlement or a fault and three or four settlements, more than the runs have; they were met
  as counterexamples to `PaidByItsIntent` without its exception on such larger instances, when its proof failed there.
- `payment-recovery.ts:1039-1086` divides what is owed anew when a run takes a refund that failed halfway. The row's refunded cents are capped by the refund
  ledger and do not add to it what an earlier reduction reserved as credit (`payment-transactions.ts:113-118`, `:1040-1101`). After a reduction of 6 to credit, one of 8 to
  the card, 4 of it from each of two rows, of which one is recorded and the other fails, the new plan asks for the recorded 4 again, under the same
  key; Stripe answers with the refund it made, and 4 of 8 went back (`repeated`). It takes three edits, and was met when the proof of
  `ReductionsAreReturned` failed there.
- A group switched from bank to card keeps a payable invoice; joiners who come after the group was paid can never be settled; the
  branch that hands out the same intent again does not restart the reaper's clock.
- The replay of a refund plan is due at once (`group-cancel.ts:391`) and skips joiners the cleanup has not yet cancelled; their
  mirrors are then never written (`skipped`).
- `xero-inbound-reconciliation.test.ts:1750` has two payments share one invoice's cash; `Payment.xeroInvoiceId` is unique (`schema.prisma:1543`) and
  `invoice-paid-effects.ts:488` writes it, so two rows cannot name one invoice; the model has one payment for each invoice.
- BUMPED is in the schema and in `docs/STATE_MACHINES.md`; no handler writes it. A bump is CANCELLED.

## 5. The proofs

Every theorem holds for every value of the constants under the named assumptions (`...Assumption` in the module that declares
the constants): a finite set of guests who sleep within their booking, subsets and naturals of the right kind, cancellers
distinct from workers, at least one part and one attempt, positive refunds and prices, finitely many bookings and
adjustments of a member and joiners of a group (amounts are added up over them). TLC evaluates all of them in the runs.

| Theorem | States | Argument |
|---|---|---|
| `TypeCorrect` | `[]TypeOK` of BookingCapacity | inductive; one lemma per group of handlers (`MemberType` ... `RestType`) |
| `AdmittedBookingsFit` | `[]CheckedFit` | below |
| `BumpsHaveAReason` | `BumpsAccounted` | below |
| `OnlyThreeRevive` | `CancelledStaysCancelled` | below |
| `SecondCapturesAreExplained`, `RetriesFindTheMoney` | `[]SecondCaptureExplained`, `[]RetryFindsTheMoney` | `IInv` of CardChargeProofs, below |
| `WindowsAreKept`, `PaidBookingsHaveMoney` | `[]WindowIsKept`, `[]PaidIsCaptured` | the same |
| `CancellationSettlesOnce`, `ClosedOperationsAreRecorded` | `[]SettledOnce`, `[]ClosedIsRecorded` | `IInv` of CancelRefundProofs |
| `ImplementsDebt` | `Spec => DebtSpec` | every step of the detailed specification is a step of `RefundDebt` or a stutter |
| `CardChargeProofs!TypeCorrect`, `CancelRefundProofs!TypeCorrect` | `[]TypeOK` | inductive, one lemma per group of actions |
| `OrphansAreExplained` | `[]OrphansHaveACause` | below |
| `RefundNotesProofs!TypeCorrect` | `[]TypeOK` | inductive with `RowsInUse`: a row a worker is at is in use; the running total `covered` by *Totals* below |
| `LinksAreReal`, `NoNoteBeyondTheLedger`, `UnpaidNotesAreKnown` | `[]LinksMatchNotes`, `[]NotesWithinLedger`, `[]UnpaidNoteIsKnown` | below |
| `GroupSettlementProofs!TypeCorrect` | `[]TypeOK` | inductive; every sum over a set of joiners is at most the sum over all |
| `PaidForReal`, `MoneyPlaced`, `MirrorsFollow` | `[]PaidByItsIntent`, `[]MoneyIsPlaced`, `[]MirrorsFollowThePlan` | below |
| `OutcomesStand` | `ClosedStaysClosed` of GroupSettlement | below |
| `CreditIsCovered` | `[]NeverOverdrawn` | inductive with the shapes: what a creation may spend is in the balance when it commits |
| `MemberCreditProofs!TypeCorrect` | `[]TypeOK` | *Totals* below |
| `EditPaymentsProofs!TypeCorrect` | `[]TypeOK` | inductive as a part of `AInv`, with what refunds at work have asked of Stripe (`Known`) and the order of the rows (`Ages`) |
| `ReductionsReturned` | `[]ReductionsAreReturned` | below |
| `BillsAreCollectable`, `StrayMoneyComesBack` | `[]IncreasesAreCollectable`, `[]MoneyComesBack` | below |
| `CreditRestoredOnce`, `CreditMintedWithinCash`, `MoneyPaidBackOnce`, `LateCashIsPlaced` | `RestoredOnce`, `[]MintsWithinCash`, `[]PaidBackOnce`, `[]CashIsPlaced` | below |

**Beds.** `CheckedFit` with `TypeOK` is inductive. Two lemmas carry it. `NobodyAdmitted`: a step after which no new booking is admitted, the
capacity is the same and no night leaves `cut` preserves it, because the beds taken are monotone in the set of bookings
(`BedsMonotone`). `OneAdmitted`: a step that admits one booking for which `Fits` held preserves it, because the admitted bookings are
among the holders the check counted; and on nights outside its span the booking takes no bed (`NoBedOutsideSpan`). Each action is one of
the two, except `CreateConfirmed`, whose children hold nothing, and `SetCapacity`, which puts into `cut` exactly the nights it oversells.
`BumpsAccounted` follows: a bumped booking was a holder that did not fit, so on some night of its span the holders overflow
(`FullForAReason`); as the admitted ones fit there by `CheckedFit`, the night is in `cut` or an unadmitted holder is on it.

**Cancelled bookings.** Most handlers look at the status they write over, so the theorem is about those that do not. They act on what `jobs`,
`payment` or a parent's creation tells them, and `CInv` says that a booking that does not exist yet has none of the three: no
payment, no handler at work on it, no children. Otherwise the creation of a party could overwrite a cancelled child. `Lawful` says what every
step does to the bookings that exist and to those that do not, and both the invariant and the theorem follow from it.

**Charges.** Which captures exclude another one depends on what Stripe remembers, so the invariant ties the two together. `IntentsAgree` relates an intent, its
capturer, its event and its row; `KeyAgrees` says that the key holds the answer and the request of the last intent, and that a charger that heard an
answer heard that one; `OneClaim` that a claim takes the window, so that the cron and the admin never charge together,
unless the key already says that the card wants the customer. `CapturesKept` is the heart: what a
charger captured is the last intent and the key still says so, until the booking is `Closed` (nobody charges and it is not PENDING, so nobody will), unless it
is not the cron's and an answer was lost or the process stopped; the cron's capture of a PENDING booking keeps its window. When nothing was lost, a success
under the key has a charger that will settle it, so a PENDING booking's key never ends over one. `ReturnedIsCancelled` says that money goes back only from a
cancelled booking, or one that was revived.

**Refunds.** `ClaimDecides` links the booking, the credit and the operation; `NothingBeforeClaim` says nobody refunds without an operation;
`PartsOnce` that no part goes back twice and the ledger records only what did; `InOrder` that an actor at part *n* has all parts below *n*
in the ledger, however many others are at work. So an actor past the last part has them all in the ledger, which gives `ClosedIsRecorded` and
the refinement of `Settle`; `Pay` is refined by the first `RefundPart` of a part and by nothing else.

**Orphans.** `Messenger` says of each intent who will look at its captured money next: Stripe's event is still to be answered, or its handler is at work, or the
booking is PAID with its row, or an admin knows; else it is `adrift`; and a marker is never left without a handler unless the intent is. Each action passes
the money on to the next of these or records a cause, so none is missing from the list, for any number of intents, lost answers, crashes and repetitions.

**Notes.** A worker acts on a ledger and on links it read steps ago, so the invariant is about what workers carry (`JobsAreSound`): the total one
saw is at most what is refunded now, the request it sends is within that watermark, and past Xero's answer it carries a note Xero
has. Two notes with one key are one because Xero refuses a key with another body. For unpaid notes, `RowsAreHeld` and `JobsAreHonest` add
that no row has two workers and that whoever records without an error has paid; they hold until a retry adopts a row somebody else ran,
which is the exception the property states.

**Joiners.** The handlers that write a joiner's status look at it under the lock, except two that write by id: a joiner's own cancellation and
the cleanup's loop. These are the property's two exceptions; that the second is one needs `OnlyAfterCancel`, that the cleanup only ever runs for a
cancelled organiser, first time and resumed.

**Credit.** The rows are kept per booking, so the invariant is too (`Sound`): nothing comes back, is refunded or minted before the booking is
CANCELLED, and a refund held as credit shows as REFUNDED unless the unpaid cancellation overwrote it. `Places` says what handlers at work may
name, so that a claim or an application is about a booking that exists. Then the claim, the only step that restores, finds the booking
not cancelled and hence nothing given back: `RestoredOnce`. A late transfer mints only for a payment that never settled, and a refund needs one
that did: `PaidBackOnce`. Credit minted is within what a handler read of the cash, which only grows: `MintsWithinCash`.

**Modification.** An increase that was replaced has been replaced for ever, but by which newer one changes with every step: the
newer may itself be withdrawn, dropped, or fail. `Outranks(f, e)` names the four ways in which *f* has taken the place of *e*, all of them stable except by
passing it on, and `Traced` follows a bill by the place of its request. `BInv` adds that row, intent and operations of an edit agree (`Unbilled`, `Billed`) and
that ranks of rows are those of their registration, so a row registered later is above every row there was when an operation was enqueued. For stray money
`Whereabouts` follows each intent from its capture: still at Stripe, in the mail, in a handler that read it, owed back, or returned in one piece.
That no other refund took from it (`Untouched`, unless `borrowed`) keeps the return possible, which is what `Aimed`, about the plans of refunds at
work, is needed for.

**Totals.** The code keeps amounts that are sums of rows: a member's balance, the cents covered by notes, a refund's plan. `SumTheorems` proves what
those proofs need of a sum over a finite set: the empty sum, one member more, one value changed, a union of disjoint sets, monotonicity, and that a part
or a single member is at most the whole. The induction on finite sets is stated without an operator parameter (a family of subsets that holds the empty
set and is closed under adding a member holds the set itself), so that the provers can use it. `Balanced` (MemberCredit) and `TotalIsRight` (RefundNotes) are
then inductive: a step writes the rows of one booking, one adjustment or one link, and moves the total by the difference. In RefundNotes this needs
that no link is recorded twice; in MemberCredit, that a booking which does not exist yet has no rows (`NothingSpent`).

**Group money.** `MInv`: what a request, the row or a handler asks for is more than nothing (`AmountsReal`), so an application that finds the cost it expects pays
somebody; and a row that is SUCCEEDED or refunded, or was when a cleanup or a replay read it, has paid somebody (`SettledByPayment`). A handler that
finds the row SUCCEEDED and does nothing is then in the stated exception, and every other one pays, returns the capture or leaves the event.
**Mirrors.** `RInv` follows the one refund of a group. One intent at most pays while the row names it (`PayOnce`), the row names the payer as
long as that is not `strayed` (`RowNamesPayer`), the plan, once recorded, is of joiners that were paid (`PlanOfPaid`), and what a cleanup or replay
has in hand is that plan and that intent (`RunView`, `ReplayView`). So a mirror, whoever writes it, follows a refund of the joiner's own intent.
**Paid by its intent.** Between the capture and the application the joiners may change, and the row may name another intent. `PInv` says of an intent
offered by the row that its amount is the row's (`Offers`), of the events under way that they are of captures (`EventsReal`), and of an intent that has paid or has gone back
that nothing offers it again (`Done`) while it is not `reused`. `Apply` compares the joiners' cost with the amount under the lock, which makes the sum
right when it is paid; `Done` keeps it right afterwards.

**Reductions.** `Repaid` follows a reduction through the life of its operation. Without one (`Direct`), Stripe has made refunds of the plan only, all of them recorded
but the one at work. Owed (`Owing`), what is owed and what is recorded make up what is due, or more if an answer was never heard. Taken up by a run
(`Following`), what was sent and what the frozen plan asks for, as a *set* of keyed refunds, make up what is due: here a key in both counts once, which is
`repeated`, the exception the proof brought to light. Done (`Closed`), what was sent is what is due. Under it lie the amounts (`Amounts`) and `Ages`, that the
rows' order has no ties, without which newest-first would not divide all of a refund.

Only model-checked: the liveness properties (`HoldWindowResolves`, `ClaimResolves`, `DebtResolves`, `BooksConverge`,
`CleanupFinishes`, `ChildrenResolve`, `PlanIsCarriedOut`), because liveness under fairness is out of the prover's reach. Every invariant, every action property and the
refinement that the passing runs check is stated by a theorem. No module uses recursion.

## 6. Abstractions and limits

- *Amounts* do not exist in the booking and charge models: `Free` is a constant set, a refund is a set of parts, the policy may grant all, part
  or nothing. RefundNotes, GroupSettlement, MemberCredit and EditPayments count cents. Promo codes and change fees are in no module.
- *Database writes* outside a transaction in CardCharge succeed or the process dies with them. In CancelRefund the best-effort closing write
  may fail by itself, because the code catches that.
- *Stripe keys* in CardCharge end at any time no charger is at work, whatever they hold, except while the cron's own capture of a PENDING booking
  with its window is stored: the cron selects such a booking every three hours. A process that is down for the rest of the key's day right after such a lost
  answer is outside the model. In the other modules recovery retries end within the day.
- *CardCharge*: the price and the saved card stay as they are while the booking is PENDING, so two requests of one handler are the same request; captures are all of the
  price, and `kept` stands for a capture of which the policy has dealt, whether a part or nothing went back. Stripe answers a key at once: two requests
  at the same moment, of which it turns one away, are a lost answer. That a due event is handled in the end is not checked: with two intents TLC's liveness
  check takes longer than the runs should; a claim left behind, which would stop it, violates `OrphansHaveACause`.
- *charge-saved-method* is in CardCharge only. It reads the capacity before it charges and is re-checked by `markBookingPaymentSucceeded`,
  which BookingCapacity has.
- *A provisional booking with neither saved card nor request*, whose window has passed, only raises an alert in the code. It stays PENDING,
  holds no beds, and `HoldWindowResolves` does not speak of it.
- *PAID in CancelRefund* stands for any booking with captured money: the paid branch does not distinguish.
- *Emails, audit rows, Xero enqueues, bed allocations* written by the modelled handlers are left out: no modelled guard reads them.
- *The waitlist's age rules, minimum stays and member-night conflicts* are guards that only refuse. Leaving them out admits more behaviours.
- *Xero* honours an idempotency key for ever and refuses one that comes with another body; no live outbox worker is RUNNING for longer than
  the quarter of an hour after which an operator may reset it; enqueueing is atomic. One payment stands for all: the outbox keeps rows of different payments apart.
- *Groups*: only those whose organiser pays. Left out: non-members' join requests, closing and reopening, price edits of a joiner's booking, a paid
  joiner's own cancellation, the tier that returns nothing, the retry limit of the recovery job (RefundDebt has it), the combined invoice's
  credit notes, a join that races the cancellation. Capacity is nondeterministic (`RefuseSettlement`). One settlement request of the
  organiser is at work at a time, and a resumed cleanup or replay does not overlap the first run within its grace of 15 and 10 minutes.
- *Credit*: one member; fixed cancellation fees are in the share (a tier gives all, half or none); an invoice has one payment, and events without amounts
  are left out; so are the credit of modified bookings (in EditPayments) and of ended memberships, and the switch of a credited booking to a transfer. Xero's allocations
  are bounded by `MaxAllocated`, cash by `MaxCash`. Capacity is nondeterministic.
- *Edits* in EditPayments are changes of price; which dates and guests cause them, and the capacity check, are left out, and so are the change fee, Xero's
  documents and e-mails. The price stays at least 1, and only a booking with something left to refund is cancelled (the other branch is
  BookingCapacity's). `SyncRefunds`, `ReturnWithdrawn`, `ReturnLate` and `Confirm` are one step each; the attempts of operations and the reclaim
  after 30 minutes are CancelRefund's, lost and repeated events CardCharge's. `Register` fails only before it writes.
- Not modelled at all: the components section 1 lists without a module, for the reasons in `PROJECT.json`.

## 7. Plan

In this order; each with its own MC module, runs and, where named, theorems.

1. *The beds of an edited booking*, on top of BookingCapacity's arithmetic: dates and guests change under the lock; extends `CheckedFit` to stays
   that change. Its money is in EditPayments.
2. *The rest of the Xero outbox*: invoices, supplementary invoices and credit-balance notes, on RefundNotes' claim, retry and reset; abstract
   specification *at most one document for each key*.
3. *The rest of the recovery queue*: refund requests decided by an admin.
4. *Requests, quotes and payment links*; *nomination*; *membership cancellation*; *promo counter*; *bed allocation*; *e-mail retry*.
5. Theorems: of the safety properties that runs check none is left. Refinements come next, with the two abstract specifications below.

Abstract specifications worth stating besides `RefundDebt`: a *lodge* whose bookings are granted or refused in one step, for the checked part of
BookingCapacity, and a *charge* that is made once and applied or returned, for the cause-free behaviours of CardCharge. Also open there: the
liveness of the webhook with two intents.
