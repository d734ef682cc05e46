----------------------- MODULE GroupSettlementProofs -----------------------
(***************************************************************************)
(* What TLAPS proves of GroupSettlement, for any number of joiners, prices, *)
(* settlements, crashes and errors: no step of the desk, a webhook, the     *)
(* reaper, the organiser's cancellation or the recovery job takes a         *)
(* cancelled joiner back, or a paid one's bed; captured money has paid      *)
(* somebody or has gone back; what paid a child is what was captured; and   *)
(* the mirrors are the recorded plan's, which one refund carried out.       *)
(***************************************************************************)
EXTENDS GroupSettlement, SumTheorems, TLAPS

(* Each joiner has a status. *)
Joiners == child \in [Children -> Active \union {"none", "CANCELLED"}]

(* The cleanup cancels children whatever their status is, and so must only  *)
(* ever run for a cancelled organiser booking, first time and resumed; the  *)
(* group is closed by it.                                                   *)
OnlyAfterCancel ==
  /\ host \in {"live", "CANCELLED"}
  /\ run.at # "idle" => host = "CANCELLED"
  /\ group # "OPEN" => host = "CANCELLED"

(* The inductive invariant. *)
IInv == Joiners /\ OnlyAfterCancel

(* The initial state satisfies it. *)
LEMMA InitIInv == Init => IInv
BY DEF Init, IInv, Joiners, OnlyAfterCancel, NoRun

(* The part of the property that is about one step of one joiner. *)
StaysClosed(c) ==
  /\ child[c] = "CANCELLED" => child'[c] = "CANCELLED"
  /\ child[c] = "PAID" => \/ child'[c] = "PAID"
                         \/ /\ child'[c] = "CANCELLED"
                            /\ host = "CANCELLED" \/ c \in leaving

(* A step of the joiners themselves. *)
LEMMA JoinerStep ==
  ASSUME IInv, NEW c \in Children, Join(c) \/ ReadLeave(c) \/ WriteLeave(c)
  PROVE  IInv' /\ \A d \in Children : StaysClosed(d)
BY DEF IInv, Joiners, OnlyAfterCancel, StaysClosed, Join, ReadLeave, WriteLeave, calm,
       rooms, Settleable, Active

(* The organiser's request only takes children that wait into their beds.   *)
LEMMA DeskStepKeeps ==
  ASSUME IInv, DeskStep \/ CrashDesk \/ \E bank \in ByBank : StartSettlement(bank)
  PROVE  IInv' /\ \A d \in Children : StaysClosed(d)
<1> USE DEF IInv, Joiners, OnlyAfterCancel, StaysClosed, calm, rooms, stripe, ends, Active
<1>1. CASE CheckIntent
  BY <1>1 DEF CheckIntent, Commit, Committed
<1>2. CASE CommitChildren
  BY <1>2 DEF CommitChildren, Commit, Committed
<1>3. CASE RefuseSettlement \/ MintIntent \/ RecordSettlement
  BY <1>3 DEF RefuseSettlement, MintIntent, RecordSettlement
<1>4. CASE VoidSuperseded \/ Answer \/ QueueInvoice
  BY <1>4 DEF VoidSuperseded, Answer, QueueInvoice
<1>5. CASE CrashDesk
  BY <1>5 DEF CrashDesk
<1>6. CASE \E bank \in ByBank : StartSettlement(bank)
  BY <1>6 DEF StartSettlement
<1> QED BY <1>1, <1>2, <1>3, <1>4, <1>5, <1>6 DEF DeskStep

(* A payment settles the children that hold a bed; the rest of the handlers *)
(* and the clock leave the children alone.                                  *)
LEMMA PaymentStepKeeps ==
  ASSUME IInv,
         \/ \E i \in Intents : Capture(i) \/ Decline(i)
         \/ RaiseInvoice \/ PayInvoice \/ HandlerStep
         \/ \E h \in Handlers : CrashHandler(h)
         \/ Tick \/ DropTier
  PROVE  IInv' /\ \A d \in Children : StaysClosed(d)
<1> USE DEF IInv, Joiners, OnlyAfterCancel, StaysClosed, calm, rooms, stripe, ends, Active
<1>1. ASSUME NEW i \in Intents, Capture(i) \/ Decline(i)
      PROVE  IInv' /\ \A d \in Children : StaysClosed(d)
  BY <1>1 DEF Capture, Decline
<1>2. CASE RaiseInvoice \/ PayInvoice
  BY <1>2 DEF RaiseInvoice, PayInvoice
<1>3. ASSUME NEW i \in Intents, ReadSucceeded(i) \/ MarkFailed(i)
      PROVE  IInv' /\ \A d \in Children : StaysClosed(d)
  BY <1>3 DEF ReadSucceeded, MarkFailed
<1>4. CASE ReadPaidInvoice \/ ReturnCapture
  BY <1>4 DEF ReadPaidInvoice, ReturnCapture
<1>5. ASSUME NEW h \in Handlers, Apply(h)
      PROVE  IInv' /\ \A d \in Children : StaysClosed(d)
  <2>1. child' = child \/ child' = [c \in Children |-> IF c \in With({"CONFIRMED"})
                                                       THEN "PAID" ELSE child[c]]
    BY <1>5 DEF Apply, Settle
  <2>2. UNCHANGED <<host, group, run>>
    BY <1>5 DEF Apply
  <2> QED BY <2>1, <2>2 DEF With
<1>6. ASSUME NEW h \in Handlers, CrashHandler(h)
      PROVE  IInv' /\ \A d \in Children : StaysClosed(d)
  BY <1>6 DEF CrashHandler
<1>7. CASE Tick \/ DropTier
  BY <1>7 DEF Tick, DropTier
<1> QED BY <1>1, <1>2, <1>3, <1>4, <1>5, <1>6, <1>7 DEF HandlerStep

(* The reaper takes beds from children that hold one unpaid, and cancels    *)
(* children that never got one.                                             *)
LEMMA ReaperStepKeeps ==
  ASSUME IInv, ReaperStep \/ CrashReaper
  PROVE  IInv' /\ \A d \in Children : StaysClosed(d)
<1> USE DEF IInv, Joiners, OnlyAfterCancel, StaysClosed, calm, rooms, stripe, ends, Active
<1>1. CASE Scan \/ VoidReaped \/ CrashReaper
  BY <1>1 DEF Scan, VoidReaped, CrashReaper
<1>2. CASE Release
  BY <1>2 DEF Release, With
<1>3. CASE Expire
  BY <1>3 DEF Expire
<1> QED BY <1>1, <1>2, <1>3 DEF ReaperStep

(* The organiser's cancellation cancels children, but only after its own    *)
(* booking.                                                                 *)
LEMMA RunStepKeeps ==
  ASSUME IInv, OrganiserCancels \/ Resume \/ RunStep \/ CrashRun
  PROVE  IInv' /\ \A d \in Children : StaysClosed(d)
<1> USE DEF IInv, Joiners, OnlyAfterCancel, StaysClosed, calm, rooms, stripe, ends, Active
<1>1. CASE OrganiserCancels \/ Resume \/ CrashRun
  BY <1>1 DEF OrganiserCancels, Resume, CrashRun, NoRun
<1>2. CASE ReadGroup
  BY <1>2 DEF ReadGroup
<1>3. CASE VoidOpen \/ FailRow
  BY <1>3 DEF VoidOpen, FailRow
<1>4. CASE MakePlan \/ OweRefund
  BY <1>4 DEF MakePlan, OweRefund
<1>5. CASE RefundInline \/ FlipInline
  BY <1>5 DEF RefundInline, FlipInline
<1>6. ASSUME NEW c \in Children, CancelChild(c)
      PROVE  IInv' /\ \A d \in Children : StaysClosed(d)
  BY <1>6 DEF CancelChild
<1>7. CASE MarkGroupCancelled
  BY <1>7 DEF MarkGroupCancelled, NoRun
<1> QED BY <1>1, <1>2, <1>3, <1>4, <1>5, <1>6, <1>7 DEF RunStep

(* The recovery job writes mirrors and never a status. *)
LEMMA ReplayStepKeeps ==
  ASSUME IInv, ReplayStep \/ CrashReplay
  PROVE  IInv' /\ \A d \in Children : StaysClosed(d)
<1> USE DEF IInv, Joiners, OnlyAfterCancel, StaysClosed, calm, rooms, stripe, ends, Active
<1>1. CASE ReadPlan \/ ReplayRefund \/ ReplayFlip
  BY <1>1 DEF ReadPlan, ReplayRefund, ReplayFlip
<1>2. ASSUME NEW c \in Children, ReplayMirror(c)
      PROVE  IInv' /\ \A d \in Children : StaysClosed(d)
  BY <1>2 DEF ReplayMirror
<1>3. CASE ReplayDone \/ CrashReplay
  BY <1>3 DEF ReplayDone, CrashReplay
<1> QED BY <1>1, <1>2, <1>3 DEF ReplayStep

(* Every step keeps the invariant and every joiner's outcome. *)
LEMMA StepKeeps ==
  ASSUME IInv, [Next]_vars
  PROVE  IInv' /\ \A d \in Children : StaysClosed(d)
<1>1. CASE Next
  BY <1>1, JoinerStep, DeskStepKeeps, PaymentStepKeeps, ReaperStepKeeps, RunStepKeeps,
     ReplayStepKeeps DEF Next
<1>2. CASE UNCHANGED vars
  BY <1>2 DEF vars, IInv, Joiners, OnlyAfterCancel, StaysClosed
<1> QED BY <1>1, <1>2

(* The cleanup only runs for a cancelled organiser booking. *)
LEMMA Invariant == Spec => []IInv
<1>1. IInv /\ [Next]_vars => IInv'
  BY StepKeeps
<1> QED BY InitIInv, <1>1, PTL DEF Spec

(* Whatever the organiser, Stripe, Xero, the reaper and the recovery job do, *)
(* in whatever order and however often they crash: a cancelled joiner stays *)
(* cancelled, and a paid one loses the bed only to the organiser's          *)
(* cancellation or to the joiner's own, begun while it was unpaid.          *)
THEOREM OutcomesStand == Spec => ClosedStaysClosed
<1>1. IInv /\ [Next]_vars =>
        [\A c \in Children :
           /\ child[c] = "CANCELLED" => child'[c] = "CANCELLED"
           /\ child[c] = "PAID" => \/ child'[c] = "PAID"
                                  \/ /\ child'[c] = "CANCELLED"
                                     /\ host = "CANCELLED" \/ c \in leaving]_vars
  BY StepKeeps DEF StaysClosed
<1> QED BY Invariant, <1>1, PTL DEF Spec, ClosedStaysClosed

----------------------------------------------------------------------------
(* Types: what each request holds at each of its steps.                     *)

(* The steps of the settlement. *)
DeskSteps == {"idle", "check", "commit", "mint", "record", "void", "queue", "answer", "apply"}
(* Of the cleanup. *)
RunSteps == {"idle", "read", "fail", "mark", "plan", "owe", "refund", "flip", "cancel"}
(* Of the recovery job. *)
ReplaySteps == {"idle", "refund", "flip", "mirror"}

(* What a settlement request holds at each of its steps. *)
DeskShape ==
  /\ desk \in [at : DeskSteps, kids : SUBSET Children, late : SUBSET Children, total : Cent,
               old : Intents \union {None}, bank : BOOLEAN, pi : Intents \union {None}]
  /\ desk.at = "check" => desk.old \in Intents /\ ~desk.bank
  /\ desk.at = "mint" => ~desk.bank
  /\ desk.bank => desk.pi = None
  /\ desk.at \in {"record", "void"} /\ ~desk.bank => desk.pi \in Intents
  /\ desk.at = "answer" => desk.pi \in Intents

(* A handler of a card payment holds an intent, Xero's none. *)
HookShape ==
  \A h \in Handlers :
    /\ hook[h].at # "idle" => hook[h].of \in (IF h = "xero" THEN {Bank} ELSE Intents)
    /\ hook[h].at = "return" => h = "stripe"

(* The cleanup refunds an intent, for a settlement it read as paid. *)
RunShape ==
  /\ run \in [at : RunSteps, status : Statuses, intent : Intents \union {None}, amount : Cent,
              kids : SUBSET Children, billed : SUBSET Children, had : [Children -> Cent],
              view : Plans]
  /\ run.at \in {"owe", "refund", "flip"} =>
       run.intent \in Intents /\ run.status = "SUCCEEDED"

(* So does the recovery job. *)
ReplayShape ==
  /\ replay \in [at : ReplaySteps, intent : Intents \union {None}, amount : Cent,
                 todo : SUBSET Children]
  /\ replay.at \in {"refund", "flip"} => replay.intent \in Intents

(* The type invariant, made inductive. *)
Shapes == TypeOK /\ DeskShape /\ HookShape /\ RunShape /\ ReplayShape

----------------------------------------------------------------------------
(* Amounts.                                                                 *)

(* The children of any set cost an amount that may be held. *)
LEMMA PriceSums ==
  ASSUME NEW T \in SUBSET Children
  PROVE  Sum(Price, T) \in Cent /\ Sum(Price, T) \in Nat
<1>1. \A c \in Children : Price[c] \in Nat
  BY PriceAssumption
<1>2. Sum(Price, T) \in Nat /\ Sum(Price, T) <= Sum(Price, Children)
  BY <1>1, ChildrenAssumption, SumPart
<1>3. Sum(Price, Children) \in Nat
  BY <1>1, ChildrenAssumption, SumNat
<1> QED BY <1>2, <1>3 DEF Cent

(* Prices, and what is not more than one. *)
LEMMA CentFacts ==
  /\ 0 \in Cent /\ Cent \subseteq Nat
  /\ \A c \in Children : Price[c] \in Nat \ {0} /\ \A n \in Nat : n <= Price[c] => n \in Cent
<1>1. \A c \in Children : Price[c] \in Nat /\ Price[c] \in Nat \ {0}
  BY PriceAssumption
<1>2. Sum(Price, Children) \in Nat
  BY <1>1, ChildrenAssumption, SumNat
<1>3. \A c \in Children : Price[c] <= Sum(Price, Children)
  BY <1>1, ChildrenAssumption, SumMember
<1> QED BY <1>1, <1>2, <1>3 DEF Cent

(* So may what a plan returns. *)
LEMMA PlanSums ==
  ASSUME NEW p \in Plans
  PROVE  Planned(p) \in Cent /\ Planned(p) \in Nat
<1>1. \A c \in Children : p[c] \in Nat /\ Price[c] \in Nat /\ p[c] <= Price[c]
  BY CentFacts DEF Plans
<1>2. Sum(p, Children) \in Nat
  BY <1>1, ChildrenAssumption, SumNat
<1>3. Sum(p, Children) <= Sum(Price, Children)
  BY <1>1, ChildrenAssumption, SumMonotone
<1>4. Sum(Price, Children) \in Nat
  BY <1>1, ChildrenAssumption, SumNat
<1> QED BY <1>2, <1>3, <1>4 DEF Cent, Planned

(* A plan that returns nothing is no plan. *)
LEMMA EmptyPlan ==
  ASSUME NEW p \in Plans
  PROVE  (Planned(p) = 0) <=> (p = Nothing)
<1>1. \A c \in Children : p[c] \in Nat
  BY CentFacts DEF Plans
<1>2. ASSUME Planned(p) = 0, NEW c \in Children
      PROVE  p[c] = 0
  <2>1. p[c] <= Sum(p, Children)
    BY <1>1, ChildrenAssumption, SumMember
  <2> QED BY <2>1, <1>1, <1>2 DEF Planned
<1>3. ASSUME p = Nothing
      PROVE  Planned(p) = 0
  <2>1. \A c \in Children : p[c] = 0
    BY <1>3 DEF Nothing
  <2> QED BY <2>1, ChildrenAssumption, SumZero DEF Planned
<1> QED BY <1>2, <1>3 DEF Nothing, Plans

(* The empty plan. *)
LEMMA NothingIsPlan == Nothing \in Plans /\ Nothing \in [Children -> Cent]
BY CentFacts DEF Nothing, Plans

(* The policy never returns more than the price. *)
LEMMA RefundIsBounded ==
  ASSUME NEW c \in Children, NEW t
  PROVE  RefundOf(c, t) \in Cent /\ RefundOf(c, t) <= Price[c] /\ RefundOf(c, t) \in Nat
<1>1. Price[c] \in Nat
  BY PriceAssumption
<1>2. RefundOf(c, t) \in Nat /\ RefundOf(c, t) <= Price[c]
  BY <1>1 DEF RefundOf
<1> QED BY <1>2, CentFacts

(* The plan the cleanup computes. *)
LEMMA NewPlanIsPlan == NewPlan \in Plans
BY RefundIsBounded, CentFacts, PriceAssumption DEF NewPlan, Plans

(* A new intent is one that was not used. *)
LEMMA NewIntentExists ==
  ASSUME \E i \in Intents : intent[i].st = "none"
  PROVE  NewIntent \in Intents /\ intent[NewIntent].st = "none"
<1> DEFINE T == {i \in Intents : intent[i].st = "none"}
<1>1. T \subseteq Nat /\ T # {}
  BY TriesAssumption DEF Intents
<1>2. PICK i \in T : \A j \in T : <<j, i>> \notin OpToRel(<, Nat)
  BY <1>1, NatLessThanWellFounded, WFMin, Zenon
<1>3. \A j \in T : ~(j < i)
  BY <1>1, <1>2, Zenon DEF OpToRel
<1>4. ASSUME NEW j \in T
      PROVE  i <= j
  <2>1. i \in Nat /\ j \in Nat
    BY <1>1
  <2>2. ~(j < i)
    BY <1>3
  <2> HIDE DEF T
  <2> QED BY <2>1, <2>2
<1>5. \E k \in Intents : intent[k].st = "none" /\
               \A j \in Intents : intent[j].st = "none" => k <= j
  BY <1>4
<1> QED BY <1>5 DEF NewIntent

(* The initial state. *)
LEMMA InitShapes == Init => Shapes
<1> SUFFICES ASSUME Init PROVE Shapes
  OBVIOUS
<1>1. /\ 0 \in Cent /\ Nothing \in Plans /\ Nothing \in [Children -> Cent]
      /\ 0 <= MaxTries /\ MaxTries \in Nat /\ MaxFaults \in Nat
  BY CentFacts, NothingIsPlan, TriesAssumption, FaultsAssumption
<1> USE DEF Init, AtRest, NoHook, NoReap, NoRun, NoRefund, NoReplay, Statuses, Refunded,
            Handlers
<1>2. TypeOK
  BY <1>1 DEF TypeOK, Active, None, Bank
<1>3. DeskShape /\ HookShape
  BY <1>1 DEF DeskShape, HookShape, DeskSteps, None
<1>4. RunShape /\ ReplayShape
  BY <1>1 DEF RunShape, ReplayShape, RunSteps, ReplaySteps, None
<1> QED BY <1>2, <1>3, <1>4 DEF Shapes

(* A step of a joiner. *)
LEMMA JoinerShapes ==
  ASSUME Shapes, NEW c \in Children, Join(c) \/ ReadLeave(c) \/ WriteLeave(c)
  PROVE  Shapes'
<1> USE DEF Shapes, TypeOK, DeskShape, HookShape, RunShape, ReplayShape, calm, rooms, stripe,
            ends, past, Active, Settleable
<1>1. CASE Join(c)
  BY <1>1 DEF Join
<1>2. CASE ReadLeave(c)
  BY <1>2 DEF ReadLeave
<1>3. CASE WriteLeave(c)
  BY <1>3 DEF WriteLeave
<1> QED BY <1>1, <1>2, <1>3

(* A settlement starts. *)
LEMMA StartShapes ==
  ASSUME Shapes, NEW bank \in BOOLEAN, StartSettlement(bank)
  PROVE  Shapes'
<1> DEFINE kids == With(Settleable)
           late == With({"PAYMENT_PENDING"})
           total == Sum(Price, kids)
<1>1. kids \in SUBSET Children /\ late \in SUBSET Children
  BY DEF With
<1>2. total \in Cent
  BY <1>1, PriceSums
<1>3. tries + 1 \in 0..MaxTries
  BY TriesAssumption DEF StartSettlement, Shapes, TypeOK
<1>4. desk' = [at |-> IF ~bank /\ row.intent # None /\ row.amount = total
                        THEN "check" ELSE "commit",
                 kids |-> kids, late |-> late, total |-> total,
                 old |-> row.intent, bank |-> bank, pi |-> None]
  BY DEF StartSettlement
<1> HIDE DEF kids, late, total
<1>5. DeskShape'
  BY <1>1, <1>2, <1>4 DEF Shapes, TypeOK, DeskShape, DeskSteps, StartSettlement
<1> QED BY <1>3, <1>5 DEF Shapes, TypeOK, HookShape, RunShape, ReplayShape,
           StartSettlement, calm, rooms, stripe, past

(* The bookings. *)
Bookings == [Children -> Active \union {"none", "CANCELLED"}]
(* The intents at Stripe. *)
PaymentIntents == [Intents -> [st : {"none", "open", "captured", "canceled"}, amount : Cent,
                 from : Intents \union {None}, given : BOOLEAN, back : BOOLEAN]]
(* The events under way. *)
Events == {<<"paid", Bank>>} \union ({"succeeded", "failed"} \X Intents)
(* The settlement row. *)
Rows == [status : Statuses, intent : Intents \union {None}, amount : Cent,
              bank : BOOLEAN, due : BOOLEAN]

(* What is done to one intent leaves it an intent. *)
LEMMA IntentEdits ==
  ASSUME NEW f \in PaymentIntents, NEW i \in Intents
  PROVE  /\ [f EXCEPT ![i].given = TRUE] \in PaymentIntents
         /\ [f EXCEPT ![i].back = TRUE] \in PaymentIntents
         /\ [f EXCEPT ![i].st = "captured"] \in PaymentIntents
         /\ [f EXCEPT ![i].st = "canceled"] \in PaymentIntents
<1>1. [f EXCEPT ![i].given = TRUE] \in PaymentIntents
  BY DEF PaymentIntents
<1>2. [f EXCEPT ![i].back = TRUE] \in PaymentIntents
  BY DEF PaymentIntents
<1>3. [f EXCEPT ![i].st = "captured"] \in PaymentIntents
  BY DEF PaymentIntents
<1>4. [f EXCEPT ![i].st = "canceled"] \in PaymentIntents
  BY DEF PaymentIntents
<1> QED BY <1>1, <1>2, <1>3, <1>4

(* So does making it. *)
LEMMA IntentMinted ==
  ASSUME NEW f \in PaymentIntents, NEW i \in Intents, NEW n \in Cent,
         NEW j \in Intents \union {None}
  PROVE  [f EXCEPT ![i] = [@ EXCEPT !.st = "open", !.amount = n, !.from = j]]
           \in PaymentIntents
BY DEF PaymentIntents

(* A request that ended. *)
LEMMA DeskDone ==
  ASSUME desk' = AtRest
  PROVE  DeskShape'
BY CentFacts DEF DeskShape, AtRest, DeskSteps, None

(* The row is left alone, or its payment failed. *)
RowFails == row' \in {row, [row EXCEPT !.status = "FAILED", !.due = FALSE]}

(* Then it keeps what it is about. *)
LEMMA FailedRow ==
  ASSUME Shapes, RowFails
  PROVE  /\ row' \in Rows /\ row'.status \in {row.status, "FAILED"}
         /\ row'.intent = row.intent /\ row'.amount = row.amount /\ row'.bank = row.bank
BY DEF Shapes, TypeOK, RowFails, Rows, Statuses

(* Faults are bounded. *)
LEMMA FaultCount ==
  ASSUME Shapes, Fault \/ LateFault \/ faults' = faults
  PROVE  faults' \in 0..(MaxFaults + 1)
BY FaultsAssumption DEF Shapes, TypeOK, Fault, LateFault

(* Voiding an intent. *)
LEMMA VoidShapes ==
  ASSUME Shapes, NEW i \in Intents \union {None}, TryVoid(i)
  PROVE  /\ intent' \in PaymentIntents /\ mail' \in SUBSET Events
         /\ faults' \in 0..(MaxFaults + 1)
<1>1. faults' \in 0..(MaxFaults + 1)
  BY FaultCount DEF TryVoid
<1>2. intent \in PaymentIntents /\ mail \in SUBSET Events
  BY DEF Shapes, TypeOK, PaymentIntents, Events
<1> QED BY <1>1, <1>2 DEF TryVoid, Void, PaymentIntents, Events

(* Committing the children. *)
LEMMA CommitShapes ==
  ASSUME Shapes, Commit
  PROVE  child' \in Bookings
BY DEF Shapes, TypeOK, Bookings, Commit, Committed, Active

(* The row is written over. *)
LEMMA RecordShapes ==
  ASSUME Shapes, RecordSettlement
  PROVE  Shapes'
<1>1. row' \in Rows /\ reused' \subseteq Intents \union {None} /\ strayed' \subseteq Intents
  BY DEF RecordSettlement, Write, Statuses, Payers, Rows, Shapes, TypeOK, DeskShape
<1>2. DeskShape'
  BY DEF RecordSettlement, Shapes, DeskShape, DeskSteps
<1>3. UNCHANGED <<calm, rooms, plan, stripe, invoice, mail, hook, reap, run, debt,
                 replay, skipped, tries, faults>>
  BY DEF RecordSettlement
<1> QED BY <1>1, <1>2, <1>3 DEF Shapes, TypeOK, HookShape, RunShape, ReplayShape,
           calm, rooms, stripe, Rows

(* The other steps of a settlement. *)
LEMMA DeskShapes ==
  ASSUME Shapes, CheckIntent \/ CommitChildren \/ RefuseSettlement \/ MintIntent
           \/ VoidSuperseded \/ Answer \/ QueueInvoice \/ CrashDesk
  PROVE  Shapes'
<1> USE DEF Shapes, TypeOK, DeskShape, HookShape, RunShape, ReplayShape, calm, rooms, stripe,
            ends, past, Bookings, DeskSteps, AtRest, Handlers, NoHook
<1>00. 0 \in Cent
  BY CentFacts
<1>1. CASE CheckIntent
  <2>1. child' \in Bookings /\ UNCHANGED <<leaving, pay, mirror>>
    BY <1>1, CommitShapes DEF CheckIntent
  <2>2. intent' \in PaymentIntents
    <3>1. intent \in PaymentIntents /\ desk.old \in Intents
      BY <1>1 DEF CheckIntent, PaymentIntents
    <3>2. intent' = intent \/ intent' = [intent EXCEPT ![desk.old].given = TRUE]
      BY <1>1 DEF CheckIntent
    <3> HIDE DEF Shapes
    <3> QED BY <3>1, <3>2, IntentEdits
  <2>3. DeskShape'
    <3>1. \/ desk' = AtRest
          \/ desk' = [desk EXCEPT !.at = "apply"]
          \/ desk' = [desk EXCEPT !.at = "commit"]
      BY <1>1 DEF CheckIntent
    <3> QED BY <3>1, DeskDone
  <2>4. HookShape' /\ hook' \in [Handlers -> [at : {"idle", "apply", "return"},
                           of : Intents \union {None, Bank}, amount : Cent]]
    BY <1>1 DEF CheckIntent
  <2>5. UNCHANGED <<calm, row, plan, refund, invoice, mail, reap, run, debt, replay,
                    skipped, ends>>
    BY <1>1 DEF CheckIntent
  <2> QED BY <2>1, <2>2, <2>3, <2>4, <2>5 DEF PaymentIntents
<1>2. CASE CommitChildren
  BY <1>2, CommitShapes DEF CommitChildren
<1>3. CASE RefuseSettlement
  <2>1. faults' \in 0..(MaxFaults + 1)
    BY <1>3, FaultCount DEF RefuseSettlement
  <2> QED BY <2>1, <1>3, DeskDone DEF RefuseSettlement
<1>4. CASE MintIntent
  <2>1. PICK i \in Intents :
          /\ desk' = [desk EXCEPT !.at = "record", !.pi = i]
          /\ \/ intent' = intent
             \/ intent' = [intent EXCEPT ![i] =
                  [@ EXCEPT !.st = "open", !.amount = desk.total, !.from = desk.old]]
    BY <1>4, NewIntentExists DEF MintIntent, SameKey
  <2>2. DeskShape'
    BY <2>1, <1>4 DEF MintIntent
  <2>3. intent' \in PaymentIntents
    <3>1. intent \in PaymentIntents
      BY DEF PaymentIntents
    <3>2. desk.total \in Cent /\ desk.old \in Intents \union {None}
      OBVIOUS
    <3> HIDE DEF Shapes
    <3>3. [intent EXCEPT ![i] = [@ EXCEPT !.st = "open", !.amount = desk.total,
                                        !.from = desk.old]] \in PaymentIntents
      BY <3>1, <3>2, IntentMinted, Zenon
    <3> QED BY <2>1, <3>1, <3>3, Zenon
  <2>4. UNCHANGED <<calm, rooms, row, plan, refund, invoice, mail, hook, reap, run, debt,
                    replay, skipped, ends>>
    BY <1>4 DEF MintIntent
  <2> QED BY <2>2, <2>3, <2>4 DEF PaymentIntents
<1>5. CASE VoidSuperseded
  <2>1. TryVoid(desk.old) \/ UNCHANGED <<intent, mail, faults>>
    BY <1>5 DEF VoidSuperseded
  <2>2. /\ intent' \in PaymentIntents /\ mail' \in SUBSET Events
        /\ faults' \in 0..(MaxFaults + 1)
    BY <2>1, VoidShapes DEF PaymentIntents, Events
  <2>3. DeskShape'
    BY <1>5 DEF VoidSuperseded
  <2>4. UNCHANGED <<calm, rooms, row, plan, refund, invoice, hook, reap, run, debt,
                 replay, skipped, past, tries>>
    BY <1>5 DEF VoidSuperseded
  <2> QED BY <2>2, <2>3, <2>4 DEF PaymentIntents, Events
<1>6. CASE Answer
  <2>1. desk.pi \in Intents /\ intent \in PaymentIntents
    BY <1>6 DEF Answer, PaymentIntents
  <2>2. intent' \in PaymentIntents
    BY <1>6, <2>1, IntentEdits DEF Answer
  <2> QED BY <2>2, <1>6, DeskDone DEF Answer, PaymentIntents
<1>7. CASE QueueInvoice
  <2>1. invoice' \in [queued : BOOLEAN, amount : Cent, paid : BOOLEAN]
    <3>1. invoice' \in {invoice, [invoice EXCEPT !.queued = TRUE]}
      BY <1>7 DEF QueueInvoice
    <3>2. invoice \in [queued : BOOLEAN, amount : Cent, paid : BOOLEAN]
      OBVIOUS
    <3> HIDE DEF Shapes
    <3> QED BY <3>1, <3>2
  <2>2. faults' \in 0..(MaxFaults + 1)
    BY <1>7, FaultCount DEF QueueInvoice
  <2> QED BY <2>1, <2>2, <1>7, DeskDone DEF QueueInvoice
<1>8. CASE CrashDesk
  <2>1. HookShape' /\ hook' \in [Handlers -> [at : {"idle", "apply", "return"},
                           of : Intents \union {None, Bank}, amount : Cent]]
    BY <1>8, <1>00 DEF CrashDesk, None
  <2>2. DeskShape'
    BY <1>8, DeskDone DEF CrashDesk
  <2>3. faults' \in 0..(MaxFaults + 1)
    BY <1>8, FaultCount DEF CrashDesk
  <2> QED BY <2>1, <2>2, <2>3, <1>8 DEF CrashDesk
<1> QED BY <1>1, <1>2, <1>3, <1>4, <1>5, <1>6, <1>7, <1>8

(* The handlers. *)
Hooks == [Handlers -> [at : {"idle", "apply", "return"}, of : Intents \union {None, Bank},
                       amount : Cent]]

(* What a handler does to itself. *)
LEMMA HookEdits ==
  ASSUME NEW f \in Hooks, NEW h \in Handlers
  PROVE  /\ [f EXCEPT ![h] = NoHook] \in Hooks
         /\ [f EXCEPT ![h].at = "return"] \in Hooks
BY CentFacts DEF Hooks, NoHook, None

(* A handler ends. *)
LEMMA HandledShapes ==
  ASSUME Shapes, NEW h \in Handlers, Handled(h)
  PROVE  hook' \in Hooks /\ HookShape' /\ mail' \in SUBSET Events
<1>1. hook' = [hook EXCEPT ![h] = NoHook] /\ mail' \subseteq mail
  BY DEF Handled
<1>2. hook \in Hooks /\ mail \in SUBSET Events
  BY DEF Shapes, TypeOK, Hooks, Events
<1>3. hook' \in Hooks
  BY <1>1, <1>2, HookEdits, Zenon
<1>4. HookShape'
  BY <1>1, <1>2 DEF Shapes, HookShape, Hooks, NoHook
<1> QED BY <1>1, <1>2, <1>3, <1>4

(* Stripe, Xero and the clock. *)
LEMMA StripeShapes ==
  ASSUME Shapes, \/ \E i \in Intents : Capture(i) \/ Decline(i)
                 \/ RaiseInvoice \/ PayInvoice \/ Tick \/ DropTier
  PROVE  Shapes'
<1> USE DEF calm, rooms, stripe, ends, past
<1>1. ASSUME NEW i \in Intents, Capture(i)
      PROVE  Shapes'
  <2>1. intent \in PaymentIntents
    BY DEF Shapes, TypeOK, PaymentIntents
  <2>2. intent' \in PaymentIntents
    BY <1>1, <2>1, IntentEdits DEF Capture
  <2> QED BY <1>1, <2>2 DEF Capture, Shapes, TypeOK, DeskShape, HookShape, RunShape,
             ReplayShape, PaymentIntents
<1>2. ASSUME NEW i \in Intents, Decline(i)
      PROVE  Shapes'
  <2>1. faults' \in 0..(MaxFaults + 1)
    BY <1>2, FaultCount DEF Decline
  <2> QED BY <1>2, <2>1 DEF Decline, Shapes, TypeOK, DeskShape, HookShape, RunShape,
             ReplayShape
<1>3. CASE RaiseInvoice
  <2>1. Sum(Price, With({"CONFIRMED", "PAID"})) \in Cent
    BY PriceSums DEF With
  <2>2. invoice' \in [queued : BOOLEAN, amount : Cent, paid : BOOLEAN]
    BY <1>3, <2>1 DEF RaiseInvoice, Shapes, TypeOK
  <2> QED BY <1>3, <2>2 DEF RaiseInvoice, Shapes, TypeOK, DeskShape, HookShape,
             RunShape, ReplayShape
<1>4. CASE PayInvoice
  <2>1. mail' \in SUBSET Events
    BY <1>4 DEF PayInvoice, Shapes, TypeOK, Events
  <2>2. invoice' \in [queued : BOOLEAN, amount : Cent, paid : BOOLEAN]
    BY <1>4 DEF PayInvoice, Shapes, TypeOK
  <2> QED BY <1>4, <2>1, <2>2 DEF PayInvoice, Shapes, TypeOK, DeskShape, HookShape,
             RunShape,
                                  ReplayShape, Events
<1>5. CASE Tick
  <2>1. row' \in Rows
    BY <1>5 DEF Tick, Shapes, TypeOK, Rows
  <2> QED BY <1>5, <2>1 DEF Tick, Shapes, TypeOK, DeskShape, HookShape, RunShape,
             ReplayShape,
                            Rows
<1>6. CASE DropTier
  BY <1>6 DEF DropTier, Shapes, TypeOK, DeskShape, HookShape, RunShape, ReplayShape
<1> QED BY <1>1, <1>2, <1>3, <1>4, <1>5, <1>6

(* The handlers of a payment. *)
LEMMA HandlerShapes ==
  ASSUME Shapes, HandlerStep \/ \E h \in Handlers : CrashHandler(h)
  PROVE  Shapes'
<1> USE DEF calm, rooms, stripe, ends, past
<1>0. hook \in Hooks /\ intent \in PaymentIntents /\ 0 \in Cent
  BY CentFacts DEF Shapes, TypeOK, PaymentIntents, Hooks
<1>1. ASSUME NEW i \in Intents, ReadSucceeded(i)
      PROVE  Shapes'
  <2>1. hook' \in Hooks /\ HookShape'
    BY <1>0, <1>1 DEF ReadSucceeded, Shapes, TypeOK, HookShape, Hooks, Handlers
  <2>2. mail' \subseteq mail
    BY <1>1 DEF ReadSucceeded
  <2>3. UNCHANGED <<calm, rooms, row, plan, stripe, invoice, desk, reap, run, debt,
                    replay, skipped, ends>>
    BY <1>1 DEF ReadSucceeded
  <2> QED BY <2>1, <2>2, <2>3 DEF Shapes, TypeOK, DeskShape, RunShape, ReplayShape,
             Hooks
<1>2. CASE ReadPaidInvoice
  <2>1. hook' \in Hooks /\ HookShape'
    BY <1>0, <1>2 DEF ReadPaidInvoice, Shapes, TypeOK, HookShape, Hooks, Handlers
  <2>2. mail' \subseteq mail
    BY <1>2 DEF ReadPaidInvoice
  <2>3. UNCHANGED <<calm, rooms, row, plan, stripe, invoice, desk, reap, run, debt,
                    replay, skipped, ends>>
    BY <1>2 DEF ReadPaidInvoice
  <2> QED BY <2>1, <2>2, <2>3 DEF Shapes, TypeOK, DeskShape, RunShape, ReplayShape,
             Hooks
<1>3. ASSUME NEW h \in Handlers, Apply(h)
      PROVE  Shapes'
  <2>1. hook' \in Hooks /\ HookShape' /\ mail' \in SUBSET Events
    <3>1. CASE Handled(h)
      BY <3>1, HandledShapes
    <3>2. CASE h = "stripe" /\ hook' = [hook EXCEPT ![h].at = "return"] /\ mail' = mail
      <4>1. hook' \in Hooks /\ hook[h].at = "apply"
        BY <1>0, <1>3, <3>2, HookEdits, Zenon DEF Apply
      <4>2. HookShape'
        BY <1>0, <3>2, <4>1 DEF Shapes, HookShape, Hooks
      <4> QED BY <3>2, <4>1, <4>2 DEF Shapes, TypeOK, Events
    <3> QED BY <1>3, <3>1, <3>2 DEF Apply, Settle
  <2>2. /\ child' \in Bookings /\ pay' \in [Children -> Intents \union {None, Bank}]
        /\ row' \in Rows /\ reused' \in SUBSET (Intents \union {None})
        /\ strayed' \in SUBSET Intents
    <3>1. CASE UNCHANGED <<child, pay, row, past>>
      BY <3>1 DEF Shapes, TypeOK, Bookings, Rows
    <3>2. CASE Settle(h, With({"CONFIRMED"}))
      <4>1. hook[h].of \in Intents \union {None, Bank}
        BY <1>0 DEF Hooks
      <4>2. child' \in Bookings
        BY <3>2 DEF Settle, Shapes, TypeOK, Bookings, Active
      <4>3. pay' \in [Children -> Intents \union {None, Bank}]
        BY <3>2, <4>1 DEF Settle, Shapes, TypeOK
      <4>4. row' \in Rows
        BY <3>2 DEF Settle, Write, Shapes, TypeOK, Rows, Statuses
      <4>5. reused' \in SUBSET (Intents \union {None}) /\ strayed' \in SUBSET Intents
        BY <3>2 DEF Settle, Shapes, TypeOK
      <4> QED BY <4>2, <4>3, <4>4, <4>5
    <3> QED BY <1>3, <3>1, <3>2 DEF Apply
  <2>3. DeskShape'
    BY <1>3, DeskDone DEF Apply, Shapes, DeskShape
  <2>4. UNCHANGED <<calm, leaving, mirror, plan, stripe, invoice, reap, run, debt,
                    replay, skipped, tries, faults>>
    BY <1>3 DEF Apply
  <2> QED BY <2>1, <2>2, <2>3, <2>4 DEF Shapes, TypeOK, RunShape, ReplayShape,
             Hooks, Events, Bookings, Rows
<1>4. CASE ReturnCapture
  <2>1. hook' \in Hooks /\ HookShape' /\ mail' \in SUBSET Events
    <3>0. "stripe" \in Handlers
      BY DEF Handlers
    <3>1. CASE Handled("stripe")
      BY <3>0, <3>1, HandledShapes
    <3>2. CASE hook' = [hook EXCEPT !["stripe"] = NoHook] /\ mail' = mail
      <4>1. hook' \in Hooks
        BY <1>0, <3>0, <3>2, HookEdits, Zenon
      <4>2. HookShape'
        BY <1>0, <3>0, <3>2 DEF Shapes, HookShape, Hooks, NoHook
      <4> QED BY <3>2, <4>1, <4>2 DEF Shapes, TypeOK, Events
    <3> QED BY <1>4, <3>1, <3>2 DEF ReturnCapture
  <2>2. hook["stripe"].of \in Intents
    BY <1>4 DEF ReturnCapture, Shapes, HookShape, Handlers
  <2>3. intent' = intent \/ intent' = [intent EXCEPT ![hook["stripe"].of].back = TRUE]
    BY <1>4 DEF ReturnCapture
  <2>4. intent' \in PaymentIntents
    BY <1>0, <2>2, <2>3, IntentEdits
  <2>5. faults' \in 0..(MaxFaults + 1)
    BY <1>4, FaultCount DEF ReturnCapture
  <2>6. UNCHANGED <<calm, rooms, row, plan, refund, invoice, desk, reap, run, debt,
                    replay, skipped, past, tries>>
    BY <1>4 DEF ReturnCapture
  <2> QED BY <2>1, <2>4, <2>5, <2>6 DEF Shapes, TypeOK, DeskShape, RunShape,
             ReplayShape, Hooks, Events, PaymentIntents
<1>5. ASSUME NEW i \in Intents, MarkFailed(i)
      PROVE  Shapes'
  <2>1. row' \in Rows
    BY <1>5, FailedRow DEF MarkFailed, Write, RowFails
  <2> QED BY <1>5, <2>1 DEF MarkFailed, Shapes, TypeOK, DeskShape, HookShape,
             RunShape, ReplayShape, Rows
<1>6. ASSUME NEW h \in Handlers, CrashHandler(h)
      PROVE  Shapes'
  <2>1. hook' = [hook EXCEPT ![h] = NoHook]
    BY <1>6 DEF CrashHandler
  <2>2. hook' \in Hooks
    BY <1>0, <2>1, HookEdits, Zenon
  <2>3. HookShape'
    BY <1>0, <2>1 DEF Shapes, HookShape, Hooks, NoHook
  <2>4. faults' \in 0..(MaxFaults + 1)
    BY <1>6, FaultCount DEF CrashHandler
  <2>5. UNCHANGED <<calm, rooms, row, plan, stripe, invoice, mail, desk, reap, run, debt,
                    replay, skipped, past, tries>>
    BY <1>6 DEF CrashHandler
  <2> QED BY <2>2, <2>3, <2>4, <2>5 DEF Shapes, TypeOK, DeskShape, RunShape,
             ReplayShape, Hooks
<1> QED BY <1>1, <1>2, <1>3, <1>4, <1>5, <1>6 DEF HandlerStep

(* The reaper. *)
LEMMA ReaperShapes ==
  ASSUME Shapes, ReaperStep \/ CrashReaper
  PROVE  Shapes'
<1> USE DEF calm, rooms, stripe, ends, past, NoReap
<1>1. CASE Scan
  BY <1>1 DEF Scan, Shapes, TypeOK, DeskShape, HookShape, RunShape, ReplayShape
<1>2. CASE Release
  <2>1. child' \in Bookings
    BY <1>2 DEF Release, Shapes, TypeOK, Bookings, Active
  <2>2. row' \in Rows
    BY <1>2, FailedRow DEF Release, Write, RowFails
  <2>3. reap' \in [at : {"idle", "release", "void"}, intent : Intents \union {None}]
    BY <1>2 DEF Release, Shapes, TypeOK, None
  <2>4. UNCHANGED <<calm, leaving, pay, mirror, plan, stripe, invoice, mail, desk,
                    hook, run, debt, replay, skipped, ends>>
    BY <1>2 DEF Release
  <2> QED BY <2>1, <2>2, <2>3, <2>4 DEF Shapes, TypeOK, DeskShape, HookShape,
             RunShape, ReplayShape, Bookings, Rows
<1>3. CASE VoidReaped
  <2>1. reap.intent \in Intents \union {None} /\ TryVoid(reap.intent)
    BY <1>3 DEF VoidReaped, Shapes, TypeOK
  <2>2. /\ intent' \in PaymentIntents /\ mail' \in SUBSET Events
        /\ faults' \in 0..(MaxFaults + 1)
    BY <2>1, VoidShapes
  <2>3. /\ reap' = NoReap
        /\ UNCHANGED <<calm, rooms, row, plan, refund, invoice, desk, hook, run, debt,
                       replay, skipped, past, tries>>
    BY <1>3 DEF VoidReaped
  <2> QED BY <2>2, <2>3 DEF Shapes, TypeOK, DeskShape, HookShape, RunShape,
             ReplayShape, PaymentIntents, Events, None
<1>4. CASE Expire
  <2>1. child' \in Bookings
    BY <1>4 DEF Expire, Shapes, TypeOK, Bookings, Active
  <2> QED BY <1>4, <2>1 DEF Expire, Shapes, TypeOK, DeskShape, HookShape, RunShape,
             ReplayShape, Bookings
<1>5. CASE CrashReaper
  <2>1. faults' \in 0..(MaxFaults + 1)
    BY <1>5, FaultCount DEF CrashReaper
  <2> QED BY <1>5, <2>1 DEF CrashReaper, Shapes, TypeOK, DeskShape, HookShape,
             RunShape, ReplayShape, None
<1> QED BY <1>1, <1>2, <1>3, <1>4, <1>5 DEF ReaperStep

(* The cleanup. *)
Runs == [at : RunSteps, status : Statuses, intent : Intents \union {None}, amount : Cent,
         kids : SUBSET Children, billed : SUBSET Children, had : [Children -> Cent], view : Plans]
(* The refund. *)
Refunds == [intent : Intents \union {None}, cents : Cent]
(* The recovery job. *)
Replays == [at : ReplaySteps, intent : Intents \union {None}, amount : Cent,
            todo : SUBSET Children]

(* A cleanup that ended. *)
LEMMA NoRunShape ==
  ASSUME run' = NoRun
  PROVE  RunShape' /\ run' \in Runs
BY CentFacts, NothingIsPlan DEF RunShape, NoRun, Runs, RunSteps, Statuses, None

(* A replay that ended. *)
LEMMA NoReplayShape ==
  ASSUME replay' = NoReplay
  PROVE  ReplayShape' /\ replay' \in Replays
BY CentFacts DEF ReplayShape, NoReplay, Replays, ReplaySteps, None

(* The cleanup; it runs for a cancelled host, so it may close the group. *)
LEMMA RunShapes ==
  ASSUME Shapes, OnlyAfterCancel, OrganiserCancels \/ Resume \/ RunStep \/ CrashRun
  PROVE  Shapes'
<1> USE DEF calm, rooms, stripe, ends, past
<1> DEFINE RunTyped == run' \in Runs /\ RunShape'
<1>0. run \in Runs /\ intent \in PaymentIntents /\ 0 \in Cent /\ RunShape /\ row \in Rows
  BY CentFacts DEF Shapes, TypeOK, PaymentIntents, RunShape, Runs, Rows
<1>s. ASSUME run' = [run EXCEPT !.at = "read"] \/ run' = [run EXCEPT !.at = "mark"]
             \/ run' = [run EXCEPT !.at = "plan"] \/ run' = [run EXCEPT !.at = "cancel"]
      PROVE  RunTyped
  BY <1>0, <1>s DEF Runs, RunShape, RunSteps
<1>1. CASE OrganiserCancels \/ Resume
  <2>1. RunTyped
    BY <1>1, <1>s DEF OrganiserCancels, Resume
  <2> QED BY <1>1, <2>1 DEF OrganiserCancels, Resume, Shapes, TypeOK, DeskShape,
             HookShape, ReplayShape, Runs
<1>2. CASE ReadGroup
  <2>1. With(Active) \in SUBSET Children /\ With({"PAID"}) \in SUBSET Children
    BY DEF With
  <2>2. [c \in Children |-> IF child[c] \in Active THEN mirror[c] ELSE 0] \in [Children -> Cent]
    BY <1>0 DEF Shapes, TypeOK, Plans
  <2>3. plan \in Plans
    BY DEF Shapes, TypeOK
  <2>4. RunTyped
    BY <1>0, <1>2, <2>1, <2>2, <2>3 DEF ReadGroup, Runs, RunShape, RunSteps, Rows
  <2> QED BY <1>2, <2>4 DEF ReadGroup, Shapes, TypeOK, DeskShape, HookShape,
             ReplayShape, Runs
<1>3. CASE VoidOpen
  <2>1. run.intent \in Intents \union {None} /\ TryVoid(run.intent)
    BY <1>0, <1>3 DEF VoidOpen, Runs
  <2>2. /\ intent' \in PaymentIntents /\ mail' \in SUBSET Events
        /\ faults' \in 0..(MaxFaults + 1)
    BY <2>1, VoidShapes
  <2>3. RunTyped
    BY <1>3, <1>s DEF VoidOpen
  <2>4. UNCHANGED <<calm, rooms, row, plan, refund, invoice, desk, hook, reap, debt,
                    replay, skipped, past, tries>>
    BY <1>3 DEF VoidOpen
  <2> QED BY <2>2, <2>3, <2>4 DEF Shapes, TypeOK, DeskShape, HookShape, ReplayShape,
             Runs, PaymentIntents, Events
<1>4. CASE FailRow
  <2>1. row' \in Rows
    BY <1>0, <1>4 DEF FailRow, Write, Rows, Statuses
  <2>2. reused' \in SUBSET (Intents \union {None}) /\ strayed' \in SUBSET Intents
    BY <1>0, <1>4 DEF FailRow, Payers, Rows, Shapes, TypeOK
  <2>3. RunTyped
    BY <1>4, <1>s DEF FailRow
  <2> QED BY <1>4, <2>1, <2>2, <2>3 DEF FailRow, Shapes, TypeOK, DeskShape,
             HookShape, ReplayShape, Runs, Rows
<1>5. CASE MakePlan
  <2> DEFINE p == IF run.view = Nothing /\ run.status = "SUCCEEDED" THEN NewPlan ELSE run.view
  <2>1. p \in Plans
    BY <1>0, NewPlanIsPlan DEF Runs
  <2>2. /\ plan' = plan \/ plan' = p
        /\ run' = [run EXCEPT !.view = p,
                           !.at = IF Planned(p) > 0 /\ run.intent # None
                                     /\ run.status = "SUCCEEDED"
                                  THEN "owe" ELSE "cancel"]
    BY <1>5 DEF MakePlan
  <2> HIDE DEF p
  <2>3. plan' \in Plans
    BY <2>1, <2>2 DEF Shapes, TypeOK
  <2>4. RunTyped
    BY <1>0, <2>1, <2>2 DEF Runs, RunShape, RunSteps
  <2>5. UNCHANGED <<calm, rooms, row, stripe, invoice, mail, desk, hook, reap, debt,
                    replay, skipped, ends>>
    BY <1>5 DEF MakePlan
  <2> QED BY <2>3, <2>4, <2>5 DEF Shapes, TypeOK, DeskShape, HookShape, ReplayShape,
             Runs
<1>6. CASE OweRefund
  <2>1. faults' \in 0..(MaxFaults + 1)
    BY <1>6, FaultCount DEF OweRefund
  <2>2. RunTyped
    BY <1>0, <1>6 DEF OweRefund, Runs, RunShape, RunSteps
  <2>3. debt' \in {"none", "later", "owed", "done"}
    BY <1>6 DEF OweRefund, Owe, Shapes, TypeOK
  <2> QED BY <1>6, <2>1, <2>2, <2>3 DEF OweRefund, Shapes, TypeOK, DeskShape,
             HookShape, ReplayShape, Runs
<1>7. CASE RefundInline
  <2>1. Request(run.intent, run.view) \in Refunds
    BY <1>0, PlanSums DEF Request, Refunds, Runs
  <2>2. refund' \in Refunds
    BY <1>7, <2>1 DEF RefundInline, Shapes, TypeOK, Refunds
  <2>3. faults' \in 0..(MaxFaults + 1)
    BY <1>7, FaultCount DEF RefundInline
  <2>4. debt' \in {"none", "later", "owed", "done"}
    BY <1>7 DEF RefundInline, Owe, Shapes, TypeOK
  <2>5. RunTyped
    BY <1>0, <1>7, NothingIsPlan DEF RefundInline, Runs, RunShape, RunSteps
  <2> QED BY <1>7, <2>2, <2>3, <2>4, <2>5 DEF RefundInline, Shapes, TypeOK,
             DeskShape, HookShape, ReplayShape, Runs, Refunds
<1>8. CASE FlipInline
  <2>1. row' \in Rows
    BY <1>0, <1>8 DEF FlipInline, Write, Flipped, Rows, Statuses, Refunded
  <2>2. reused' \in SUBSET (Intents \union {None})
    BY <1>0, <1>8 DEF FlipInline, Rows, Shapes, TypeOK
  <2>3. RunTyped
    BY <1>8, <1>s DEF FlipInline
  <2>4. faults' \in 0..(MaxFaults + 1) /\ debt' \in {"none", "later", "owed", "done"}
    BY <1>8, FaultCount DEF FlipInline, Shapes, TypeOK
  <2> QED BY <1>8, <2>1, <2>2, <2>3, <2>4 DEF FlipInline, Shapes, TypeOK, DeskShape,
             HookShape, ReplayShape, Runs, Rows
<1>9. ASSUME NEW c \in Children, CancelChild(c)
      PROVE  Shapes'
  <2>1. child' \in Bookings
    BY <1>9 DEF CancelChild, Shapes, TypeOK, Bookings
  <2>2. Least(Price[c], run.had[c] + run.view[c]) \in Cent
        /\ Least(Price[c], run.had[c] + run.view[c]) <= Price[c]
    <3>1. run.had[c] \in Nat /\ run.view[c] \in Nat
      BY <1>0, CentFacts DEF Runs, Plans
    <3>2. /\ Least(Price[c], run.had[c] + run.view[c]) \in Nat
          /\ Least(Price[c], run.had[c] + run.view[c]) <= Price[c]
      BY <3>1, PriceAssumption DEF Least
    <3> QED BY <3>2, CentFacts
  <2>3. mirror' \in Plans
    BY <1>9, <2>2 DEF CancelChild, Shapes, TypeOK, Plans
  <2>4. RunTyped
    BY <1>0, <1>9 DEF CancelChild, Runs, RunShape
  <2>5. faults' \in 0..(MaxFaults + 1) /\ skipped' \in SUBSET Children
    BY <1>9, FaultCount DEF CancelChild, Shapes, TypeOK
  <2> QED BY <1>9, <2>1, <2>3, <2>4, <2>5 DEF CancelChild, Shapes, TypeOK,
             DeskShape, HookShape, ReplayShape, Runs, Bookings
<1>10. CASE MarkGroupCancelled
  <2>0. host = "CANCELLED"
    BY <1>10 DEF MarkGroupCancelled, OnlyAfterCancel
  <2>1. RunTyped
    BY <1>10, NoRunShape DEF MarkGroupCancelled
  <2> QED BY <1>10, <2>0, <2>1 DEF MarkGroupCancelled, Shapes, TypeOK, DeskShape,
             HookShape, ReplayShape, Runs
<1>11. CASE CrashRun
  <2>1. RunTyped
    BY <1>11, NoRunShape DEF CrashRun
  <2>2. faults' \in 0..(MaxFaults + 1)
    BY <1>11, FaultCount DEF CrashRun
  <2> QED BY <1>11, <2>1, <2>2 DEF CrashRun, Shapes, TypeOK, DeskShape, HookShape,
             ReplayShape, Runs
<1> QED BY <1>1, <1>2, <1>3, <1>4, <1>5, <1>6, <1>7, <1>8, <1>9, <1>10, <1>11
           DEF RunStep

(* The recovery job. *)
LEMMA ReplayShapes ==
  ASSUME Shapes, ReplayStep \/ CrashReplay
  PROVE  Shapes'
<1> USE DEF calm, rooms, stripe, ends, past
<1> DEFINE ReplayTyped == replay' \in Replays /\ ReplayShape'
<1>0. replay \in Replays /\ ReplayShape /\ row \in Rows
  BY DEF Shapes, TypeOK, ReplayShape, Replays, Rows
<1>1. CASE ReadPlan
  <2>1. ReplayTyped
    <3>1. CASE replay' = [at |-> "refund", intent |-> row.intent, amount |-> row.amount,
                          todo |-> {}] /\ row.intent # None
      BY <1>0, <3>1 DEF Replays, ReplayShape, ReplaySteps, Rows
    <3>2. CASE replay' = [NoReplay EXCEPT !.at = "mirror", !.todo = Mirrorable]
      BY <3>2, CentFacts DEF Replays, ReplayShape, ReplaySteps, NoReplay,
         Mirrorable, None
    <3>3. CASE replay' = replay
      BY <1>0, <3>3 DEF ReplayShape
    <3> QED BY <1>1, <3>1, <3>2, <3>3 DEF ReadPlan
  <2>2. debt' \in {"none", "later", "owed", "done"}
    BY <1>1 DEF ReadPlan, Shapes, TypeOK
  <2> QED BY <1>1, <2>1, <2>2 DEF ReadPlan, Shapes, TypeOK, DeskShape, HookShape,
             RunShape, Replays
<1>2. CASE ReplayRefund
  <2>1. Request(replay.intent, plan) \in Refunds
    BY <1>0, PlanSums DEF Request, Refunds, Replays, Shapes, TypeOK
  <2>2. refund' \in Refunds
    BY <1>2, <2>1 DEF ReplayRefund, Shapes, TypeOK, Refunds
  <2>3. faults' \in 0..(MaxFaults + 1)
    BY <1>2, FaultCount DEF ReplayRefund
  <2>4. \/ replay' = NoReplay
        \/ replay' = [replay EXCEPT !.at = "flip"] /\ replay.at = "refund"
    BY <1>2 DEF ReplayRefund
  <2>5. ReplayTyped
    BY <1>0, <2>4, NoReplayShape DEF Replays, ReplayShape, ReplaySteps
  <2> QED BY <1>2, <2>2, <2>3, <2>5 DEF ReplayRefund, Shapes, TypeOK, DeskShape,
             HookShape, RunShape, Replays, Refunds
<1>3. CASE ReplayFlip
  <2>1. row' \in Rows
    BY <1>0, <1>3 DEF ReplayFlip, Write, Flipped, Rows, Statuses, Refunded
  <2>2. reused' \in SUBSET (Intents \union {None})
    BY <1>0, <1>3 DEF ReplayFlip, Rows, Shapes, TypeOK
  <2>3. ReplayTyped
    BY <1>3, CentFacts DEF ReplayFlip, Replays, ReplayShape, ReplaySteps, NoReplay,
       Mirrorable, None
  <2>4. UNCHANGED <<calm, rooms, plan, stripe, invoice, mail, desk, hook, reap, run, debt,
                    skipped, strayed, tries, faults>>
    BY <1>3 DEF ReplayFlip
  <2> QED BY <2>1, <2>2, <2>3, <2>4 DEF Shapes, TypeOK, DeskShape, HookShape,
             RunShape, Replays, Rows
<1>4. ASSUME NEW c \in Children, ReplayMirror(c)
      PROVE  Shapes'
  <2>1. /\ Least(Price[c], plan[c]) \in Cent
        /\ Least(Price[c], plan[c]) <= Price[c]
    <3>1. plan[c] \in Nat
      BY CentFacts DEF Shapes, TypeOK, Plans
    <3>2. Least(Price[c], plan[c]) \in Nat /\ Least(Price[c], plan[c]) <= Price[c]
      BY <3>1, PriceAssumption DEF Least
    <3> QED BY <3>2, CentFacts
  <2>2. mirror' \in Plans
    BY <1>4, <2>1 DEF ReplayMirror, Shapes, TypeOK, Plans
  <2>3. ReplayTyped
    BY <1>0, <1>4 DEF ReplayMirror, Replays, ReplayShape
  <2>4. skipped' \in SUBSET Children
    BY <1>4 DEF ReplayMirror, Shapes, TypeOK
  <2> QED BY <1>4, <2>2, <2>3, <2>4 DEF ReplayMirror, Shapes, TypeOK, DeskShape,
             HookShape, RunShape, Replays
<1>5. CASE ReplayDone
  <2>1. ReplayTyped
    BY <1>5, NoReplayShape DEF ReplayDone
  <2> QED BY <1>5, <2>1 DEF ReplayDone, Shapes, TypeOK, DeskShape, HookShape,
             RunShape, Replays
<1>6. CASE CrashReplay
  <2>1. ReplayTyped
    BY <1>6, NoReplayShape DEF CrashReplay
  <2>2. faults' \in 0..(MaxFaults + 1)
    BY <1>6, FaultCount DEF CrashReplay
  <2> QED BY <1>6, <2>1, <2>2 DEF CrashReplay, Shapes, TypeOK, DeskShape, HookShape,
             RunShape, Replays
<1> QED BY <1>1, <1>2, <1>3, <1>4, <1>5, <1>6 DEF ReplayStep

----------------------------------------------------------------------------
(* Captured money.                                                          *)

(* A row that was paid. *)
Settled == {"SUCCEEDED"} \union Refunded
(* Some child was paid for. *)
SomebodyPaid == \E c \in Children : pay[c] # None

(* Nothing is settled for no money: a settlement has children, and so an    *)
(* amount, and the row keeps it as long as it names a payment.              *)
AmountsReal ==
  /\ desk.at # "idle" => desk.total > 0
  /\ row.intent # None \/ row.bank => row.amount > 0
  /\ \A h \in Handlers : hook[h].at = "apply" => hook[h].amount > 0

(* A row that says it was paid paid somebody, and whoever read it knows. *)
SettledByPayment ==
  /\ row.status \in Settled => SomebodyPaid
  /\ run.at \notin {"idle", "read"} /\ run.status \in Settled => SomebodyPaid
  /\ replay.at # "idle" => SomebodyPaid

(* The inductive invariant of MoneyIsPlaced. *)
MInv == AmountsReal /\ SettledByPayment /\ MoneyIsPlaced

(* The initial state satisfies it. *)
LEMMA InitMInv == Init => MInv
BY DEF Init, MInv, AmountsReal, SettledByPayment, MoneyIsPlaced, AtRest, NoHook,
   NoRun,
       NoReplay, Settled, Refunded, Handlers

(* A payment is not taken off a child. *)
LEMMA PaymentStays ==
  ASSUME Shapes, NEW h \in Handlers, hook[h].at = "apply", NEW beds,
         pay' = [c \in Children |-> IF c \in beds THEN hook[h].of ELSE pay[c]], SomebodyPaid
  PROVE  SomebodyPaid'
<1>1. hook[h].of # None
  BY TriesAssumption DEF Shapes, HookShape, Bank, None, Intents
<1> QED BY <1>1 DEF SomebodyPaid

(* The joiners, the invoice, the clock, the reaper. *)
LEMMA JoinerMoney ==
  ASSUME Shapes, MInv,
         \/ \E c \in Children : Join(c) \/ ReadLeave(c) \/ WriteLeave(c)
         \/ RaiseInvoice \/ PayInvoice \/ Tick \/ DropTier
         \/ Scan \/ Release \/ Expire \/ CrashReaper
  PROVE  MInv'
<1> USE DEF MInv, AmountsReal, SettledByPayment, MoneyIsPlaced, SomebodyPaid, calm, rooms,
            stripe, ends, past
<1>1. ASSUME NEW c \in Children, Join(c) \/ ReadLeave(c) \/ WriteLeave(c)
      PROVE  MInv'
  BY <1>1 DEF Join, ReadLeave, WriteLeave
<1>2. CASE RaiseInvoice
  BY <1>2 DEF RaiseInvoice
<1>3. CASE PayInvoice
  BY <1>3 DEF PayInvoice
<1>4. CASE Tick
  BY <1>4 DEF Tick, Shapes, TypeOK
<1>5. CASE DropTier \/ Scan \/ Expire \/ CrashReaper
  BY <1>5 DEF DropTier, Scan, Expire, CrashReaper
<1>6. CASE Release
  <2>1. RowFails
    BY <1>6 DEF Release, Write, RowFails
  <2> QED BY <1>6, <2>1, FailedRow DEF Release, Settled, Refunded
<1> QED BY <1>1, <1>2, <1>3, <1>4, <1>5, <1>6

(* Voiding an intent nobody paid leaves what was captured. *)
LEMMA VoidMoney ==
  ASSUME Shapes, MoneyIsPlaced, NEW i \in Intents \union {None},
         TryVoid(i) \/ UNCHANGED <<intent, mail, faults>>, pay' = pay
  PROVE  MoneyIsPlaced'
<1>1. \A j \in Intents : intent'[j].st = "captured" => intent[j].st = "captured"
  BY DEF Shapes, TypeOK, TryVoid, Void
<1>2. \A j \in Intents : intent'[j].back = intent[j].back
  BY DEF Shapes, TypeOK, TryVoid, Void
<1>3. mail \subseteq mail'
  BY DEF TryVoid, Void
<1> QED BY <1>1, <1>2, <1>3 DEF MoneyIsPlaced

(* The settlement: it asks for an amount. *)
LEMMA DeskMoney ==
  ASSUME Shapes, MInv, DeskStep \/ CrashDesk \/ \E bank \in ByBank : StartSettlement(bank)
  PROVE  MInv'
<1> USE DEF MInv, AmountsReal, SettledByPayment, SomebodyPaid, calm, rooms,
            stripe, ends, past, AtRest
<1>1. ASSUME NEW bank \in ByBank, StartSettlement(bank)
      PROVE  MInv'
  <2> DEFINE kids == With(Settleable)
  <2>1. kids \in SUBSET Children /\ kids # {}
    BY <1>1 DEF StartSettlement, With
  <2>2. PICK c \in kids : TRUE
    BY <2>1
  <2>3. Price[c] <= Sum(Price, kids) /\ Sum(Price, kids) \in Nat
    BY <2>1, <2>2, ChildrenAssumption, FS_Subset, CentFacts, SumMember, PriceSums
  <2>4. Sum(Price, kids) > 0
    BY <2>1, <2>3, CentFacts
  <2> HIDE DEF kids
  <2>5. desk'.total = Sum(Price, kids)
    BY <1>1 DEF StartSettlement, kids
  <2> QED BY <1>1, <2>4, <2>5 DEF StartSettlement, MoneyIsPlaced
<1>2. CASE CheckIntent
  <2>1. \A j \in Intents : intent'[j].st = intent[j].st /\ intent'[j].back = intent[j].back
    BY <1>2 DEF CheckIntent, Shapes, TypeOK
  <2>2. MoneyIsPlaced'
    BY <1>2, <2>1 DEF CheckIntent, MoneyIsPlaced
  <2>3. desk'.at # "idle" => desk'.total > 0
    BY <1>2 DEF CheckIntent, Shapes, DeskShape
  <2>4. \A h \in Handlers : hook'[h].at = "apply" => hook'[h].amount > 0
    <3>1. hook \in Hooks
      BY DEF Shapes, TypeOK, Hooks
    <3>2. \/ hook' = hook
          \/ /\ row.intent = desk.old /\ desk.old \in Intents
             /\ hook' = [hook EXCEPT !["desk"] = [at |-> "apply", of |-> desk.old,
                                                 amount |-> row.amount]]
      BY <1>2 DEF CheckIntent, Shapes, DeskShape
    <3>3. desk.old \in Intents => row.amount > 0 \/ row.intent # desk.old
      BY DEF Intents, None
    <3> QED BY <3>1, <3>2, <3>3 DEF Hooks
  <2> QED BY <1>2, <2>2, <2>3, <2>4 DEF CheckIntent
<1>3. CASE CommitChildren
  BY <1>3 DEF CommitChildren, MoneyIsPlaced, Shapes, DeskShape
<1>4. CASE RefuseSettlement
  BY <1>4 DEF RefuseSettlement, MoneyIsPlaced
<1>5. CASE MintIntent
  <2>1. \A j \in Intents : intent'[j].st = "captured" =>
                             intent[j].st = "captured" /\ intent'[j].back = intent[j].back
    <3>1. CASE intent' = intent
      BY <3>1
    <3>2. CASE /\ \E i \in Intents : intent[i].st = "none"
               /\ intent' = [intent EXCEPT ![NewIntent] =
                     [@ EXCEPT !.st = "open", !.amount = desk.total, !.from = desk.old]]
      BY <3>2, NewIntentExists DEF Shapes, TypeOK
    <3> QED BY <1>5, <3>1, <3>2 DEF MintIntent
  <2> QED BY <1>5, <2>1 DEF MintIntent, MoneyIsPlaced, Shapes, DeskShape
<1>6. CASE RecordSettlement
  BY <1>6 DEF RecordSettlement, Write, MoneyIsPlaced, Shapes, DeskShape, TypeOK,
     Settled, Refunded
<1>7. CASE VoidSuperseded
  <2>1. MoneyIsPlaced'
    BY <1>7, VoidMoney DEF VoidSuperseded, Shapes, DeskShape
  <2> QED BY <1>7, <2>1 DEF VoidSuperseded, Shapes, DeskShape
<1>8. CASE Answer
  BY <1>8 DEF Answer, MoneyIsPlaced, Shapes, TypeOK, DeskShape
<1>9. CASE QueueInvoice
  BY <1>9 DEF QueueInvoice, MoneyIsPlaced
<1>10. CASE CrashDesk
  BY <1>10 DEF CrashDesk, MoneyIsPlaced, Shapes, TypeOK, NoHook
<1> QED BY <1>1, <1>2, <1>3, <1>4, <1>5, <1>6, <1>7, <1>8, <1>9, <1>10 DEF DeskStep

(* The handlers: a capture is applied, returned or still to be handled. *)
LEMMA StripeMoney ==
  ASSUME Shapes, MInv, \/ \E i \in Intents : Capture(i) \/ Decline(i)
                       \/ HandlerStep \/ \E h \in Handlers : CrashHandler(h)
  PROVE  MInv'
<1> USE DEF MInv, AmountsReal, SettledByPayment, calm, rooms, stripe, ends, past
<1>0. hook \in Hooks
  BY DEF Shapes, TypeOK, Hooks
<1>1. ASSUME NEW i \in Intents, Capture(i)
      PROVE  MInv'
  BY <1>1 DEF Capture, MoneyIsPlaced, SomebodyPaid, Shapes, TypeOK
<1>2. ASSUME NEW i \in Intents, Decline(i)
      PROVE  MInv'
  BY <1>2 DEF Decline, MoneyIsPlaced, SomebodyPaid
<1>3. ASSUME NEW i \in Intents, ReadSucceeded(i)
      PROVE  MInv'
  <2>1. MoneyIsPlaced'
    BY <1>3 DEF ReadSucceeded, MoneyIsPlaced, SomebodyPaid, Settled
  <2>2. \A h \in Handlers : hook'[h].at = "apply" => hook'[h].amount > 0
    BY <1>0, <1>3 DEF ReadSucceeded, Hooks, Intents, None
  <2> QED BY <1>3, <2>1, <2>2 DEF ReadSucceeded, SomebodyPaid
<1>4. CASE ReadPaidInvoice
  <2>1. MoneyIsPlaced'
    BY <1>4 DEF ReadPaidInvoice, MoneyIsPlaced, SomebodyPaid, Settled
  <2>2. \A h \in Handlers : hook'[h].at = "apply" => hook'[h].amount > 0
    BY <1>0, <1>4 DEF ReadPaidInvoice, Hooks
  <2> QED BY <1>4, <2>1, <2>2 DEF ReadPaidInvoice, SomebodyPaid
<1>5. ASSUME NEW h \in Handlers, Apply(h)
      PROVE  MInv'
  <2>0. hook[h].at = "apply"
    BY <1>5 DEF Apply
  <2>1. AmountsReal'
    <3>1. desk' = desk \/ desk' = AtRest
      BY <1>5 DEF Apply
    <3>2. row' = row \/ row' = [row EXCEPT !.status = "SUCCEEDED", !.due = FALSE]
      BY <1>5 DEF Apply, Settle, Write
    <3>3. hook' = [hook EXCEPT ![h] = NoHook] \/ hook' = [hook EXCEPT ![h].at = "return"]
      BY <1>5 DEF Apply, Settle, Handled
    <3>4. \A g \in Handlers : hook'[g].at = "apply" => hook'[g].amount > 0
      BY <1>0, <3>3 DEF Hooks, NoHook
    <3>5. row \in Rows
      BY DEF Shapes, TypeOK, Rows
    <3>6. desk'.at # "idle" => desk'.total > 0
      BY <3>1 DEF AtRest
    <3>7. row'.intent # None \/ row'.bank => row'.amount > 0
      BY <3>2, <3>5 DEF Rows
    <3> QED BY <3>4, <3>6, <3>7
  <2>2. CASE /\ row.status # "SUCCEEDED" /\ Sum(Price, With({"CONFIRMED"})) = hook[h].amount
             /\ Settle(h, With({"CONFIRMED"}))
    <3>1. Sum(Price, With({"CONFIRMED"})) # 0
      BY <2>0, <2>2
    <3>2. With({"CONFIRMED"}) # {}
      BY <3>1, SumEmpty
    <3>3. SomebodyPaid'
      BY <2>0, <2>2, <3>2, TriesAssumption
         DEF Settle, SomebodyPaid, With, Shapes, HookShape, Intents, Bank, None
    <3> QED BY <1>5, <2>1, <3>3 DEF Apply, MoneyIsPlaced, SomebodyPaid
  <2>3. CASE row.status = "SUCCEEDED" /\ UNCHANGED <<child, pay, row, past>>
    <3>1. SomebodyPaid /\ SomebodyPaid'
      BY <2>3 DEF Settled, SomebodyPaid
    <3> QED BY <1>5, <2>1, <3>1 DEF Apply, MoneyIsPlaced, SomebodyPaid
  <2>4. CASE /\ (h # "stripe" /\ Handled(h)) \/ mail' = mail
             /\ UNCHANGED <<child, pay, row, past>>
    <3>1. \A i \in Intents : <<"succeeded", i>> \in mail => <<"succeeded", i>> \in mail'
      BY <2>4 DEF Handled, Handlers
    <3>2. MoneyIsPlaced'
      BY <1>5, <2>4, <3>1 DEF Apply, MoneyIsPlaced
    <3> QED BY <1>5, <2>1, <2>4, <3>2 DEF Apply, SomebodyPaid
  <2> QED BY <1>5, <2>2, <2>3, <2>4 DEF Apply
<1>6. CASE ReturnCapture
  <2>1. AmountsReal'
    BY <1>0, <1>6 DEF ReturnCapture, Handled, NoHook, Hooks, Handlers
  <2>2. MoneyIsPlaced'
    BY <1>6 DEF ReturnCapture, Handled, MoneyIsPlaced, SomebodyPaid, Shapes, TypeOK
  <2> QED BY <1>6, <2>1, <2>2 DEF ReturnCapture, SomebodyPaid
<1>7. ASSUME NEW i \in Intents, MarkFailed(i)
      PROVE  MInv'
  <2>1. RowFails
    BY <1>7 DEF MarkFailed, Write, RowFails
  <2>2. MoneyIsPlaced'
    BY <1>7 DEF MarkFailed, MoneyIsPlaced, SomebodyPaid
  <2> QED BY <1>7, <2>1, <2>2, FailedRow DEF MarkFailed, SomebodyPaid, Settled,
             Refunded
<1>8. ASSUME NEW h \in Handlers, CrashHandler(h)
      PROVE  MInv'
  BY <1>0, <1>8 DEF CrashHandler, MoneyIsPlaced, SomebodyPaid, NoHook, Hooks
<1> QED BY <1>1, <1>2, <1>3, <1>4, <1>5, <1>6, <1>7, <1>8 DEF HandlerStep

(* The cleanup. *)
LEMMA RunMoney ==
  ASSUME Shapes, MInv, VoidReaped \/ OrganiserCancels \/ Resume \/ RunStep \/ CrashRun
  PROVE  MInv'
<1> USE DEF MInv, AmountsReal, SettledByPayment, SomebodyPaid, calm, rooms, stripe, ends,
            past, NoRun
<1>0. run \in Runs /\ row \in Rows
  BY DEF Shapes, RunShape, Runs, TypeOK, Rows
<1>1. CASE OrganiserCancels \/ Resume \/ CrashRun
  BY <1>0, <1>1 DEF OrganiserCancels, Resume, CrashRun, MoneyIsPlaced, Runs
<1>2. CASE ReadGroup
  BY <1>0, <1>2 DEF ReadGroup, MoneyIsPlaced
<1>3. CASE VoidOpen
  <2>1. MoneyIsPlaced'
    BY <1>0, <1>3, VoidMoney DEF VoidOpen, Runs
  <2> QED BY <1>0, <1>3, <2>1 DEF VoidOpen, Runs
<1>4. CASE FailRow
  BY <1>0, <1>4 DEF FailRow, Write, MoneyIsPlaced, Runs, Rows, Settled, Refunded
<1>5. CASE MakePlan
  <2>1. run'.status = run.status /\ run.at = "plan"
    BY <1>0, <1>5 DEF MakePlan, Runs
  <2> QED BY <1>5, <2>1 DEF MakePlan, MoneyIsPlaced
<1>6. CASE OweRefund
  BY <1>0, <1>6 DEF OweRefund, MoneyIsPlaced, Runs
<1>7. CASE RefundInline
  BY <1>0, <1>7 DEF RefundInline, MoneyIsPlaced, Runs
<1>8. CASE FlipInline
  BY <1>0, <1>8 DEF FlipInline, Write, MoneyIsPlaced, Runs, Rows, Shapes, RunShape,
     Settled
<1>9. ASSUME NEW c \in Children, CancelChild(c)
      PROVE  MInv'
  BY <1>0, <1>9 DEF CancelChild, MoneyIsPlaced, Runs
<1>10. CASE MarkGroupCancelled
  BY <1>10 DEF MarkGroupCancelled, MoneyIsPlaced
<1>11. CASE VoidReaped
  <2>1. MoneyIsPlaced'
    BY <1>11, VoidMoney DEF VoidReaped, Shapes, TypeOK
  <2> QED BY <1>11, <2>1 DEF VoidReaped
<1> QED BY <1>1, <1>2, <1>3, <1>4, <1>5, <1>6, <1>7, <1>8, <1>9, <1>10, <1>11
           DEF RunStep

(* The recovery job. *)
LEMMA ReplayMoney ==
  ASSUME Shapes, MInv, ReplayStep \/ CrashReplay
  PROVE  MInv'
<1> USE DEF MInv, AmountsReal, SettledByPayment, SomebodyPaid, MoneyIsPlaced, calm,
            rooms, stripe, ends, past, NoReplay
<1>0. replay \in Replays /\ row \in Rows
  BY DEF Shapes, ReplayShape, Replays, TypeOK, Rows
<1>1. CASE ReadPlan
  BY <1>0, <1>1 DEF ReadPlan, Settled, Replays
<1>2. CASE ReplayRefund
  BY <1>0, <1>2 DEF ReplayRefund, Replays
<1>3. CASE ReplayFlip
  BY <1>0, <1>3 DEF ReplayFlip, Write, Rows
<1>4. ASSUME NEW c \in Children, ReplayMirror(c)
      PROVE  MInv'
  BY <1>0, <1>4 DEF ReplayMirror, Replays
<1>5. CASE ReplayDone \/ CrashReplay
  BY <1>5 DEF ReplayDone, CrashReplay
<1> QED BY <1>1, <1>2, <1>3, <1>4, <1>5 DEF ReplayStep

----------------------------------------------------------------------------
(* The mirrors and the plan.                                                *)

(* What a child does not come back from. *)
Closed == {"PAID", "CANCELLED"}

(* A child is paid for once, when it becomes PAID. *)
PayOnce ==
  /\ \A c \in Children : child[c] \notin Closed => pay[c] = None
  /\ \A c \in Children : child[c] = "PAID" => pay[c] # None

(* Paid by an intent the row has not lost. *)
Kept(c) == pay[c] \in Intents \ strayed
(* The refund is all of the plan, from the intent that paid c. *)
PlanRefund(c) == refund = [intent |-> pay[c], cents |-> Planned(plan)]

(* As long as the row has not lost it, it names what paid. *)
RowNamesPayer == \A c \in Children : Kept(c) => row.intent = pay[c] /\ row.status \in Settled

(* The plan is for children that were paid for. *)
PlanOfPaid ==
  /\ \A c \in Children : plan[c] > 0 => child[c] \in Closed /\ pay[c] # None
  /\ row.status \in Refunded => plan # Nothing
  /\ \A c \in Children : row.status \in Refunded /\ plan[c] > 0 /\ Kept(c) => PlanRefund(c)

(* What the cleanup read still holds where it uses it. *)
RunView ==
  /\ run.had = Nothing
  /\ run.at \in {"fail", "mark", "plan", "owe", "refund", "flip"} => run.view = plan
  /\ run.at = "cancel" => run.view \in {plan, Nothing}
  /\ run.at \notin {"idle", "read"} =>
     /\ \A c \in run.billed : child[c] \in Closed /\ pay[c] # None
     /\ \A c \in Children : Kept(c) /\ (run.view[c] > 0 \/ c \in run.billed) =>
            run.intent = pay[c] /\ run.status \in Settled
     /\ \A c \in Children :
          /\ Kept(c) /\ run.view[c] > 0
          /\ run.at = "cancel" \/ run.status \in Refunded
          => PlanRefund(c)
     /\ run.status \in Refunded => plan # Nothing
  /\ run.at \in {"owe", "refund", "flip"} => plan # Nothing
  /\ run.at = "flip" => refund = Request(run.intent, run.view)

(* So does what the recovery job read. *)
ReplayView ==
  /\ replay.at # "idle" => plan # Nothing
  /\ replay.at = "flip" => refund = Request(replay.intent, plan)
  /\ replay.at \in {"refund", "flip"} =>
       \A c \in Children : plan[c] > 0 /\ Kept(c) => replay.intent = pay[c]
  /\ replay.at = "mirror" => \A c \in Children : plan[c] > 0 /\ Kept(c) => PlanRefund(c)
  /\ \A c \in replay.todo : plan[c] > 0

(* The inductive invariant of MirrorsFollowThePlan. *)
RInv == PayOnce /\ RowNamesPayer /\ PlanOfPaid /\ RunView /\ ReplayView
          /\ MirrorsFollowThePlan

(* What no step undoes. *)
Steady ==
  /\ \A c \in Children : child[c] \in Closed => child'[c] \in Closed /\ pay'[c] = pay[c]
  /\ \A c \in Children : child[c] = "CANCELLED" => child'[c] = "CANCELLED"
  /\ strayed \subseteq strayed'
  /\ refund # NoRefund => refund' = refund
  /\ plan # Nothing => plan' = plan

(* The initial state satisfies it. *)
LEMMA InitRInv == Init => RInv
BY NothingIsPlan DEF Init, RInv, PayOnce, RowNamesPayer, PlanOfPaid, RunView,
   ReplayView,
   MirrorsFollowThePlan, NoRun, NoReplay, Kept, Closed, Refunded, Nothing, None, Intents

(* A plan returns at most the price. *)
LEMMA PlanAmounts ==
  ASSUME NEW p \in Plans, NEW c \in Children
  PROVE  p[c] \in Nat /\ p[c] <= Price[c] /\ (p[c] > 0 => p # Nothing)
<1>1. p[c] \in Nat /\ p[c] <= Price[c]
  BY CentFacts DEF Plans
<1>2. p = Nothing => p[c] = 0
  BY DEF Nothing
<1> QED BY <1>1, <1>2

(* An intent is an intent. *)
LEMMA RealIntent == \A i \in Intents : i # None /\ i # Bank
BY TriesAssumption DEF Intents, None, Bank

(* The plan's children stay paid by what paid them, and what was refunded   *)
(* for them stays refunded.                                                 *)
LEMMA PlannedStays ==
  ASSUME Shapes, PlanOfPaid, Steady, UNCHANGED plan, NEW c \in Children, plan[c] > 0
  PROVE  /\ pay'[c] = pay[c]
         /\ Kept(c)' => Kept(c)
         /\ Kept(c) /\ PlanRefund(c) => PlanRefund(c)'
<1>1. pay'[c] = pay[c] /\ strayed \subseteq strayed'
  BY DEF PlanOfPaid, Steady
<1>2. ASSUME Kept(c), PlanRefund(c)
      PROVE  PlanRefund(c)'
  <2>1. refund # NoRefund
    BY <1>2, RealIntent DEF Kept, PlanRefund, NoRefund
  <2> QED BY <1>1, <1>2, <2>1 DEF Steady, PlanRefund
<1> QED BY <1>1, <1>2 DEF Kept

(* PayOnce, when nobody pays. *)
LEMMA PayOnceKept ==
  ASSUME PayOnce, Steady, pay' = pay,
         \A c \in Children : child'[c] = "PAID" => child[c] = "PAID"
  PROVE  PayOnce'
BY DEF PayOnce, Steady

(* RowNamesPayer and PlanOfPaid, when the plan stays. *)
LEMMA RowKept ==
  ASSUME Shapes, RowNamesPayer, PlanOfPaid, Steady, UNCHANGED <<plan, pay>>,
         row'.intent = row.intent,
         row'.status = row.status \/ (row.status \notin Settled /\ row'.status \notin Settled)
  PROVE  RowNamesPayer' /\ PlanOfPaid'
<1>1. ASSUME NEW c \in Children, Kept(c)'
      PROVE  row'.intent = pay'[c] /\ row'.status \in Settled
  BY <1>1 DEF Kept, Steady, RowNamesPayer
<1>2. \A c \in Children : plan'[c] > 0 => child'[c] \in Closed /\ pay'[c] # None
  BY DEF PlanOfPaid, Steady
<1>3. row'.status \in Refunded => plan' # Nothing /\ row.status \in Refunded
  BY DEF PlanOfPaid, Settled
<1>4. ASSUME NEW c \in Children, row'.status \in Refunded, plan'[c] > 0, Kept(c)'
      PROVE  PlanRefund(c)'
  <2>1. Kept(c) /\ (PlanRefund(c) => PlanRefund(c)')
    BY <1>4, PlannedStays
  <2> QED BY <2>1, <1>3, <1>4 DEF PlanOfPaid
<1> QED BY <1>1, <1>2, <1>3, <1>4 DEF RowNamesPayer, PlanOfPaid

(* RunView, when the cleanup does nothing. *)
LEMMA RunKept ==
  ASSUME Shapes, PlanOfPaid, RunView, Steady, UNCHANGED <<plan, run>>
  PROVE  RunView'
<1>0. run \in Runs /\ plan \in Plans /\ RunShape
  BY DEF Shapes, RunShape, Runs, TypeOK
<1>1. ASSUME NEW c \in Children, run.at \notin {"idle", "read"}, run.view[c] > 0
      PROVE  /\ run.view = plan /\ plan[c] > 0
             /\ Kept(c)' => Kept(c)
             /\ Kept(c) /\ PlanRefund(c) => PlanRefund(c)'
             /\ pay'[c] = pay[c]
  <2>1. run.view \in {plan, Nothing}
    BY <1>0, <1>1 DEF RunView, Runs, RunSteps
  <2>2. run.view = plan /\ plan[c] > 0
    BY <2>1, <1>1 DEF Nothing
  <2> QED BY <2>2, PlannedStays
<1>2. ASSUME run.at \notin {"idle", "read"}, NEW c \in run.billed
      PROVE  child'[c] \in Closed /\ pay'[c] = pay[c] /\ (Kept(c)' => Kept(c))
  BY <1>0, <1>2 DEF RunView, Steady, Runs, Kept
<1>3. ASSUME run.at \notin {"idle", "read"}
      PROVE  /\ \A c \in run'.billed : child'[c] \in Closed /\ pay'[c] # None
             /\ \A c \in Children : Kept(c)' /\ (run'.view[c] > 0 \/ c \in run'.billed) =>
                   run'.intent = pay'[c] /\ run'.status \in Settled
             /\ \A c \in Children : Kept(c)' /\ run'.view[c] > 0
                                      /\ (run'.at = "cancel" \/ run'.status \in Refunded)
                   => PlanRefund(c)'
             /\ run'.status \in Refunded => plan' # Nothing
  <2>1. \A c \in run'.billed : child'[c] \in Closed /\ pay'[c] # None
    BY <1>2, <1>3 DEF RunView
  <2>2. \A c \in Children : Kept(c)' /\ (run'.view[c] > 0 \/ c \in run'.billed) =>
                   run'.intent = pay'[c] /\ run'.status \in Settled
    BY <1>1, <1>2, <1>3 DEF RunView
  <2>3. \A c \in Children : Kept(c)' /\ run'.view[c] > 0
                                      /\ (run'.at = "cancel" \/ run'.status \in Refunded)
                   => PlanRefund(c)'
    BY <1>1, <1>3 DEF RunView
  <2> QED BY <2>1, <2>2, <2>3, <1>3 DEF RunView
<1>4. run.at = "flip" => refund' = refund
  <2>1. run.at = "flip" => refund.intent \in Intents
    BY <1>0 DEF RunShape, RunView, Request
  <2> QED BY <2>1, RealIntent DEF NoRefund, Steady
<1>5. Request(run'.intent, run'.view) = Request(run.intent, run.view)
  OBVIOUS
<1> QED BY <1>3, <1>4, <1>5 DEF RunView

(* ReplayView, when the recovery job does nothing. *)
LEMMA ReplayKept ==
  ASSUME Shapes, PlanOfPaid, ReplayView, Steady, UNCHANGED <<plan, replay>>
  PROVE  ReplayView'
<1>0. ReplayShape
  BY DEF Shapes
<1>1. ASSUME NEW c \in Children, plan[c] > 0
      PROVE  /\ Kept(c)' => Kept(c)
             /\ Kept(c) /\ PlanRefund(c) => PlanRefund(c)'
             /\ pay'[c] = pay[c]
  BY <1>1, PlannedStays
<1>2. replay.at = "flip" => refund' = refund
  <2>1. replay.at = "flip" => refund.intent \in Intents
    BY <1>0 DEF ReplayShape, ReplayView, Request
  <2> QED BY <2>1, RealIntent DEF NoRefund, Steady
<1>3. Request(replay'.intent, plan') = Request(replay.intent, plan)
  OBVIOUS
<1> QED BY <1>1, <1>2, <1>3 DEF ReplayView

(* The property, when no mirror is written. *)
LEMMA MirrorsKept ==
  ASSUME Shapes, PlanOfPaid, MirrorsFollowThePlan, Steady, UNCHANGED <<plan, mirror>>
  PROVE  MirrorsFollowThePlan'
<1> SUFFICES ASSUME NEW c \in Children, mirror'[c] > 0
             PROVE  /\ child'[c] = "CANCELLED" /\ mirror'[c] = plan'[c]
                    /\ pay'[c] \notin {Bank} \union strayed' => PlanRefund(c)'
  BY DEF MirrorsFollowThePlan, PlanRefund
<1>1. child[c] = "CANCELLED" /\ mirror[c] = plan[c] /\ plan[c] > 0
  BY DEF MirrorsFollowThePlan
<1>2. child'[c] = "CANCELLED"
  BY <1>1 DEF Steady
<1>3. ASSUME pay'[c] \notin {Bank} \union strayed'
      PROVE  PlanRefund(c)'
  <2>1. pay'[c] = pay[c] /\ pay[c] # None /\ strayed \subseteq strayed'
    BY <1>1, PlannedStays DEF PlanOfPaid, Steady
  <2>2. Kept(c) /\ PlanRefund(c)
    BY <1>3, <2>1 DEF Kept, PlanRefund, Shapes, TypeOK, MirrorsFollowThePlan
  <2> QED BY <1>1, <2>2, PlannedStays
<1> QED BY <1>1, <1>2, <1>3

(* A step that leaves the plan, the payments and the two refunders alone. *)
LEMMA QuietStep ==
  ASSUME Shapes, RInv, Steady, UNCHANGED <<plan, pay, run, replay, mirror>>,
         \A c \in Children : child'[c] = "PAID" => child[c] = "PAID",
         row'.intent = row.intent,
         row'.status = row.status \/ (row.status \notin Settled /\ row'.status \notin Settled)
  PROVE  RInv'
<1>1. PayOnce'
  BY PayOnceKept DEF RInv
<1>2. RowNamesPayer' /\ PlanOfPaid'
  BY RowKept DEF RInv
<1>3. RunView' /\ ReplayView' /\ MirrorsFollowThePlan'
  BY RunKept, ReplayKept, MirrorsKept DEF RInv
<1> QED BY <1>1, <1>2, <1>3 DEF RInv

(* What StepKeeps says of a step. *)
OutcomesKept == \A d \in Children : StaysClosed(d)

(* Closed children stay closed. *)
LEMMA SteadyChildren ==
  ASSUME OutcomesKept
  PROVE  /\ \A c \in Children : child[c] \in Closed => child'[c] \in Closed
         /\ \A c \in Children : child[c] = "CANCELLED" => child'[c] = "CANCELLED"
BY DEF OutcomesKept, StaysClosed, Closed

(* The joiners, the desk before it records, Stripe's events, the clock, the *)
(* reaper.                                                                  *)
LEMMA QuietMirrors ==
  ASSUME Shapes, RInv, OutcomesKept,
         \/ \E c \in Children : Join(c) \/ ReadLeave(c) \/ WriteLeave(c)
         \/ \E bank \in ByBank : StartSettlement(bank)
         \/ CheckIntent \/ CommitChildren \/ RefuseSettlement \/ MintIntent \/ VoidSuperseded
         \/ Answer \/ QueueInvoice \/ CrashDesk
         \/ \E i \in Intents : Capture(i) \/ Decline(i) \/ ReadSucceeded(i) \/ MarkFailed(i)
         \/ RaiseInvoice \/ PayInvoice \/ ReadPaidInvoice \/ ReturnCapture
         \/ \E h \in Handlers : CrashHandler(h)
         \/ Tick \/ DropTier \/ ReaperStep \/ CrashReaper
  PROVE  RInv'
<1> USE DEF calm, rooms, stripe, ends, past
<1> DEFINE Still == UNCHANGED <<plan, pay, run, replay, mirror, refund, strayed>>
           NoneSettled == /\ \A c \in Children : child'[c] = "PAID" => child[c] = "PAID"
                          /\ row'.intent = row.intent
                          /\ \/ row'.status = row.status
                             \/ row.status \notin Settled /\ row'.status \notin Settled
<1>0. row \in Rows /\ child \in Bookings
  BY DEF Shapes, TypeOK, Rows, Bookings
<1>1. ASSUME NEW c \in Children, Join(c) \/ ReadLeave(c) \/ WriteLeave(c)
      PROVE  Still /\ NoneSettled
  BY <1>0, <1>1 DEF Join, ReadLeave, WriteLeave, Bookings
<1>2. ASSUME NEW bank \in ByBank, StartSettlement(bank)
      PROVE  Still /\ NoneSettled
  BY <1>2 DEF StartSettlement
<1>3. ASSUME CheckIntent
      PROVE  Still /\ NoneSettled
  <2>1. \A c \in Children : child'[c] = "PAID" => child[c] = "PAID"
    BY <1>3 DEF CheckIntent, Commit
  <2> QED BY <1>3, <2>1 DEF CheckIntent
<1>4. ASSUME CommitChildren
      PROVE  Still /\ NoneSettled
  <2>1. \A c \in Children : child'[c] = "PAID" => child[c] = "PAID"
    BY <1>4 DEF CommitChildren, Commit
  <2> QED BY <1>4, <2>1 DEF CommitChildren
<1>5. ASSUME RefuseSettlement \/ MintIntent
      PROVE  Still /\ NoneSettled
  BY <1>5 DEF RefuseSettlement, MintIntent
<1>6. ASSUME VoidSuperseded \/ Answer
      PROVE  Still /\ NoneSettled
  BY <1>6 DEF VoidSuperseded, Answer
<1>7. ASSUME QueueInvoice \/ CrashDesk
      PROVE  Still /\ NoneSettled
  BY <1>7 DEF QueueInvoice, CrashDesk
<1>8. ASSUME NEW i \in Intents, Capture(i) \/ Decline(i) \/ ReadSucceeded(i)
      PROVE  Still /\ NoneSettled
  BY <1>8 DEF Capture, Decline, ReadSucceeded
<1>9. ASSUME NEW i \in Intents, MarkFailed(i)
      PROVE  Still /\ NoneSettled
  <2>1. row' = row \/ (row.status \notin Settled /\ row' = [row EXCEPT !.status = "FAILED",
                                                                       !.due = FALSE])
    BY <1>9 DEF MarkFailed, Write, Settled
  <2> QED BY <1>0, <1>9, <2>1 DEF MarkFailed, Rows, Settled, Refunded
<1>10. ASSUME RaiseInvoice \/ PayInvoice \/ DropTier
      PROVE  Still /\ NoneSettled
  BY <1>10 DEF RaiseInvoice, PayInvoice, DropTier
<1>11. ASSUME ReadPaidInvoice \/ ReturnCapture
      PROVE  Still /\ NoneSettled
  BY <1>11 DEF ReadPaidInvoice, ReturnCapture
<1>12. ASSUME NEW h \in Handlers, CrashHandler(h)
       PROVE  Still /\ NoneSettled
  BY <1>12 DEF CrashHandler
<1>13. ASSUME Tick
      PROVE  Still /\ NoneSettled
  BY <1>0, <1>13 DEF Tick, Rows
<1>14. ASSUME Scan \/ VoidReaped \/ CrashReaper
      PROVE  Still /\ NoneSettled
  BY <1>14 DEF Scan, VoidReaped, CrashReaper
<1>15. ASSUME Expire
      PROVE  Still /\ NoneSettled
  BY <1>0, <1>15 DEF Expire, Bookings
<1>16. ASSUME Release
      PROVE  Still /\ NoneSettled
  <2>1. \A c \in Children : child'[c] = "PAID" => child[c] = "PAID"
    BY <1>0, <1>16 DEF Release, Bookings
  <2>2. row' = row \/ (row.status \notin Settled /\ row' = [row EXCEPT !.status = "FAILED",
                                                                       !.due = FALSE])
    BY <1>16 DEF Release, Write, Settled, Refunded
  <2> QED BY <1>0, <1>16, <2>1, <2>2 DEF Release, Rows, Settled, Refunded
<1>17. Still /\ NoneSettled
  BY <1>1, <1>2, <1>3, <1>4, <1>5, <1>6, <1>7, <1>8, <1>9, <1>10, <1>11, <1>12,
     <1>13, <1>14,
     <1>15, <1>16 DEF ReaperStep
<1>18. Steady
  BY <1>17, SteadyChildren DEF Steady
<1> QED BY <1>17, <1>18, QuietStep

(* Writing over the row loses whoever had paid. *)
LEMMA NobodyKept ==
  ASSUME Shapes, pay' = pay, strayed' = strayed \union Payers, NEW c \in Children
  PROVE  ~Kept(c)'
BY DEF Kept, Payers, Paid

(* The row is written over: who was paid for is lost. *)
LEMMA RecordMirrors ==
  ASSUME Shapes, RInv, OutcomesKept, RecordSettlement
  PROVE  RInv'
<1>1. /\ UNCHANGED <<child, pay, plan, run, replay, mirror, refund>>
      /\ strayed' = strayed \union Payers /\ row'.status = "PENDING"
  BY DEF RecordSettlement, rooms, stripe, Write, Shapes, TypeOK
<1>2. Steady
  BY <1>1, SteadyChildren DEF Steady
<1>3. \A c \in Children : ~Kept(c)'
  BY <1>1, NobodyKept
<1>4. PayOnce'
  BY <1>1 DEF RInv, PayOnce
<1>5. RowNamesPayer' /\ PlanOfPaid'
  BY <1>1, <1>3 DEF RInv, RowNamesPayer, PlanOfPaid, Refunded
<1> QED BY <1>1, <1>2, <1>4, <1>5, RunKept, ReplayKept, MirrorsKept DEF RInv

(* A payment settles children that were not paid for. *)
LEMMA ApplyMirrors ==
  ASSUME Shapes, RInv, OutcomesKept, NEW h \in Handlers, Apply(h)
  PROVE  RInv'
<1>1. UNCHANGED <<plan, run, replay, mirror, refund>>
  BY DEF Apply, stripe
<1>2. CASE UNCHANGED <<child, pay, row, past>>
  <2>1. Steady
    BY <1>1, <1>2, SteadyChildren DEF Steady, past
  <2> QED BY <1>1, <1>2, <2>1, QuietStep
<1>3. CASE Settle(h, With({"CONFIRMED"}))
  <2> DEFINE beds == With({"CONFIRMED"})
  <2>0. \A c \in beds : c \in Children /\ child[c] = "CONFIRMED"
    BY DEF With
  <2>1. /\ child' = [c \in Children |-> IF c \in beds THEN "PAID" ELSE child[c]]
        /\ pay' = [c \in Children |-> IF c \in beds THEN hook[h].of ELSE pay[c]]
        /\ row'.intent = row.intent /\ row'.status = "SUCCEEDED"
        /\ strayed' = strayed \union {i \in Intents : i = hook[h].of /\ i # row.intent}
    BY <1>3 DEF Settle, Write, Shapes, TypeOK
  <2>2. hook[h].of # None
    BY RealIntent DEF Apply, Shapes, HookShape, Bank, None
  <2> HIDE DEF beds
  <2>3. Steady
    BY <1>1, <2>0, <2>1, SteadyChildren DEF Steady, Closed
  <2>4. PayOnce'
    BY <2>0, <2>1, <2>2 DEF RInv, PayOnce, Closed
  <2>5. RowNamesPayer'
    <3>1. ASSUME NEW c \in Children, Kept(c)'
          PROVE  row'.intent = pay'[c]
      <4>1. CASE c \in beds
        BY <2>1, <3>1, <4>1 DEF Kept
      <4>2. CASE c \notin beds
        BY <2>1, <3>1, <4>2 DEF Kept, RInv, RowNamesPayer
      <4> QED BY <4>1, <4>2
    <3> QED BY <2>1, <3>1 DEF RowNamesPayer, Settled
  <2>6. PlanOfPaid'
    BY <1>1, <2>1, <2>3 DEF RInv, PlanOfPaid, Steady, Refunded
  <2> QED BY <1>1, <2>3, <2>4, <2>5, <2>6, RunKept, ReplayKept, MirrorsKept DEF RInv
<1> QED BY <1>2, <1>3 DEF Apply

(* A step of the cleanup that leaves plan, payments and mirrors alone. *)
LEMMA RunStepQuiet ==
  ASSUME Shapes, RInv, Steady, UNCHANGED <<plan, pay, replay, mirror>>,
         \A c \in Children : child'[c] = "PAID" => child[c] = "PAID",
         UNCHANGED row, RunView'
  PROVE  RInv'
<1>1. PayOnce'
  BY PayOnceKept DEF RInv
<1>2. RowNamesPayer' /\ PlanOfPaid'
  BY RowKept DEF RInv
<1>3. ReplayView' /\ MirrorsFollowThePlan'
  BY ReplayKept, MirrorsKept DEF RInv
<1> QED BY <1>1, <1>2, <1>3 DEF RInv

(* A cleanup that goes on with what it read. *)
LEMMA RunGoesOn ==
  ASSUME Shapes, PlanOfPaid, RunView, Steady, UNCHANGED plan,
         run.at \notin {"idle", "read"}, run'.at \in RunSteps \ {"idle", "read"},
         run'.status = run.status, run'.intent = run.intent, run'.had = run.had,
         run'.billed = run.billed,
         run'.view = run.view \/ (run'.view = Nothing /\ run'.at = "cancel"),
         run.at = "cancel" => run'.at = "cancel",
         run'.at \in {"owe", "refund", "flip"} => plan # Nothing,
         run'.at = "flip" => refund' = Request(run'.intent, run'.view),
         run'.at = "cancel" =>
           \A c \in Children : Kept(c)' /\ run'.view[c] > 0 => PlanRefund(c)'
  PROVE  RunView'
<1>0. run \in Runs /\ plan \in Plans /\ RunShape
  BY DEF Shapes, RunShape, Runs, TypeOK
<1>1. run.view \in {plan, Nothing} /\ (run'.at # "cancel" => run'.view = plan)
      /\ (run'.view = run.view \/ run'.view = Nothing)
  BY <1>0 DEF RunView, Runs, RunSteps
<1>2. ASSUME NEW c \in Children, run'.view[c] > 0
      PROVE  /\ run'.view = plan /\ plan[c] > 0 /\ run.view[c] > 0
             /\ Kept(c)' => Kept(c)
             /\ Kept(c) /\ PlanRefund(c) => PlanRefund(c)'
             /\ pay'[c] = pay[c]
  <2>1. run'.view = run.view /\ run.view = plan
    BY <1>1, <1>2 DEF Nothing
  <2> QED BY <2>1, <1>2, PlannedStays
<1>3. ASSUME NEW c \in run.billed
      PROVE  child'[c] \in Closed /\ pay'[c] = pay[c] /\ pay[c] # None
             /\ (Kept(c)' => Kept(c))
  BY <1>0, <1>3 DEF RunView, Steady, Runs, Kept
<1>4. \A c \in run'.billed : child'[c] \in Closed /\ pay'[c] # None
  BY <1>3
<1>5. \A c \in Children : Kept(c)' /\ (run'.view[c] > 0 \/ c \in run'.billed) =>
                   run'.intent = pay'[c] /\ run'.status \in Settled
  BY <1>2, <1>3 DEF RunView
<1>6. \A c \in Children : Kept(c)' /\ run'.view[c] > 0
                            /\ (run'.at = "cancel" \/ run'.status \in Refunded)
                   => PlanRefund(c)'
  BY <1>2 DEF RunView
<1>7. run'.status \in Refunded => plan' # Nothing
  BY DEF RunView
<1>8. run'.at = "cancel" => run'.view \in {plan', Nothing}
  BY <1>1
<1> QED BY <1>1, <1>4, <1>5, <1>6, <1>7, <1>8 DEF RunView

(* What the cleanup reads. *)
LEMMA ReadGroupMirrors ==
  ASSUME Shapes, RInv, OutcomesKept, ReadGroup
  PROVE  RInv'
<1> USE DEF rooms, stripe, ends, past
<1>0. /\ UNCHANGED <<plan, pay, replay, mirror, child, row, refund, strayed>>
      /\ run'.at \in {"fail", "plan"} /\ run'.status = row.status /\ run'.intent = row.intent
      /\ run'.billed = With({"PAID"}) /\ run'.view = plan
      /\ run'.had = [c \in Children |-> IF child[c] \in Active THEN mirror[c] ELSE 0]
  BY DEF ReadGroup
<1>1. Steady
  BY <1>0, SteadyChildren DEF Steady
<1>2. run'.had = Nothing
  <2>1. \A c \in Children : child[c] \in Active => mirror[c] = 0
    <3>1. \A c \in Children : mirror[c] \in Nat /\ (mirror[c] > 0 => child[c] = "CANCELLED")
      BY PlanAmounts DEF RInv, MirrorsFollowThePlan, Shapes, TypeOK
    <3> QED BY <3>1 DEF Active
  <2> QED BY <1>0, <2>1 DEF Nothing
<1>3. \A c \in Children : /\ Kept(c)' <=> Kept(c)
                          /\ PlanRefund(c)' <=> PlanRefund(c)
  BY <1>0 DEF Kept, PlanRefund
<1>4. \A c \in run'.billed : child'[c] \in Closed /\ pay'[c] # None
  BY <1>0 DEF With, RInv, PayOnce, Closed
<1>5. \A c \in Children : Kept(c)' => run'.intent = pay'[c] /\ run'.status \in Settled
  BY <1>0, <1>3 DEF RInv, RowNamesPayer
<1>6. /\ run'.status \in Refunded => plan' # Nothing
      /\ \A c \in Children : Kept(c)' /\ run'.view[c] > 0 /\ run'.status \in Refunded
                               => PlanRefund(c)'
  BY <1>0, <1>3 DEF RInv, PlanOfPaid
<1>7. RunView'
  BY <1>0, <1>2, <1>4, <1>5, <1>6 DEF RunView
<1> QED BY <1>0, <1>1, <1>7, RunStepQuiet

(* The row written over. *)
LEMMA FailRowMirrors ==
  ASSUME Shapes, RInv, OutcomesKept, FailRow
  PROVE  RInv'
<1> USE DEF rooms, stripe
<1>0. run \in Runs
  BY DEF Shapes, RunShape, Runs
<1>1. /\ UNCHANGED <<child, pay, plan, replay, mirror, refund>>
      /\ strayed' = strayed \union Payers /\ row'.status = "FAILED"
      /\ run.at = "mark" /\ run' = [run EXCEPT !.at = "plan"]
  BY DEF FailRow, Write, Shapes, TypeOK
<1>2. Steady
  BY <1>1, SteadyChildren DEF Steady
<1>3. \A c \in Children : ~Kept(c)'
  BY <1>1, NobodyKept
<1>4. PayOnce'
  BY <1>1 DEF RInv, PayOnce
<1>5. RowNamesPayer' /\ PlanOfPaid'
  BY <1>1, <1>3 DEF RInv, RowNamesPayer, PlanOfPaid, Refunded
<1>6. RunView'
  BY <1>0, <1>1, <1>2, RunGoesOn DEF RInv, Runs, RunSteps
<1> QED BY <1>1, <1>2, <1>4, <1>5, <1>6, ReplayKept, MirrorsKept DEF RInv

(* The plan is recorded once. *)
LEMMA MakePlanMirrors ==
  ASSUME Shapes, RInv, OutcomesKept, MakePlan
  PROVE  RInv'
<1> USE DEF rooms, stripe, ends, past
<1> DEFINE fresh == run.view = Nothing /\ run.status = "SUCCEEDED"
           p == IF fresh THEN NewPlan ELSE run.view
<1>0. run \in Runs /\ run.view = plan /\ run.at = "plan" /\ plan \in Plans /\ p \in Plans
  BY NewPlanIsPlan DEF Shapes, RunShape, Runs, TypeOK, RInv, RunView, MakePlan
<1>1. /\ UNCHANGED <<pay, replay, mirror, child, row, refund, strayed>>
      /\ plan' = IF run.view = Nothing /\ Planned(p) > 0 THEN p ELSE plan
      /\ run' = [run EXCEPT !.view = p,
                           !.at = IF Planned(p) > 0 /\ run.intent # None
                                     /\ run.status = "SUCCEEDED"
                                  THEN "owe" ELSE "cancel"]
  BY DEF MakePlan
<1>2. Planned(p) \in Nat /\ (Planned(p) = 0 <=> p = Nothing)
  BY <1>0, PlanSums, EmptyPlan
<1>3. plan' = p
  BY <1>0, <1>1, <1>2
<1>4. \A c \in Children : p[c] > 0 => plan[c] > 0 \/ (fresh /\ c \in run.billed)
  BY <1>0 DEF NewPlan
<1> HIDE DEF p
<1>5. run'.view = p /\ run'.status = run.status /\ run'.intent = run.intent
      /\ run'.had = run.had /\ run'.billed = run.billed /\ run'.at \in {"owe", "cancel"}
      /\ (run'.at = "owe" => p # Nothing)
      /\ (run'.at = "cancel" => p = Nothing \/ run.intent = None \/ run.status # "SUCCEEDED")
  BY <1>0, <1>1, <1>2 DEF Runs
<1>6. Steady
  <2>1. plan # Nothing => plan' = plan
    BY <1>0, <1>1
  <2> QED BY <1>1, <2>1, SteadyChildren DEF Steady
<1>7. CASE plan' = plan
  <2>1. ASSUME run'.at = "cancel", NEW c \in Children, Kept(c)', run'.view[c] > 0
        PROVE  PlanRefund(c)'
    <3>1. plan[c] > 0 /\ p # Nothing
      BY <1>3, <1>5, <1>7, <2>1 DEF Nothing
    <3>2. Kept(c) /\ (PlanRefund(c) => PlanRefund(c)')
      BY <1>6, <1>7, <2>1, <3>1, PlannedStays DEF RInv
    <3>3. run.intent = pay[c] /\ run.status \in Settled
      BY <1>0, <3>1, <3>2 DEF RInv, RunView
    <3>4. run.intent # None
      BY <3>2, <3>3, RealIntent DEF Kept
    <3>5. run.status \in Refunded
      BY <1>5, <2>1, <3>1, <3>3, <3>4 DEF Settled
    <3> QED BY <1>0, <3>1, <3>2, <3>5 DEF RInv, RunView
  <2>2. RunView'
    BY <1>0, <1>3, <1>5, <1>6, <1>7, <2>1, RunGoesOn DEF RInv, RunSteps
  <2> QED BY <1>1, <1>6, <1>7, <2>2, RunStepQuiet
<1>8. CASE plan' # plan
  <2>0. plan = Nothing /\ fresh
    BY <1>0, <1>1, <1>3, <1>8 DEF p
  <2>1. \A c \in Children : p[c] > 0 => c \in run.billed
    BY <2>0, <1>4 DEF Nothing
  <2>2. row.status \notin Refunded /\ replay.at = "idle"
    BY <2>0 DEF RInv, PlanOfPaid, ReplayView
  <2>3. replay.todo = {}
    <3>1. replay.todo \subseteq Children
      BY DEF Shapes, TypeOK
    <3> QED BY <2>0, <3>1 DEF RInv, ReplayView, Nothing
  <2>4. \A c \in Children : ~(mirror[c] > 0)
    BY <2>0 DEF RInv, MirrorsFollowThePlan, Nothing
  <2>5. PayOnce' /\ RowNamesPayer'
    BY <1>1 DEF RInv, PayOnce, RowNamesPayer, Kept
  <2>6. \A c \in run.billed : c \in Children /\ child[c] \in Closed /\ pay[c] # None
    BY <1>0 DEF RInv, RunView, Runs
  <2>7. PlanOfPaid'
    BY <1>1, <1>3, <2>1, <2>2, <2>6 DEF PlanOfPaid
  <2>8. ReplayView'
    BY <1>1, <2>2, <2>3 DEF ReplayView
  <2>9. MirrorsFollowThePlan'
    BY <1>1, <2>4 DEF MirrorsFollowThePlan
  <2>10. ASSUME NEW c \in Children, Kept(c)', run'.view[c] > 0 \/ c \in run'.billed
         PROVE  run'.intent = pay'[c] /\ run'.status \in Settled
    <3>1. c \in run.billed /\ Kept(c)
      BY <1>1, <1>5, <2>1, <2>10 DEF Kept
    <3> QED BY <1>0, <1>1, <1>5, <3>1 DEF RInv, RunView
  <2>11. ASSUME run'.at = "cancel", NEW c \in Children, Kept(c)'
         PROVE  ~(run'.view[c] > 0)
    <3>1. SUFFICES ASSUME run'.view[c] > 0
                   PROVE  FALSE
      OBVIOUS
    <3>2. run.intent = pay[c] /\ pay[c] \in Intents
      BY <1>1, <1>5, <2>10, <2>11, <3>1 DEF Kept
    <3>3. run.intent # None
      BY <3>2, RealIntent
    <3>4. p # Nothing
      BY <1>5, <3>1 DEF Nothing
    <3> QED BY <1>5, <2>0, <2>11, <3>3, <3>4
  <2>12. RunView'
    <3>1. run'.status \notin Refunded
      BY <1>5, <2>0 DEF Refunded
    <3>2. run'.had = Nothing
      BY <1>5 DEF RInv, RunView
    <3>3. \A c \in run'.billed : child'[c] \in Closed /\ pay'[c] # None
      BY <1>1, <1>5, <2>6
    <3> QED BY <1>3, <1>5, <2>10, <2>11, <3>1, <3>2, <3>3 DEF RunView
  <2> QED BY <2>5, <2>7, <2>8, <2>9, <2>12 DEF RInv
<1> QED BY <1>7, <1>8

(* The cleanup begins, voids, owes, ends or stops. *)
LEMMA QuietRunMirrors ==
  ASSUME Shapes, RInv, OutcomesKept,
         OrganiserCancels \/ Resume \/ VoidOpen \/ OweRefund \/ MarkGroupCancelled \/ CrashRun
  PROVE  RInv'
<1> USE DEF calm, rooms, stripe, ends, past
<1>0. run \in Runs
  BY DEF Shapes, RunShape, Runs
<1>1. UNCHANGED <<plan, pay, replay, mirror, child, row, refund, strayed>>
  BY DEF OrganiserCancels, Resume, VoidOpen, OweRefund, MarkGroupCancelled, CrashRun
<1>2. Steady
  BY <1>1, SteadyChildren DEF Steady
<1>3. ASSUME OrganiserCancels \/ Resume
      PROVE  RunView'
  <2>1. run'.at = "read" /\ run'.had = run.had
    BY <1>0, <1>3 DEF OrganiserCancels, Resume, Runs
  <2> QED BY <2>1 DEF RunView, RInv
<1>4. ASSUME VoidOpen
      PROVE  RunView'
  <2>1. run.at = "fail" /\ run' = [run EXCEPT !.at = "mark"]
    BY <1>4 DEF VoidOpen
  <2> QED BY <1>0, <1>1, <1>2, <2>1, RunGoesOn DEF RInv, Runs, RunSteps
<1>5. ASSUME OweRefund
      PROVE  RunView'
  <2>1. run.at = "owe" /\ run' = [run EXCEPT !.at = "refund"] /\ plan # Nothing
    BY <1>5 DEF OweRefund, RInv, RunView
  <2> QED BY <1>0, <1>1, <1>2, <2>1, RunGoesOn DEF RInv, Runs, RunSteps
<1>6. ASSUME MarkGroupCancelled \/ CrashRun
      PROVE  RunView'
  BY <1>6 DEF MarkGroupCancelled, CrashRun, NoRun, RunView
<1>7. RunView'
  BY <1>3, <1>4, <1>5, <1>6
<1> QED BY <1>1, <1>2, <1>7, RunStepQuiet

(* What Stripe accepts it keeps. *)
LEMMA AcceptedStays ==
  ASSUME NEW r, Accepts(r), refund' \in {refund, r}
  PROVE  refund # NoRefund => refund' = refund
BY DEF Accepts

(* The refund is all of the recorded plan. *)
LEMMA RefundMirrors ==
  ASSUME Shapes, RInv, OutcomesKept, RefundInline
  PROVE  RInv'
<1> USE DEF rooms, past
<1> DEFINE r == Request(run.intent, run.view)
<1>0. run \in Runs /\ run.at = "refund" /\ plan # Nothing
  BY DEF Shapes, RunShape, Runs, RefundInline, RInv, RunView
<1>1. UNCHANGED <<plan, pay, replay, mirror, child, row, strayed>>
  BY DEF RefundInline
<1>2. \/ Accepts(r) /\ refund' = r /\ run' = [run EXCEPT !.at = "flip"]
      \/ /\ Accepts(r) /\ refund' \in {refund, r}
         /\ run' = [run EXCEPT !.at = "cancel", !.view = Nothing]
      \/ refund' = refund /\ run' = [run EXCEPT !.at = "cancel", !.view = Nothing]
  BY DEF RefundInline
<1>3. Steady
  <2>1. refund # NoRefund => refund' = refund
    BY <1>2, AcceptedStays
  <2> QED BY <1>1, <2>1, SteadyChildren DEF Steady
<1>4. RunView'
  <2>1. CASE refund' = r /\ run' = [run EXCEPT !.at = "flip"]
    <3>1. Request(run'.intent, run'.view) = r
      BY <1>0, <2>1 DEF Runs
    <3> HIDE DEF r
    <3> QED BY <1>0, <1>1, <1>3, <2>1, <3>1, RunGoesOn DEF RInv, Runs, RunSteps
  <2>2. CASE run' = [run EXCEPT !.at = "cancel", !.view = Nothing]
    <3>1. \A c \in Children : ~(run'.view[c] > 0)
      BY <1>0, <2>2 DEF Runs, Nothing
    <3> QED BY <1>0, <1>1, <1>3, <2>2, <3>1, RunGoesOn DEF RInv, Runs, RunSteps
  <2> QED BY <1>2, <2>1, <2>2
<1> QED BY <1>1, <1>3, <1>4, RunStepQuiet

(* The row says so once it was made. *)
LEMMA FlipMirrors ==
  ASSUME Shapes, RInv, OutcomesKept, FlipInline
  PROVE  RInv'
<1> USE DEF rooms, stripe
<1>0. run \in Runs /\ run.at = "flip" /\ plan # Nothing /\ run.view = plan
  BY DEF Shapes, RunShape, Runs, FlipInline, RInv, RunView
<1>1. /\ UNCHANGED <<plan, pay, replay, mirror, child, refund, strayed>>
      /\ row'.intent = row.intent /\ row'.status \in Refunded
      /\ run' = [run EXCEPT !.at = "cancel"]
  BY DEF FlipInline, Write, Flipped, Refunded, Shapes, TypeOK
<1>2. Steady
  BY <1>1, SteadyChildren DEF Steady
<1>3. ASSUME NEW c \in Children, Kept(c)', plan[c] > 0
      PROVE  PlanRefund(c)'
  <2>1. Kept(c)
    BY <1>1, <1>3 DEF Kept
  <2>2. refund = Request(run.intent, run.view) /\ run.intent = pay[c]
    BY <1>0, <1>3, <2>1 DEF RInv, RunView
  <2> QED BY <1>0, <1>1, <2>2 DEF Request, PlanRefund
<1>4. RunView'
  BY <1>0, <1>1, <1>2, <1>3, RunGoesOn DEF RInv, Runs, RunSteps
<1>5. PayOnce'
  BY <1>1 DEF RInv, PayOnce
<1>6. RowNamesPayer'
  BY <1>1 DEF RInv, RowNamesPayer, Kept, Settled
<1>7. PlanOfPaid'
  BY <1>0, <1>1, <1>3 DEF RInv, PlanOfPaid
<1> QED BY <1>1, <1>2, <1>4, <1>5, <1>6, <1>7, ReplayKept, MirrorsKept DEF RInv

(* A child's mirror is its share of the plan. *)
LEMMA CancelMirrors ==
  ASSUME Shapes, RInv, OutcomesKept, NEW c \in Children, CancelChild(c)
  PROVE  RInv'
<1> USE DEF stripe, ends, past
<1>0. run \in Runs /\ run.at = "cancel" /\ run.had = Nothing /\ plan \in Plans
      /\ run.view \in {plan, Nothing}
  BY DEF Shapes, RunShape, Runs, TypeOK, CancelChild, RInv, RunView
<1>1. /\ UNCHANGED <<plan, pay, replay, row, refund, strayed>>
      /\ run' = [run EXCEPT !.kids = @ \ {c}]
      /\ child' = child \/ child' = [child EXCEPT ![c] = "CANCELLED"]
  BY DEF CancelChild
<1>2. Steady
  BY <1>1, SteadyChildren DEF Steady
<1>3. \A d \in Children : child'[d] = "PAID" => child[d] = "PAID"
  BY <1>1 DEF Shapes, TypeOK
<1>4. RunView'
  <2>1. ASSUME NEW d \in Children, Kept(d)', run'.view[d] > 0
        PROVE  PlanRefund(d)'
    <3>1. Kept(d) /\ run.view[d] > 0
      BY <1>0, <1>1, <2>1 DEF Kept, Runs
    <3>2. PlanRefund(d)
      BY <1>0, <3>1 DEF RInv, RunView
    <3> QED BY <1>1, <3>2 DEF PlanRefund
  <2> QED BY <1>0, <1>1, <1>2, <2>1, RunGoesOn DEF RInv, Runs, RunSteps
<1>5. PayOnce'
  BY <1>1, <1>2, <1>3, PayOnceKept DEF RInv
<1>6. RowNamesPayer' /\ PlanOfPaid'
  BY <1>1, <1>2, RowKept DEF RInv
<1>7. ReplayView'
  BY <1>1, <1>2, ReplayKept DEF RInv
<1>8. CASE mirror' = mirror
  BY <1>1, <1>2, <1>4, <1>5, <1>6, <1>7, <1>8, MirrorsKept DEF RInv
<1>9. CASE /\ run.view[c] > 0 /\ child' = [child EXCEPT ![c] = "CANCELLED"]
           /\ mirror' = [mirror EXCEPT ![c] = Least(Price[c], run.had[c] + run.view[c])]
  <2>1. run.view = plan /\ plan[c] > 0 /\ run.had[c] = 0
    BY <1>0, <1>9 DEF Nothing
  <2>2. Least(Price[c], run.had[c] + run.view[c]) = plan[c]
    <3>1. plan[c] \in Nat /\ plan[c] <= Price[c] /\ Price[c] \in Nat
      BY <1>0, PlanAmounts, CentFacts
    <3>2. run.had[c] + run.view[c] = plan[c]
      BY <2>1, <3>1
    <3> QED BY <3>1, <3>2 DEF Least
  <2>3. mirror' = [mirror EXCEPT ![c] = plan[c]]
    BY <1>9, <2>2
  <2>4. ASSUME NEW d \in Children, mirror'[d] > 0
        PROVE  /\ child'[d] = "CANCELLED" /\ mirror'[d] = plan'[d]
               /\ pay'[d] \notin {Bank} \union strayed' => PlanRefund(d)'
    <3>1. CASE d = c
      <4>1. child'[d] = "CANCELLED" /\ mirror'[d] = plan'[d]
        BY <1>1, <1>9, <2>3, <3>1 DEF Shapes, TypeOK, Plans
      <4>2. ASSUME pay[d] \notin {Bank} \union strayed
            PROVE  Kept(d) /\ PlanRefund(d)
        <5>1. Kept(d)
          BY <2>1, <3>1, <4>2 DEF Kept, RInv, PlanOfPaid, Shapes, TypeOK
        <5> QED BY <1>0, <2>1, <3>1, <5>1 DEF RInv, RunView
      <4> QED BY <1>1, <4>1, <4>2 DEF PlanRefund
    <3>2. CASE d # c
      <4>1. mirror'[d] = mirror[d] /\ child'[d] = child[d]
        BY <1>9, <2>3, <3>2 DEF Shapes, TypeOK
      <4> QED BY <1>1, <2>4, <4>1 DEF RInv, MirrorsFollowThePlan, PlanRefund
    <3> QED BY <3>1, <3>2
  <2>5. MirrorsFollowThePlan'
    BY <2>4 DEF MirrorsFollowThePlan, PlanRefund
  <2> QED BY <1>4, <1>5, <1>6, <1>7, <2>5 DEF RInv
<1> QED BY <1>8, <1>9 DEF CancelChild

(* The recovery job refunds and mirrors the same plan. *)
LEMMA ReplayMirrors ==
  ASSUME Shapes, RInv, OutcomesKept, ReplayStep \/ CrashReplay
  PROVE  RInv'
<1> USE DEF calm, rooms, stripe, ends, past
<1>0. replay \in Replays /\ ReplayShape /\ plan \in Plans
  BY DEF Shapes, ReplayShape, Replays, TypeOK
<1>s. ASSUME Steady, UNCHANGED <<plan, pay, run, mirror, child, row>>, ReplayView'
      PROVE  RInv'
  <2>1. PayOnce'
    BY <1>s DEF RInv, PayOnce
  <2>2. RowNamesPayer' /\ PlanOfPaid'
    BY <1>s, RowKept DEF RInv
  <2> QED BY <1>s, <2>1, <2>2, RunKept, MirrorsKept DEF RInv
<1>n. ASSUME replay' = NoReplay
      PROVE  ReplayView'
  BY <1>n DEF ReplayView, NoReplay
<1>1. CASE ReadPlan
  <2>1. UNCHANGED <<plan, pay, run, mirror, child, row, refund, strayed>>
    BY <1>1 DEF ReadPlan
  <2>2. Steady
    BY <2>1, SteadyChildren DEF Steady
  <2>3. Planned(plan) \in Nat /\ (Planned(plan) > 0 => plan # Nothing)
    BY <1>0, PlanSums, EmptyPlan
  <2>4. CASE /\ Planned(plan) > 0
             /\ replay' = [at |-> "refund", intent |-> row.intent, amount |-> row.amount,
                           todo |-> {}]
    <3>1. \A c \in Children : Kept(c)' => row.intent = pay'[c]
      BY <2>1 DEF Kept, RInv, RowNamesPayer
    <3>2. ReplayView'
      BY <2>1, <2>3, <2>4, <3>1 DEF ReplayView
    <3> QED BY <1>s, <2>1, <2>2, <3>2
  <2>5. CASE /\ Planned(plan) > 0 /\ row.status \in Refunded
             /\ replay' = [NoReplay EXCEPT !.at = "mirror", !.todo = Mirrorable]
    <3>1. \A c \in Children : plan'[c] > 0 /\ Kept(c)' => PlanRefund(c)'
      BY <2>1, <2>5 DEF Kept, PlanRefund, RInv, PlanOfPaid
    <3>2. ReplayView'
      BY <2>1, <2>3, <2>5, <3>1 DEF ReplayView, NoReplay, Mirrorable
    <3> QED BY <1>s, <2>1, <2>2, <3>2
  <2>6. CASE replay' = replay
    <3>1. ReplayView'
      BY <2>1, <2>2, <2>6, ReplayKept DEF RInv
    <3> QED BY <1>s, <2>1, <2>2, <3>1
  <2> QED BY <1>1, <2>4, <2>5, <2>6 DEF ReadPlan
<1>2. CASE ReplayRefund
  <2> DEFINE r == Request(replay.intent, plan)
  <2>1. UNCHANGED <<plan, pay, run, mirror, child, row, strayed>>
    BY <1>2 DEF ReplayRefund
  <2>2. \/ Accepts(r) /\ refund' = r /\ replay' = [replay EXCEPT !.at = "flip"]
        \/ Accepts(r) /\ refund' \in {refund, r} /\ replay' = NoReplay
        \/ refund' = refund /\ replay' = NoReplay
    BY <1>2 DEF ReplayRefund
  <2>3. Steady
    <3>1. refund # NoRefund => refund' = refund
      BY <2>2, AcceptedStays
    <3> QED BY <2>1, <3>1, SteadyChildren DEF Steady
  <2>4. CASE refund' = r /\ replay' = [replay EXCEPT !.at = "flip"]
    <3>1. replay.at = "refund" /\ replay'.at = "flip" /\ replay'.intent = replay.intent
          /\ replay'.todo = replay.todo
      BY <1>0, <1>2, <2>4 DEF ReplayRefund, Replays
    <3>2. refund' = Request(replay'.intent, plan')
      BY <2>1, <2>4, <3>1
    <3>3. \A c \in Children : plan'[c] > 0 /\ Kept(c)' => replay'.intent = pay'[c]
      BY <2>1, <3>1 DEF RInv, ReplayView, Kept
    <3>4. ReplayView'
      BY <2>1, <3>1, <3>2, <3>3 DEF RInv, ReplayView
    <3> QED BY <1>s, <2>1, <2>3, <3>4
  <2> QED BY <1>n, <1>s, <2>1, <2>2, <2>3, <2>4
<1>3. CASE ReplayFlip
  <2>1. /\ UNCHANGED <<plan, pay, run, mirror, child, refund, strayed>>
        /\ row'.intent = row.intent /\ row'.status \in Refunded /\ replay.at = "flip"
        /\ replay' = [NoReplay EXCEPT !.at = "mirror", !.todo = Mirrorable]
    BY <1>3 DEF ReplayFlip, Write, Flipped, Refunded, Shapes, TypeOK
  <2>2. Steady
    BY <2>1, SteadyChildren DEF Steady
  <2>3. ASSUME NEW c \in Children, Kept(c)', plan'[c] > 0
        PROVE  PlanRefund(c)'
    <3>1. Kept(c) /\ plan[c] > 0
      BY <2>1, <2>3 DEF Kept
    <3>2. refund = Request(replay.intent, plan) /\ replay.intent = pay[c]
      BY <2>1, <3>1 DEF RInv, ReplayView
    <3> QED BY <2>1, <3>2 DEF Request, PlanRefund
  <2>4. plan # Nothing
    BY <2>1 DEF RInv, ReplayView
  <2>5. ReplayView'
    BY <2>1, <2>3, <2>4 DEF ReplayView, NoReplay, Mirrorable
  <2>6. PayOnce'
    BY <2>1 DEF RInv, PayOnce
  <2>7. RowNamesPayer'
    BY <2>1 DEF RInv, RowNamesPayer, Kept, Settled
  <2>8. PlanOfPaid'
    BY <2>1, <2>3, <2>4 DEF RInv, PlanOfPaid
  <2> QED BY <2>1, <2>2, <2>5, <2>6, <2>7, <2>8, RunKept, MirrorsKept DEF RInv
<1>4. ASSUME NEW c \in Children, ReplayMirror(c)
      PROVE  RInv'
  <2>1. /\ UNCHANGED <<plan, pay, run, child, row, refund, strayed>>
        /\ replay.at = "mirror" /\ c \in replay.todo
        /\ replay' = [replay EXCEPT !.todo = @ \ {c}]
    BY <1>4 DEF ReplayMirror
  <2>2. Steady
    BY <2>1, SteadyChildren DEF Steady
  <2>3. replay'.at = "mirror" /\ replay'.todo \subseteq replay.todo
    BY <1>0, <2>1 DEF Replays
  <2>4. ReplayView'
    BY <2>1, <2>3 DEF RInv, ReplayView, Kept, PlanRefund
  <2>5. CASE mirror' = mirror
    BY <1>s, <2>1, <2>2, <2>4, <2>5
  <2>6. CASE /\ child[c] = "CANCELLED"
             /\ mirror' = [mirror EXCEPT ![c] = Least(Price[c], plan[c])]
    <3>1. plan[c] > 0 /\ Least(Price[c], plan[c]) = plan[c]
      <4>1. plan[c] \in Nat /\ plan[c] <= Price[c] /\ Price[c] \in Nat
        BY <1>0, PlanAmounts, CentFacts
      <4> QED BY <2>1, <4>1 DEF RInv, ReplayView, Least
    <3>2. ASSUME NEW d \in Children, mirror'[d] > 0
          PROVE  /\ child'[d] = "CANCELLED" /\ mirror'[d] = plan'[d]
                 /\ pay'[d] \notin {Bank} \union strayed' => PlanRefund(d)'
      <4>1. CASE d = c
        <5>1. mirror'[d] = plan'[d]
          BY <2>1, <2>6, <3>1, <4>1 DEF Shapes, TypeOK, Plans
        <5>2. ASSUME pay[d] \notin {Bank} \union strayed
              PROVE  PlanRefund(d)
          <6>1. Kept(d)
            BY <3>1, <4>1, <5>2 DEF Kept, RInv, PlanOfPaid, Shapes, TypeOK
          <6> QED BY <2>1, <3>1, <4>1, <6>1 DEF RInv, ReplayView
        <5> QED BY <2>1, <2>6, <4>1, <5>1, <5>2 DEF PlanRefund
      <4>2. CASE d # c
        <5>1. mirror'[d] = mirror[d]
          BY <2>6, <4>2 DEF Shapes, TypeOK
        <5> QED BY <2>1, <3>2, <5>1 DEF RInv, MirrorsFollowThePlan, PlanRefund
      <4> QED BY <4>1, <4>2
    <3>3. MirrorsFollowThePlan'
      BY <3>2 DEF MirrorsFollowThePlan, PlanRefund
    <3>4. PayOnce'
      BY <2>1 DEF RInv, PayOnce
    <3>5. RowNamesPayer' /\ PlanOfPaid'
      BY <2>1, <2>2, RowKept DEF RInv
    <3> QED BY <2>1, <2>2, <2>4, <3>3, <3>4, <3>5, RunKept DEF RInv
  <2> QED BY <1>4, <2>5, <2>6 DEF ReplayMirror
<1>5. CASE ReplayDone \/ CrashReplay
  <2>1. UNCHANGED <<plan, pay, run, mirror, child, row, refund, strayed>>
        /\ replay' = NoReplay
    BY <1>5 DEF ReplayDone, CrashReplay
  <2>2. Steady
    BY <2>1, SteadyChildren DEF Steady
  <2> QED BY <1>n, <1>s, <2>1, <2>2
<1> QED BY <1>1, <1>2, <1>3, <1>4, <1>5 DEF ReplayStep

----------------------------------------------------------------------------
(* What paid is real.                                                       *)

(* The row offers an intent for the amount it was made for. *)
Offers ==
  /\ row.intent \in Intents =>
       intent[row.intent].st # "none" /\ row.amount = intent[row.intent].amount
  /\ desk.at = "record" /\ ~desk.bank =>
       intent[desk.pi].st # "none" /\ desk.total = intent[desk.pi].amount

(* A handler applies what was captured; Stripe's event is there until it is *)
(* handled, and the desk applies the intent of the row.                     *)
EventsReal ==
  /\ \A i \in Intents : <<"succeeded", i>> \in mail => intent[i].st = "captured"
  /\ \A h \in {"desk", "stripe"} : hook[h].at = "apply" =>
        intent[hook[h].of].st = "captured" /\ hook[h].amount = intent[hook[h].of].amount
  /\ hook["stripe"].at # "idle" => <<"succeeded", hook["stripe"].of>> \in mail
  /\ hook["desk"].at # "idle" => desk.at = "apply" /\ row.intent = hook["desk"].of

(* An intent that paid is closed: the row says so, nobody settles while its *)
(* event is under way, and the webhook has not decided to return it.        *)
Done(i) ==
  Paid(i) # {} =>
    /\ row.intent = i => row.status = "SUCCEEDED"
    /\ <<"succeeded", i>> \in mail => row.intent = i /\ desk = AtRest
    /\ hook["stripe"].at = "return" => hook["stripe"].of # i

(* The inductive invariant of PaidByItsIntent. *)
PInv == Offers /\ EventsReal /\ (\A i \in Intents \ reused : Done(i)) /\ PaidByItsIntent

(* The initial state satisfies it. *)
LEMMA InitPInv == Init => PInv
BY RealIntent DEF Init, PInv, Offers, EventsReal, Done, PaidByItsIntent, Paid,
   AtRest, NoHook,
   Handlers, None

(* What no step does to an intent. *)
IntentsStay ==
  \A i \in Intents :
    /\ intent[i].st # "none" => intent'[i].st # "none" /\ intent'[i].amount = intent[i].amount
    /\ intent[i].st = "captured" => intent'[i].st = "captured"

(* Captured money is not returned by this step. *)
BacksStay == \A i \in Intents : intent[i].st = "captured" => intent'[i].back = intent[i].back

(* The property, when nobody pays and nothing is returned. *)
LEMMA PaidKept ==
  ASSUME PaidByItsIntent, IntentsStay, BacksStay, pay' = pay, reused \subseteq reused'
  PROVE  PaidByItsIntent'
<1> SUFFICES ASSUME NEW i \in Intents \ reused', Paid(i)' # {}
             PROVE  /\ intent'[i].st = "captured" /\ Sum(Price, Paid(i)') = intent'[i].amount
                    /\ ~intent'[i].back
  BY DEF PaidByItsIntent
<1>1. Paid(i)' = Paid(i)
  BY DEF Paid
<1>2. intent[i].st = "captured" /\ Sum(Price, Paid(i)) = intent[i].amount /\ ~intent[i].back
  BY <1>1 DEF PaidByItsIntent
<1> QED BY <1>1, <1>2 DEF IntentsStay, BacksStay

(* EventsReal, when no handler moves. *)
LEMMA EventsKept ==
  ASSUME Shapes, EventsReal, IntentsStay, UNCHANGED hook,
         \A i \in Intents : <<"succeeded", i>> \in mail' <=> <<"succeeded", i>> \in mail,
         hook["desk"].at # "idle" => UNCHANGED desk /\ row'.intent = row.intent
  PROVE  EventsReal'
<1>1. \A h \in {"desk", "stripe"} : hook[h].at # "idle" => hook[h].of \in Intents
  BY DEF Shapes, HookShape, Handlers
<1> QED BY <1>1 DEF EventsReal, IntentsStay

(* Steps that are not about the intents. *)
LEMMA QuietPaid ==
  ASSUME Shapes, PInv, IntentsStay, BacksStay, UNCHANGED <<pay, hook, desk>>,
         reused \subseteq reused', row'.intent = row.intent, row'.amount = row.amount,
         row.status = "SUCCEEDED" => row'.status = "SUCCEEDED" \/ row.intent \in reused',
         \A i \in Intents : <<"succeeded", i>> \in mail' <=> <<"succeeded", i>> \in mail
  PROVE  PInv'
<1>1. PaidByItsIntent' /\ EventsReal'
  BY PaidKept, EventsKept DEF PInv
<1>2. Offers'
  BY DEF PInv, Offers, IntentsStay, Shapes, DeskShape
<1>3. ASSUME NEW i \in Intents \ reused'
      PROVE  Done(i)'
  <2>1. Paid(i)' = Paid(i)
    BY DEF Paid
  <2> QED BY <1>3, <2>1 DEF PInv, Done
<1> QED BY <1>1, <1>2, <1>3 DEF PInv

(* Steps of a settlement: as long as it runs, no intent that paid has an    *)
(* event under way.                                                         *)
LEMMA DeskPaid ==
  ASSUME Shapes, PInv, IntentsStay, BacksStay, UNCHANGED <<pay, hook>>,
         reused \subseteq reused', Offers', hook["desk"].at = "idle",
         desk # AtRest \/ row.status # "SUCCEEDED",
         \A i \in Intents \ reused' :
           Paid(i) # {} /\ row'.intent = i => row'.status = "SUCCEEDED",
         \A i \in Intents : <<"succeeded", i>> \in mail' <=> <<"succeeded", i>> \in mail
  PROVE  PInv'
<1>1. PaidByItsIntent' /\ EventsReal'
  BY PaidKept, EventsKept DEF PInv
<1>2. ASSUME NEW i \in Intents \ reused'
      PROVE  Done(i)'
  <2>1. Paid(i)' = Paid(i)
    BY DEF Paid
  <2> QED BY <1>2, <2>1 DEF PInv, Done
<1> QED BY <1>1, <1>2 DEF PInv

(* Voiding an intent touches nothing that was captured. *)
LEMMA VoidStays ==
  ASSUME Shapes, NEW i \in Intents \union {None},
         TryVoid(i) \/ UNCHANGED <<intent, mail, faults>>
  PROVE  /\ IntentsStay /\ BacksStay
         /\ \A j \in Intents : <<"succeeded", j>> \in mail' <=> <<"succeeded", j>> \in mail
<1>1. \A j \in Intents : <<"succeeded", j>> \in mail' <=> <<"succeeded", j>> \in mail
  BY DEF TryVoid, Void
<1>2. IntentsStay /\ BacksStay
  <2>1. CASE intent' = intent
    BY <2>1 DEF IntentsStay, BacksStay
  <2>2. CASE /\ i # None /\ intent[i].st = "open"
             /\ intent' = [intent EXCEPT ![i].st = "canceled"]
    BY <2>2 DEF IntentsStay, BacksStay, Shapes, TypeOK
  <2> QED BY <2>1, <2>2 DEF TryVoid, Void
<1> QED BY <1>1, <1>2

(* The joiners, Xero, the clock, the reaper, the cleanup, the recovery job. *)
LEMMA QuietStepsPaid ==
  ASSUME Shapes, PInv,
         \/ \E c \in Children : Join(c) \/ ReadLeave(c) \/ WriteLeave(c)
         \/ \E i \in Intents : Decline(i) \/ MarkFailed(i)
         \/ RaiseInvoice \/ PayInvoice \/ Tick \/ DropTier \/ ReaperStep \/ CrashReaper
         \/ OrganiserCancels \/ Resume \/ RunStep \/ CrashRun \/ ReplayStep \/ CrashReplay
  PROVE  PInv'
<1> USE DEF calm, rooms, stripe, ends, past
<1> DEFINE Rest ==
      /\ UNCHANGED <<pay, hook, desk>> /\ reused \subseteq reused'
      /\ row'.intent = row.intent /\ row'.amount = row.amount
      /\ row.status = "SUCCEEDED" => row'.status = "SUCCEEDED" \/ row.intent \in reused'
           Same == UNCHANGED <<intent, mail>>
           Kinds == /\ IntentsStay /\ BacksStay
                    /\ \A j \in Intents : <<"succeeded", j>> \in mail'
                                            <=> <<"succeeded", j>> \in mail
<1>0. row \in Rows
  BY DEF Shapes, TypeOK, Rows
<1>s. ASSUME intent' = intent,
             \A j \in Intents : <<"succeeded", j>> \in mail' <=> <<"succeeded", j>> \in mail
      PROVE  Kinds
  BY <1>s DEF IntentsStay, BacksStay
<1>1. ASSUME NEW c \in Children, Join(c) \/ ReadLeave(c) \/ WriteLeave(c)
      PROVE  Rest /\ Same
  BY <1>1 DEF Join, ReadLeave, WriteLeave
<1>2. ASSUME NEW i \in Intents, Decline(i)
      PROVE  Rest /\ Kinds
  <2>1. intent' = intent /\ mail' = mail \union {<<"failed", i>>}
    BY <1>2 DEF Decline
  <2> QED BY <1>2, <1>s, <2>1 DEF Decline
<1>3. ASSUME NEW i \in Intents, MarkFailed(i)
      PROVE  Rest /\ Kinds
  <2>1. intent' = intent /\ mail' = mail \ {<<"failed", i>>}
    BY <1>3 DEF MarkFailed
  <2>2. row' = row \/ (row.status # "SUCCEEDED" /\ row' = [row EXCEPT !.status = "FAILED",
                                                                     !.due = FALSE])
    BY <1>3 DEF MarkFailed, Write
  <2>3. Rest
    BY <1>0, <1>3, <2>2 DEF MarkFailed, Rows
  <2> QED BY <1>s, <2>1, <2>3
<1>4. ASSUME RaiseInvoice \/ DropTier
      PROVE  Rest /\ Same
  BY <1>4 DEF RaiseInvoice, DropTier
<1>5. ASSUME PayInvoice
      PROVE  Rest /\ Kinds
  <2>1. intent' = intent /\ mail' = mail \union {<<"paid", Bank>>}
    BY <1>5 DEF PayInvoice
  <2> QED BY <1>5, <1>s, <2>1 DEF PayInvoice
<1>6. ASSUME Tick
      PROVE  Rest /\ Same
  BY <1>0, <1>6 DEF Tick, Rows
<1>7. ASSUME Scan \/ Expire \/ CrashReaper
      PROVE  Rest /\ Same
  BY <1>7 DEF Scan, Expire, CrashReaper
<1>8. ASSUME Release
      PROVE  Rest /\ Same
  <2>1. row' = row \/ (row.status # "SUCCEEDED" /\ row' = [row EXCEPT !.status = "FAILED",
                                                                     !.due = FALSE])
    BY <1>8 DEF Release, Write
  <2> QED BY <1>0, <1>8, <2>1 DEF Release, Rows
<1>9. ASSUME VoidReaped
      PROVE  Rest /\ Kinds
  <2>1. Kinds
    BY <1>9, VoidStays DEF VoidReaped, Shapes, TypeOK
  <2> QED BY <1>9, <2>1 DEF VoidReaped
<1>10. ASSUME OrganiserCancels \/ Resume \/ CrashRun \/ ReadGroup
       PROVE  Rest /\ Same
  BY <1>10 DEF OrganiserCancels, Resume, CrashRun, ReadGroup
<1>11. ASSUME VoidOpen
       PROVE  Rest /\ Kinds
  <2>1. Kinds
    BY <1>11, VoidStays DEF VoidOpen, Shapes, RunShape
  <2> QED BY <1>11, <2>1 DEF VoidOpen
<1>12. ASSUME FailRow
       PROVE  Rest /\ Same
  <2>1. row' = [row EXCEPT !.status = "FAILED", !.due = FALSE]
        /\ reused' = IF row.status = "SUCCEEDED" THEN reused \union {row.intent} ELSE reused
    BY <1>12 DEF FailRow, Write
  <2> QED BY <1>0, <1>12, <2>1 DEF FailRow, Rows
<1>13. ASSUME MakePlan \/ OweRefund \/ RefundInline \/ MarkGroupCancelled
       PROVE  Rest /\ Same
  BY <1>13 DEF MakePlan, OweRefund, RefundInline, MarkGroupCancelled
<1>14. ASSUME FlipInline
       PROVE  Rest /\ Same
  <2>1. row'.intent = row.intent /\ row'.amount = row.amount
        /\ reused' = reused \union {row.intent}
    BY <1>0, <1>14 DEF FlipInline, Write, Rows
  <2> QED BY <1>14, <2>1 DEF FlipInline
<1>15. ASSUME NEW c \in Children, CancelChild(c)
       PROVE  Rest /\ Same
  BY <1>15 DEF CancelChild
<1>16. ASSUME ReadPlan \/ ReplayRefund \/ ReplayDone \/ CrashReplay
       PROVE  Rest /\ Same
  BY <1>16 DEF ReadPlan, ReplayRefund, ReplayDone, CrashReplay
<1>17. ASSUME ReplayFlip
       PROVE  Rest /\ Same
  <2>1. row'.intent = row.intent /\ row'.amount = row.amount
        /\ reused' = reused \union {row.intent}
    BY <1>0, <1>17 DEF ReplayFlip, Write, Rows
  <2> QED BY <1>17, <2>1 DEF ReplayFlip
<1>18. ASSUME NEW c \in Children, ReplayMirror(c)
       PROVE  Rest /\ Same
  BY <1>18 DEF ReplayMirror
<1>19. Rest /\ (Same \/ Kinds)
  <2> HIDE DEF Rest, Same, Kinds
  <2> QED BY <1>1, <1>2, <1>3, <1>4, <1>5, <1>6, <1>7, <1>8, <1>9, <1>10, <1>11,
             <1>12, <1>13,
             <1>14, <1>15, <1>16, <1>17, <1>18 DEF ReaperStep, RunStep, ReplayStep
<1>20. Kinds
  BY <1>19, <1>s
<1> QED BY <1>19, <1>20, QuietPaid

(* The desk applies a payment in one of its steps only. *)
LEMMA NoHandlerAtDesk ==
  ASSUME PInv, desk.at # "apply"
  PROVE  hook["desk"].at = "idle"
BY DEF PInv, EventsReal

(* The organiser's settlement. *)
LEMMA SettlementPaid ==
  ASSUME Shapes, PInv, DeskStep \/ CrashDesk \/ \E bank \in ByBank : StartSettlement(bank)
  PROVE  PInv'
<1> USE DEF calm, rooms, stripe, ends, past
<1>0. row \in Rows /\ intent \in PaymentIntents /\ hook \in Hooks /\ DeskShape
  BY DEF Shapes, TypeOK, Rows, PaymentIntents, Hooks
<1>s. ASSUME intent' = intent, mail' = mail
      PROVE  /\ IntentsStay /\ BacksStay
             /\ \A j \in Intents : <<"succeeded", j>> \in mail' <=> <<"succeeded", j>> \in mail
  BY <1>s DEF IntentsStay, BacksStay
<1>w. \A i \in Intents \ reused : Paid(i) # {} /\ row.intent = i => row.status = "SUCCEEDED"
  BY DEF PInv, Done
<1>1. ASSUME NEW bank \in ByBank, StartSettlement(bank)
      PROVE  PInv'
  <2>1. UNCHANGED <<pay, hook, reused, row, intent, mail>> /\ desk = AtRest
        /\ row.status # "SUCCEEDED" /\ desk'.at \in {"check", "commit"}
    BY <1>1 DEF StartSettlement
  <2>2. Offers'
    BY <2>1 DEF PInv, Offers
  <2>3. hook["desk"].at = "idle"
    BY <2>1, NoHandlerAtDesk DEF AtRest
  <2> QED BY <1>s, <1>w, <2>1, <2>2, <2>3, DeskPaid
<1>2. CASE CheckIntent
  <2>0. desk.at = "check" /\ desk.old \in Intents /\ desk # AtRest /\ hook["desk"].at = "idle"
    BY <1>2, NoHandlerAtDesk DEF CheckIntent, AtRest, Shapes, DeskShape
  <2>1. UNCHANGED <<pay, reused, row, mail>>
    BY <1>2 DEF CheckIntent
  <2>2. IntentsStay /\ BacksStay
    <3>1. intent' = intent \/ intent' = [intent EXCEPT ![desk.old].given = TRUE]
      BY <1>2 DEF CheckIntent
    <3> QED BY <1>0, <2>0, <3>1 DEF IntentsStay, BacksStay, PaymentIntents
  <2>3. Offers'
    <3>1. desk'.at # "record"
      BY <1>0, <1>2 DEF CheckIntent, AtRest, DeskShape
    <3> QED BY <1>0, <2>1, <2>2, <3>1 DEF PInv, Offers, IntentsStay
  <2>4. CASE hook' = hook
    BY <1>w, <2>0, <2>1, <2>2, <2>3, <2>4, DeskPaid
  <2>5. CASE /\ intent[desk.old].st = "captured" /\ row.intent = desk.old
             /\ row.status # "SUCCEEDED" /\ desk' = [desk EXCEPT !.at = "apply"]
             /\ hook' = [hook EXCEPT !["desk"] = [at |-> "apply", of |-> desk.old,
                                                 amount |-> row.amount]]
             /\ UNCHANGED <<rooms, intent>>
    <3>1. /\ hook'["desk"] = [at |-> "apply", of |-> desk.old, amount |-> row.amount]
          /\ hook'["stripe"] = hook["stripe"] /\ desk'.at = "apply"
      BY <1>0, <2>5 DEF Hooks, Handlers, DeskShape
    <3>2. row.amount = intent[desk.old].amount
      BY <2>0, <2>5 DEF PInv, Offers
    <3>3. EventsReal'
      BY <2>1, <2>5, <3>1, <3>2 DEF PInv, EventsReal
    <3>4. PaidByItsIntent'
      BY <2>1, <2>2, PaidKept DEF PInv
    <3>5. ASSUME NEW i \in Intents \ reused'
          PROVE  Done(i)'
      <4>1. Paid(i)' = Paid(i)
        BY <2>1 DEF Paid
      <4> QED BY <2>0, <2>1, <3>1, <3>5, <4>1 DEF PInv, Done
    <3> QED BY <2>3, <3>3, <3>4, <3>5 DEF PInv
  <2> QED BY <1>2, <2>4, <2>5 DEF CheckIntent
<1>3. CASE CommitChildren \/ RefuseSettlement
  <2>1. /\ UNCHANGED <<pay, hook, reused, row, intent, mail>>
        /\ desk.at \in {"commit", "check", "mint"}
        /\ desk'.at # "record" \/ desk'.bank
    BY <1>0, <1>3 DEF CommitChildren, RefuseSettlement, AtRest, DeskShape
  <2>2. Offers'
    BY <2>1 DEF PInv, Offers
  <2>3. hook["desk"].at = "idle" /\ desk # AtRest
    BY <1>3, NoHandlerAtDesk DEF AtRest, CommitChildren, RefuseSettlement
  <2> QED BY <1>s, <1>w, <2>1, <2>2, <2>3, DeskPaid
<1>4. CASE MintIntent
  <2>1. UNCHANGED <<pay, hook, reused, row, mail>> /\ desk.at = "mint" /\ ~desk.bank
    BY <1>0, <1>4 DEF MintIntent, DeskShape
  <2>2. PICK i \in Intents :
          /\ desk' = [desk EXCEPT !.at = "record", !.pi = i]
          /\ \/ intent' = intent /\ intent[i].st # "none" /\ intent[i].amount = desk.total
             \/ /\ intent[i].st = "none"
                /\ intent' = [intent EXCEPT ![i] =
                     [@ EXCEPT !.st = "open", !.amount = desk.total, !.from = desk.old]]
    BY <1>4, NewIntentExists DEF MintIntent, SameKey
  <2>3. IntentsStay /\ BacksStay
    BY <1>0, <2>2 DEF IntentsStay, BacksStay, PaymentIntents
  <2>4. intent'[i].st # "none" /\ intent'[i].amount = desk.total
    BY <1>0, <2>2 DEF PaymentIntents
  <2>5. desk'.pi = i /\ desk'.total = desk.total
    BY <1>0, <2>2 DEF DeskShape
  <2>6. Offers'
    BY <2>1, <2>3, <2>4, <2>5 DEF PInv, Offers, IntentsStay
  <2>7. hook["desk"].at = "idle" /\ desk # AtRest
    BY <2>1, NoHandlerAtDesk DEF AtRest
  <2> QED BY <1>w, <2>1, <2>3, <2>6, <2>7, DeskPaid
<1>5. CASE RecordSettlement
  <2>1. /\ UNCHANGED <<pay, hook, intent, mail>> /\ desk.at = "record"
        /\ reused' = reused \union {i \in Intents : i = desk.pi /\ intent[i].st = "captured"}
        /\ row'.intent = desk.pi /\ row'.amount = desk.total
        /\ desk' = [desk EXCEPT !.at = "void"]
    BY <1>0, <1>5 DEF RecordSettlement, Write, Rows
  <2>2. desk.pi \in Intents => ~desk.bank
    BY <1>0, RealIntent DEF DeskShape
  <2>3. Offers'
    <3>1. desk'.at = "void"
      BY <1>0, <2>1 DEF DeskShape
    <3> QED BY <2>1, <2>2, <3>1 DEF PInv, Offers
  <2>4. \A i \in Intents \ reused' : ~(Paid(i) # {} /\ row'.intent = i)
    BY <2>1 DEF PInv, PaidByItsIntent
  <2>5. hook["desk"].at = "idle" /\ desk # AtRest
    BY <2>1, NoHandlerAtDesk DEF AtRest
  <2> QED BY <1>s, <2>1, <2>3, <2>4, <2>5, DeskPaid
<1>6. CASE VoidSuperseded
  <2>1. UNCHANGED <<pay, hook, reused, row>> /\ desk.at = "void" /\ desk'.at # "record"
    BY <1>0, <1>6 DEF VoidSuperseded, DeskShape
  <2>2. /\ IntentsStay /\ BacksStay
        /\ \A j \in Intents : <<"succeeded", j>> \in mail' <=> <<"succeeded", j>> \in mail
    BY <1>0, <1>6, VoidStays DEF VoidSuperseded, DeskShape
  <2>3. Offers'
    BY <2>1, <2>2 DEF PInv, Offers, IntentsStay
  <2>4. hook["desk"].at = "idle" /\ desk # AtRest
    BY <2>1, NoHandlerAtDesk DEF AtRest
  <2> QED BY <1>w, <2>1, <2>2, <2>3, <2>4, DeskPaid
<1>7. CASE Answer
  <2>1. /\ UNCHANGED <<pay, hook, reused, row, mail>> /\ desk.at = "answer"
        /\ desk.pi \in Intents /\ desk' = AtRest
        /\ intent' = [intent EXCEPT ![desk.pi].given = TRUE]
    BY <1>0, <1>7 DEF Answer, DeskShape
  <2>2. IntentsStay /\ BacksStay
    BY <1>0, <2>1 DEF IntentsStay, BacksStay, PaymentIntents
  <2>3. Offers'
    BY <2>1, <2>2 DEF PInv, Offers, IntentsStay, AtRest
  <2>4. hook["desk"].at = "idle" /\ desk # AtRest
    BY <2>1, NoHandlerAtDesk DEF AtRest
  <2> QED BY <1>w, <2>1, <2>2, <2>3, <2>4, DeskPaid
<1>8. CASE QueueInvoice
  <2>1. /\ UNCHANGED <<pay, hook, reused, row, mail, intent>> /\ desk.at = "queue"
        /\ desk' = AtRest
    BY <1>8 DEF QueueInvoice
  <2>2. Offers'
    BY <2>1 DEF PInv, Offers, AtRest
  <2>3. hook["desk"].at = "idle" /\ desk # AtRest
    BY <2>1, NoHandlerAtDesk DEF AtRest
  <2> QED BY <1>s, <1>w, <2>1, <2>2, <2>3, DeskPaid
<1>9. CASE CrashDesk
  <2>1. /\ UNCHANGED <<pay, reused, row, mail, intent>> /\ desk' = AtRest
        /\ hook' = [hook EXCEPT !["desk"] = NoHook]
    BY <1>9 DEF CrashDesk
  <2>2. hook'["desk"].at = "idle" /\ hook'["stripe"] = hook["stripe"]
    BY <1>0, <2>1 DEF Hooks, Handlers, NoHook
  <2>3. Offers'
    BY <2>1 DEF PInv, Offers, AtRest
  <2>4. EventsReal'
    BY <2>1, <2>2 DEF PInv, EventsReal
  <2>5. PaidByItsIntent'
    BY <1>s, <2>1, PaidKept DEF PInv
  <2>6. ASSUME NEW i \in Intents \ reused'
        PROVE  Done(i)'
    <3>1. Paid(i)' = Paid(i)
      BY <2>1 DEF Paid
    <3> QED BY <2>1, <2>2, <2>6, <3>1 DEF PInv, Done
  <2> QED BY <2>3, <2>4, <2>5, <2>6 DEF PInv
<1> QED BY <1>1, <1>2, <1>3, <1>4, <1>5, <1>6, <1>7, <1>8, <1>9 DEF DeskStep

(* A handler lets go of its payment. *)
LEMMA HandlerEnds ==
  ASSUME Shapes, PInv, NEW h \in Handlers, hook' = [hook EXCEPT ![h] = NoHook],
         mail' \subseteq mail,
         h # "stripe" =>
           \A i \in Intents : <<"succeeded", i>> \in mail => <<"succeeded", i>> \in mail',
         IntentsStay, PaidByItsIntent', UNCHANGED <<pay, row, reused>>,
         desk' = IF h = "desk" THEN AtRest ELSE desk
  PROVE  PInv'
<1>0. hook \in Hooks /\ HookShape /\ DeskShape
  BY DEF Shapes, TypeOK, Hooks
<1>1. \A k \in {"desk", "stripe"} :
        IF k = h THEN hook'[k].at = "idle" ELSE hook'[k] = hook[k]
  BY <1>0 DEF Hooks, Handlers, NoHook
<1>2. Offers'
  <2>1. desk'.at = "record" => desk' = desk /\ desk.at = "record"
    BY DEF AtRest
  <2> QED BY <1>0, <2>1 DEF PInv, Offers, IntentsStay, DeskShape
<1>3. EventsReal'
  <2>1. \A k \in {"desk", "stripe"} : hook[k].at # "idle" => hook[k].of \in Intents
    BY <1>0 DEF HookShape, Handlers
  <2> QED BY <1>1, <2>1 DEF PInv, EventsReal, IntentsStay
<1>4. ASSUME NEW i \in Intents \ reused'
      PROVE  Done(i)'
  <2>1. Paid(i)' = Paid(i)
    BY DEF Paid
  <2> QED BY <1>1, <1>4, <2>1 DEF PInv, Done
<1> QED BY <1>2, <1>3, <1>4 DEF PInv

(* The card is charged: nobody was paid with it before. *)
LEMMA CapturePaid ==
  ASSUME Shapes, PInv, NEW i \in Intents, Capture(i)
  PROVE  PInv'
<1> USE DEF calm, rooms, ends, past
<1>0. intent \in PaymentIntents
  BY DEF Shapes, TypeOK, PaymentIntents
<1>1. /\ UNCHANGED <<pay, hook, desk, row, reused>> /\ intent[i].st = "open"
      /\ intent' = [intent EXCEPT ![i].st = "captured"]
      /\ mail' = mail \union {<<"succeeded", i>>}
  BY DEF Capture
<1>2. IntentsStay /\ BacksStay /\ intent'[i].st = "captured"
  BY <1>0, <1>1 DEF IntentsStay, BacksStay, PaymentIntents
<1>3. PaidByItsIntent'
  BY <1>1, <1>2, PaidKept DEF PInv
<1>4. Offers'
  BY <1>1, <1>2 DEF PInv, Offers, IntentsStay, Shapes, DeskShape
<1>5. EventsReal'
  <2>1. \A h \in {"desk", "stripe"} : hook[h].at # "idle" => hook[h].of \in Intents
    BY DEF Shapes, HookShape, Handlers
  <2> QED BY <1>1, <1>2, <2>1 DEF PInv, EventsReal, IntentsStay
<1>6. ASSUME NEW j \in Intents \ reused'
      PROVE  Done(j)'
  <2>1. Paid(j)' = Paid(j)
    BY <1>1 DEF Paid
  <2>2. CASE j = i
    BY <1>1, <1>6, <2>1, <2>2 DEF PInv, PaidByItsIntent, Done
  <2>3. CASE j # i
    BY <1>1, <1>6, <2>1, <2>3 DEF PInv, Done
  <2> QED BY <2>2, <2>3
<1> QED BY <1>3, <1>4, <1>5, <1>6 DEF PInv

(* The webhook takes up an event. *)
LEMMA ReadPaid ==
  ASSUME Shapes, PInv, NEW i \in Intents, ReadSucceeded(i)
  PROVE  PInv'
<1> USE DEF calm, rooms, stripe, ends, past
<1>0. hook \in Hooks
  BY DEF Shapes, TypeOK, Hooks
<1>1. /\ UNCHANGED <<pay, desk, row, reused, intent>> /\ hook["stripe"] = NoHook
      /\ <<"succeeded", i>> \in mail
  BY DEF ReadSucceeded
<1>2. IntentsStay /\ BacksStay
  BY <1>1 DEF IntentsStay, BacksStay
<1>3. PaidByItsIntent'
  BY <1>1, <1>2, PaidKept DEF PInv
<1>4. Offers'
  BY <1>1 DEF PInv, Offers
<1>5. CASE mail' = mail \ {<<"succeeded", i>>} /\ hook' = hook
  <2>1. hook' = [hook EXCEPT !["stripe"] = NoHook]
    BY <1>0, <1>1, <1>5 DEF Hooks, Handlers
  <2> QED BY <1>1, <1>2, <1>3, <1>5, <2>1, HandlerEnds DEF Handlers
<1>6. CASE /\ row.intent # i \/ row.status # "SUCCEEDED"
           /\ hook' = [hook EXCEPT !["stripe"] = [at |-> "return", of |-> i, amount |-> 0]]
           /\ mail' = mail
  <2>1. /\ hook'["stripe"] = [at |-> "return", of |-> i, amount |-> 0]
        /\ hook'["desk"] = hook["desk"]
    BY <1>0, <1>6 DEF Hooks, Handlers
  <2>2. EventsReal'
    BY <1>1, <1>6, <2>1 DEF PInv, EventsReal
  <2>3. ASSUME NEW j \in Intents \ reused'
        PROVE  Done(j)'
    <3>1. Paid(j)' = Paid(j)
      BY <1>1 DEF Paid
    <3> QED BY <1>1, <1>6, <2>1, <2>3, <3>1 DEF PInv, Done
  <2> QED BY <1>3, <1>4, <2>2, <2>3 DEF PInv
<1>7. CASE /\ row.amount = intent[i].amount
           /\ hook' = [hook EXCEPT !["stripe"] = [at |-> "apply", of |-> i,
                                                 amount |-> row.amount]]
           /\ mail' = mail
  <2>1. /\ hook'["stripe"] = [at |-> "apply", of |-> i, amount |-> row.amount]
        /\ hook'["desk"] = hook["desk"]
    BY <1>0, <1>7 DEF Hooks, Handlers
  <2>2. EventsReal'
    BY <1>1, <1>7, <2>1 DEF PInv, EventsReal
  <2>3. ASSUME NEW j \in Intents \ reused'
        PROVE  Done(j)'
    <3>1. Paid(j)' = Paid(j)
      BY <1>1 DEF Paid
    <3> QED BY <1>1, <1>7, <2>1, <2>3, <3>1 DEF PInv, Done
  <2> QED BY <1>3, <1>4, <2>2, <2>3 DEF PInv
<1> QED BY <1>5, <1>6, <1>7 DEF ReadSucceeded

(* Xero's webhook takes up the paid invoice. *)
LEMMA InvoicePaid ==
  ASSUME Shapes, PInv, ReadPaidInvoice
  PROVE  PInv'
<1> USE DEF calm, rooms, stripe, ends, past
<1>0. hook \in Hooks
  BY DEF Shapes, TypeOK, Hooks
<1>1. /\ UNCHANGED <<pay, desk, row, reused, intent>>
      /\ hook'["desk"] = hook["desk"] /\ hook'["stripe"] = hook["stripe"]
      /\ \A i \in Intents : <<"succeeded", i>> \in mail' <=> <<"succeeded", i>> \in mail
  BY <1>0 DEF ReadPaidInvoice, Hooks, Handlers
<1>2. IntentsStay /\ BacksStay
  BY <1>1 DEF IntentsStay, BacksStay
<1>3. PaidByItsIntent'
  BY <1>1, <1>2, PaidKept DEF PInv
<1>4. Offers'
  BY <1>1 DEF PInv, Offers
<1>5. EventsReal'
  <2>1. \A h \in {"desk", "stripe"} : hook[h].at # "idle" => hook[h].of \in Intents
    BY DEF Shapes, HookShape, Handlers
  <2> QED BY <1>1, <2>1 DEF PInv, EventsReal
<1>6. ASSUME NEW j \in Intents \ reused'
      PROVE  Done(j)'
  <2>1. Paid(j)' = Paid(j)
    BY <1>1 DEF Paid
  <2> QED BY <1>1, <1>6, <2>1 DEF PInv, Done
<1> QED BY <1>3, <1>4, <1>5, <1>6 DEF PInv

(* A payment that a handler applies was not applied before. *)
LEMMA FirstApplication ==
  ASSUME Shapes, PInv, NEW h \in {"desk", "stripe"}, hook[h].at = "apply",
         row.status # "SUCCEEDED", hook[h].of \notin reused
  PROVE  Paid(hook[h].of) = {}
<1>1. hook[h].of \in Intents
  BY DEF Shapes, HookShape, Handlers
<1>2. row.intent = hook[h].of \/ <<"succeeded", hook[h].of>> \in mail
  BY DEF PInv, EventsReal
<1> QED BY <1>1, <1>2 DEF PInv, Done

(* What Handled does. *)
LEMMA HandledEnds ==
  ASSUME NEW h \in Handlers, Handled(h)
  PROVE  /\ hook' = [hook EXCEPT ![h] = NoHook] /\ mail' \subseteq mail
         /\ h # "stripe" =>
              \A i \in Intents : <<"succeeded", i>> \in mail => <<"succeeded", i>> \in mail'
         /\ h = "stripe" => mail' = mail \ {<<"succeeded", hook[h].of>>}
<1>1. CASE h = "desk"
  BY <1>1 DEF Handled
<1>2. CASE h = "stripe"
  BY <1>2 DEF Handled
<1>3. CASE h = "xero"
  BY <1>3 DEF Handled
<1> QED BY <1>1, <1>2, <1>3 DEF Handlers

(* The children are paid: with money nobody was paid with. *)
LEMMA SettlePaid ==
  ASSUME Shapes, PInv, PayOnce, NEW h \in Handlers, hook[h].at = "apply",
         row.status # "SUCCEEDED", Sum(Price, With({"CONFIRMED"})) = hook[h].amount,
         Settle(h, With({"CONFIRMED"})), intent' = intent,
         desk' = IF h = "desk" THEN AtRest ELSE desk
  PROVE  PInv'
<1> DEFINE beds == With({"CONFIRMED"})
           of == hook[h].of
<1>0. row \in Rows /\ hook \in Hooks /\ HookShape
  BY DEF Shapes, TypeOK, Rows, Hooks
<1>1. /\ row'.status = "SUCCEEDED" /\ row'.intent = row.intent /\ row'.amount = row.amount
      /\ reused \subseteq reused'
      /\ of \in Intents \ reused' => ~intent[of].back
      /\ of \in Intents \ reused' /\ hook["stripe"].at = "return" => hook["stripe"].of # of
  BY <1>0 DEF Settle, Write, Rows
<1>2. \A c \in Children : c \in beds => pay[c] = None
  BY DEF PayOnce, With, Closed
<1>3. ASSUME NEW j \in Intents
      PROVE  Paid(j)' = IF j = of THEN beds \union Paid(j) ELSE Paid(j)
  <2>1. pay' = [c \in Children |-> IF c \in beds THEN of ELSE pay[c]]
    BY DEF Settle
  <2>2. j # None /\ beds \subseteq Children
    BY RealIntent DEF With
  <2> HIDE DEF beds, of
  <2> QED BY <1>2, <2>1, <2>2 DEF Paid
<1>4. /\ hook' = [hook EXCEPT ![h] = NoHook] /\ mail' \subseteq mail
      /\ h # "stripe" =>
           \A i \in Intents : <<"succeeded", i>> \in mail => <<"succeeded", i>> \in mail'
      /\ h = "stripe" => mail' = mail \ {<<"succeeded", of>>}
  BY HandledEnds DEF Settle
<1>5. \A k \in {"desk", "stripe"} :
        IF k = h THEN hook'[k].at = "idle" ELSE hook'[k] = hook[k]
  BY <1>0, <1>4 DEF Hooks, Handlers, NoHook
<1>6. Offers'
  <2>1. desk'.at = "record" => desk' = desk /\ desk.at = "record"
    BY DEF AtRest
  <2> QED BY <1>1, <2>1 DEF PInv, Offers
<1>7. EventsReal'
  <2>1. \A k \in {"desk", "stripe"} : hook[k].at # "idle" => hook[k].of \in Intents
    BY <1>0 DEF HookShape, Handlers
  <2>2. \A i \in Intents : <<"succeeded", i>> \in mail' => intent'[i].st = "captured"
    BY <1>4 DEF PInv, EventsReal
  <2>3. hook'["stripe"].at # "idle" => <<"succeeded", hook'["stripe"].of>> \in mail'
    BY <1>4, <1>5, <2>1 DEF PInv, EventsReal
  <2>4. hook'["desk"].at # "idle" => desk'.at = "apply" /\ row'.intent = hook'["desk"].of
    BY <1>1, <1>5 DEF PInv, EventsReal
  <2>5. \A k \in {"desk", "stripe"} : hook'[k].at = "apply" =>
          intent'[hook'[k].of].st = "captured" /\ hook'[k].amount = intent'[hook'[k].of].amount
    BY <1>5 DEF PInv, EventsReal
  <2> QED BY <2>2, <2>3, <2>4, <2>5 DEF EventsReal
<1>8. h = "xero" => of = Bank
  BY <1>0 DEF HookShape, Handlers
<1>9. ASSUME of \in Intents \ reused'
      PROVE  /\ Paid(of) = {} /\ h \in {"desk", "stripe"} /\ intent[of].st = "captured"
             /\ hook[h].amount = intent[of].amount
  <2>1. h \in {"desk", "stripe"}
    BY <1>8, <1>9, RealIntent DEF Handlers
  <2> QED BY <1>1, <1>9, <2>1, FirstApplication DEF PInv, EventsReal
<1>10. PaidByItsIntent'
  <2> SUFFICES ASSUME NEW j \in Intents \ reused', Paid(j)' # {}
               PROVE  /\ intent[j].st = "captured" /\ Sum(Price, Paid(j)') = intent[j].amount
                      /\ ~intent[j].back
    BY DEF PaidByItsIntent
  <2>1. CASE j = of
    <3>1. Paid(j)' = beds
      BY <1>3, <1>9, <2>1
    <3> QED BY <1>1, <1>9, <2>1, <3>1
  <2>2. CASE j # of
    <3>1. Paid(j)' = Paid(j)
      BY <1>3, <2>2
    <3> QED BY <1>1, <3>1 DEF PInv, PaidByItsIntent
  <2> QED BY <2>1, <2>2
<1>11. ASSUME NEW j \in Intents \ reused'
       PROVE  Done(j)'
  <2>1. CASE j = of
    <3>1. h = "desk" => row.intent = of /\ desk' = AtRest
      BY DEF PInv, EventsReal
    <3>2. h = "stripe" => <<"succeeded", j>> \notin mail'
      BY <1>4, <2>1
    <3>3. hook'["stripe"].at = "return" => hook'["stripe"].of # j
      BY <1>1, <1>5, <1>11, <2>1
    <3> QED BY <1>1, <1>9, <1>11, <2>1, <3>1, <3>2, <3>3 DEF Done
  <2>2. CASE j # of
    <3>1. Paid(j)' = Paid(j)
      BY <1>3, <2>2
    <3>2. Paid(j) # {} => Done(j)
      BY <1>1, <1>11 DEF PInv
    <3> QED BY <1>1, <1>4, <1>5, <3>1, <3>2 DEF Done
  <2> QED BY <2>1, <2>2
<1> QED BY <1>6, <1>7, <1>10, <1>11 DEF PInv

(* A handler applies its payment. *)
LEMMA ApplyPaid ==
  ASSUME Shapes, PInv, PayOnce, NEW h \in Handlers, Apply(h)
  PROVE  PInv'
<1> USE DEF calm, rooms, stripe, ends, past
<1>0. hook \in Hooks
  BY DEF Shapes, TypeOK, Hooks
<1>1. /\ hook[h].at = "apply" /\ intent' = intent
      /\ desk' = IF h = "desk" THEN AtRest ELSE desk
  BY DEF Apply
<1>2. IntentsStay /\ BacksStay
  BY <1>1 DEF IntentsStay, BacksStay
<1>3. CASE Handled(h) /\ UNCHANGED <<pay, row, past>>
  <2>1. PaidByItsIntent'
    BY <1>2, <1>3, PaidKept DEF PInv
  <2> QED BY <1>1, <1>2, <1>3, <2>1, HandledEnds, HandlerEnds
<1>4. CASE /\ row.status # "SUCCEEDED" /\ Sum(Price, With({"CONFIRMED"})) = hook[h].amount
           /\ Settle(h, With({"CONFIRMED"}))
  BY <1>1, <1>4, SettlePaid
<1>5. CASE /\ row.status # "SUCCEEDED" /\ h = "stripe" /\ mail' = mail
           /\ hook' = [hook EXCEPT ![h].at = "return"]
           /\ UNCHANGED <<pay, row, past>>
  <2>1. PaidByItsIntent'
    BY <1>2, <1>5, PaidKept DEF PInv
  <2>2. Offers'
    BY <1>1, <1>5 DEF PInv, Offers
  <2>3. /\ hook'["stripe"].at = "return" /\ hook'["stripe"].of = hook["stripe"].of
        /\ hook'["desk"] = hook["desk"]
    BY <1>0, <1>5 DEF Hooks, Handlers
  <2>4. EventsReal'
    BY <1>1, <1>5, <2>3 DEF PInv, EventsReal
  <2>5. ASSUME NEW j \in Intents \ reused'
        PROVE  Done(j)'
    <3>1. Paid(j)' = Paid(j)
      BY <1>5 DEF Paid
    <3>2. hook["stripe"].of = j => Paid(j) = {}
      BY <1>1, <1>5, <2>5, FirstApplication
    <3> QED BY <1>1, <1>5, <2>3, <2>5, <3>1, <3>2 DEF PInv, Done
  <2> QED BY <2>1, <2>2, <2>4, <2>5 DEF PInv
<1> QED BY <1>3, <1>4, <1>5 DEF Apply

(* The webhook returns a capture nobody was paid with. *)
LEMMA ReturnPaid ==
  ASSUME Shapes, PInv, ReturnCapture
  PROVE  PInv'
<1> USE DEF calm, rooms, ends, past
<1> DEFINE of == hook["stripe"].of
<1>0. intent \in PaymentIntents /\ of \in Intents
  BY DEF Shapes, TypeOK, PaymentIntents, HookShape, Handlers, ReturnCapture
<1>1. /\ UNCHANGED <<pay, row, reused, desk>> /\ hook["stripe"].at = "return"
      /\ hook' = [hook EXCEPT !["stripe"] = NoHook] /\ mail' \subseteq mail
      /\ intent' \in {intent, [intent EXCEPT ![of].back = TRUE]}
  BY DEF ReturnCapture, Handled
<1>2. IntentsStay /\ \A j \in Intents : j # of => intent'[j].back = intent[j].back
  BY <1>0, <1>1 DEF IntentsStay, PaymentIntents
<1>3. of \in reused \/ Paid(of) = {}
  BY <1>0, <1>1 DEF PInv, Done
<1>4. PaidByItsIntent'
  <2> SUFFICES ASSUME NEW j \in Intents \ reused', Paid(j)' # {}
               PROVE  /\ intent'[j].st = "captured" /\ Sum(Price, Paid(j)') = intent'[j].amount
                      /\ ~intent'[j].back
    BY DEF PaidByItsIntent
  <2>1. Paid(j)' = Paid(j) /\ j # of
    BY <1>1, <1>3 DEF Paid
  <2>2. intent[j].st = "captured" /\ Sum(Price, Paid(j)) = intent[j].amount /\ ~intent[j].back
    BY <1>1, <2>1 DEF PInv, PaidByItsIntent
  <2> QED BY <1>2, <2>1, <2>2 DEF IntentsStay
<1> QED BY <1>1, <1>2, <1>4, HandlerEnds DEF Handlers

(* A webhook crashes. *)
LEMMA CrashPaid ==
  ASSUME Shapes, PInv, NEW h \in Handlers, CrashHandler(h)
  PROVE  PInv'
<1> USE DEF calm, rooms, stripe, ends, past
<1>1. /\ UNCHANGED <<pay, row, reused, desk, intent, mail>> /\ h # "desk"
      /\ hook' = [hook EXCEPT ![h] = NoHook]
  BY DEF CrashHandler
<1>2. IntentsStay /\ BacksStay
  BY <1>1 DEF IntentsStay, BacksStay
<1>3. PaidByItsIntent'
  BY <1>1, <1>2, PaidKept DEF PInv
<1> QED BY <1>1, <1>2, <1>3, HandlerEnds

----------------------------------------------------------------------------
(* Together.                                                                *)

(* The inductive invariant of the three theorems below. *)
GInv == Shapes /\ MInv /\ RInv /\ PInv

(* Every step keeps the shapes, as the cleanup runs for a cancelled host.   *)
LEMMA StepShapes ==
  ASSUME Shapes, OnlyAfterCancel, Next
  PROVE  Shapes'
<1>1. ASSUME NEW bank \in ByBank, StartSettlement(bank)
      PROVE  Shapes'
  BY <1>1, StartShapes, LeaversAssumption
<1>2. CASE DeskStep \/ CrashDesk
  BY <1>2, DeskShapes, RecordShapes DEF DeskStep
<1>3. CASE \E c \in Children : Join(c) \/ ReadLeave(c) \/ WriteLeave(c)
  BY <1>3, JoinerShapes
<1> HIDE DEF Shapes, OnlyAfterCancel
<1> QED BY <1>1, <1>2, <1>3, StripeShapes, HandlerShapes, ReaperShapes, RunShapes,
           ReplayShapes DEF Next

(* Every step keeps the account of the captured money. *)
LEMMA StepMoney ==
  ASSUME Shapes, MInv, Next
  PROVE  MInv'
<1>1. CASE ReaperStep
  BY <1>1, JoinerMoney, RunMoney DEF ReaperStep
<1>2. CASE DeskStep \/ CrashDesk \/ \E bank \in ByBank : StartSettlement(bank)
  BY <1>2, DeskMoney
<1>3. CASE OrganiserCancels \/ Resume \/ RunStep \/ CrashRun
  BY <1>3, RunMoney
<1>4. CASE ReplayStep \/ CrashReplay
  BY <1>4, ReplayMoney
<1>5. CASE \/ \E i \in Intents : Capture(i) \/ Decline(i)
           \/ HandlerStep \/ \E h \in Handlers : CrashHandler(h)
  BY <1>5, StripeMoney
<1>6. CASE \/ \E c \in Children : Join(c) \/ ReadLeave(c) \/ WriteLeave(c)
           \/ RaiseInvoice \/ PayInvoice \/ Tick \/ DropTier \/ CrashReaper
  BY <1>6, JoinerMoney
<1> QED BY <1>1, <1>2, <1>3, <1>4, <1>5, <1>6 DEF Next

(* Every step keeps the mirrors to the plan. *)
LEMMA StepMirrors ==
  ASSUME Shapes, RInv, OutcomesKept, Next
  PROVE  RInv'
<1>1. CASE DeskStep \/ CrashDesk \/ \E bank \in ByBank : StartSettlement(bank)
  BY <1>1, QuietMirrors, RecordMirrors DEF DeskStep
<1>2. CASE HandlerStep \/ \E h \in Handlers : CrashHandler(h)
  BY <1>2, QuietMirrors, ApplyMirrors DEF HandlerStep
<1>3. CASE OrganiserCancels \/ Resume \/ RunStep \/ CrashRun
  BY <1>3, QuietRunMirrors, ReadGroupMirrors, FailRowMirrors, MakePlanMirrors,
     RefundMirrors, FlipMirrors, CancelMirrors DEF RunStep
<1>4. CASE ReplayStep \/ CrashReplay
  BY <1>4, ReplayMirrors
<1>5. CASE \/ \E c \in Children : Join(c) \/ ReadLeave(c) \/ WriteLeave(c)
           \/ \E i \in Intents : Capture(i) \/ Decline(i)
           \/ RaiseInvoice \/ PayInvoice \/ Tick \/ DropTier \/ ReaperStep \/ CrashReaper
  BY <1>5, QuietMirrors
<1> QED BY <1>1, <1>2, <1>3, <1>4, <1>5 DEF Next

(* Every step keeps what paid real. *)
LEMMA StepPaid ==
  ASSUME Shapes, PInv, PayOnce, Next
  PROVE  PInv'
<1>1. CASE DeskStep \/ CrashDesk \/ \E bank \in ByBank : StartSettlement(bank)
  BY <1>1, SettlementPaid
<1>2. CASE HandlerStep \/ \E h \in Handlers : CrashHandler(h)
  BY <1>2, QuietStepsPaid, ReadPaid, InvoicePaid, ReturnPaid, ApplyPaid, CrashPaid
     DEF HandlerStep
<1>3. CASE \E i \in Intents : Capture(i) \/ Decline(i)
  BY <1>3, CapturePaid, QuietStepsPaid
<1>4. CASE \/ \E c \in Children : Join(c) \/ ReadLeave(c) \/ WriteLeave(c)
           \/ RaiseInvoice \/ PayInvoice \/ Tick \/ DropTier \/ ReaperStep \/ CrashReaper
           \/ OrganiserCancels \/ Resume \/ RunStep \/ CrashRun \/ ReplayStep \/ CrashReplay
  BY <1>4, QuietStepsPaid
<1> QED BY <1>1, <1>2, <1>3, <1>4 DEF Next

(* So does a step of somebody else. *)
LEMMA StutterKeeps ==
  ASSUME GInv, UNCHANGED vars
  PROVE  GInv'
<1> USE DEF vars
<1>1. Shapes'
  BY DEF GInv, Shapes, TypeOK, DeskShape, HookShape, RunShape, ReplayShape
<1>2. MInv'
  BY DEF GInv, MInv, AmountsReal, SettledByPayment, SomebodyPaid, MoneyIsPlaced
<1>3. RInv'
  <2>1. Steady
    BY DEF Steady
  <2>2. \A c \in Children : child'[c] = "PAID" => child[c] = "PAID"
    OBVIOUS
  <2>3. row'.intent = row.intent /\ row'.status = row.status
    OBVIOUS
  <2> QED BY <2>1, <2>2, <2>3, QuietStep DEF GInv
<1>4. PInv'
  <2>1. IntentsStay /\ BacksStay
    BY DEF IntentsStay, BacksStay
  <2> QED BY <2>1, QuietPaid DEF GInv
<1> QED BY <1>1, <1>2, <1>3, <1>4 DEF GInv

(* It holds initially, and every step keeps it. *)
LEMMA GInvariant == Spec => []GInv
<1>1. Init => GInv
  BY InitShapes, InitMInv, InitRInv, InitPInv DEF GInv
<1>2. ASSUME IInv, GInv, [Next]_vars
      PROVE  GInv'
  <2>1. OutcomesKept
    BY <1>2, StepKeeps DEF OutcomesKept
  <2>2. CASE Next
    <3>1. Shapes /\ MInv /\ RInv /\ PInv /\ PayOnce /\ OnlyAfterCancel
      BY <1>2 DEF GInv, RInv, IInv
    <3> QED BY <2>1, <2>2, <3>1, StepShapes, StepMoney, StepMirrors, StepPaid DEF GInv
  <2>3. CASE UNCHANGED vars
    BY <1>2, <2>3, StutterKeeps
  <2> QED BY <1>2, <2>2, <2>3
<1>3. IInv /\ GInv /\ [Next]_vars => GInv'
  BY <1>2
<1> QED BY <1>1, <1>3, Invariant, PTL DEF Spec

(* Every variable holds what it may hold: in particular no mirror and no    *)
(* plan exceeds the price of its child.                                     *)
THEOREM TypeCorrect == Spec => []TypeOK
<1>1. GInv => TypeOK
  BY DEF GInv, Shapes
<1> QED BY <1>1, GInvariant, PTL

(* Captured money is never kept for nothing, whatever the desk, the webhook *)
(* and the crashes do: once its event is handled it has paid children or    *)
(* has gone back (settleConfirmedChildrenAndNotify,                         *)
(* refundSupersededGroupSettlementIntent).                                  *)
THEOREM MoneyPlaced == Spec => []MoneyIsPlaced
<1>1. GInv => MoneyIsPlaced
  BY DEF GInv, MInv
<1> QED BY <1>1, GInvariant, PTL

(* A child's refund mirror is the amount of the recorded plan, and the money *)
(* of a card went back in the one refund the whole plan is made in, whoever *)
(* wrote the mirror: the cancel request, a resumed one or the recovery job. *)
THEOREM MirrorsFollow == Spec => []MirrorsFollowThePlan
<1>1. GInv => MirrorsFollowThePlan
  BY DEF GInv, RInv
<1> QED BY <1>1, GInvariant, PTL

(* The children a card paid for cost exactly what was captured, and that    *)
(* money has not gone back, as long as the row does not offer the intent    *)
(* again.                                                                   *)
THEOREM PaidForReal == Spec => []PaidByItsIntent
<1>1. GInv => PaidByItsIntent
  BY DEF GInv, PInv
<1> QED BY <1>1, GInvariant, PTL
=============================================================================
