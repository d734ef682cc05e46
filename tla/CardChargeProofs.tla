-------------------------- MODULE CardChargeProofs --------------------------
(***************************************************************************)
(* What TLAPS proves of CardCharge, for any number of intents, lost        *)
(* answers, crashes and repeated deliveries: what the cron charges is      *)
(* charged once and found again, a PENDING booking keeps its window, and a *)
(* paid booking has its money.                                             *)
(***************************************************************************)
EXTENDS CardCharge, TLAPS

(* Each intent: it exists or not, it is captured or not, by somebody, and   *)
(* then Stripe reports it.                                                  *)
IntentsAgree ==
  \A i \in Intents :
    /\ money[i] = "none" <=> i > minted
    /\ by[i] = "none" <=> money[i] \in {"none", "open", "void"}
    /\ event[i] = "none" <=> by[i] = "none"
    /\ row[i] = "succeeded" => by[i] # "none"
    /\ hook[i] # "idle" \/ marker[i] => event[i] # "none"

(* The key holds what Stripe answered about the last intent, and whoever    *)
(* heard an answer heard that one.                                          *)
KeyAgrees ==
  /\ reply = "succeeded" =>
       minted # 0 /\ by[minted] \in Chargers /\ body = Body(by[minted])
  /\ reply = "action" => minted # 0 /\ by[minted] \in {"none", "customer"}
  /\ \A p \in Chargers :
       /\ pc[p] \in {"succeeded", "recorded", "refund"} => reply = "succeeded"
       /\ pc[p] = "action" => reply = "action"

(* One claim at a time: it takes the window.  Only charge-saved-method goes *)
(* over it, when the card wants the customer, and then the key says so.     *)
OneClaim ==
  reply # "action" =>
    /\ hold => pc["cron"] = "idle" /\ pc["admin"] = "idle"
    /\ pc["cron"] = "idle" \/ pc["admin"] = "idle"
    /\ status = "PENDING" => pc["cron"] = "idle" /\ pc["admin"] = "idle"

(* Once nobody is charging and the booking is not PENDING, nobody will.     *)
Closed == Idle /\ status # "PENDING"

(* What a charger captured is the last intent, and the key says so until    *)
(* the booking is closed - except after an answer to the admin or the desk  *)
(* was lost.                                                                *)
CapturesKept ==
  /\ \A i \in Intents :
       by[i] \in Chargers =>
         \/ i = minted /\ (reply = "succeeded" \/ Closed)
         \/ by[i] # "cron" /\ lost + crashes > 0
  /\ \A i \in Intents : by[i] = "cron" /\ status = "PENDING" => hold
  /\ reply = "succeeded" /\ lost + crashes = 0 =>
       \/ status \in {"PAID", "CANCELLED"}
       \/ \E p \in Chargers : pc[p] \in {"succeeded", "recorded"}

(* Money goes back only from a cancelled booking, and PAID means money.     *)
ReturnedIsCancelled ==
  /\ (\/ \E i \in Intents : money[i] \in {"returned", "kept"} \/ hook[i] \in {"refund", "late"}
      \/ \E p \in Chargers : pc[p] = "refund") => status = "CANCELLED" \/ revived
  /\ status = "PAID" => \E i \in Intents : by[i] # "none"

(* Captured money has a messenger: Stripe's event is still to be answered,  *)
(* or its handler is at work, or it has done what there was to do.  A claim *)
(* is never left behind without a crash.                                    *)
Messenger ==
  \A i \in Intents :
    /\ marker[i] /\ event[i] = "due" /\ hook[i] = "idle" => i \in adrift
    /\ money[i] = "captured" =>
         \/ status = "PAID" /\ row[i] # "none"
         \/ i \in alerted \cup adrift \/ event[i] = "due" \/ hook[i] # "idle"

(* The inductive invariant.  WindowIsKept is part of it as it stands. *)
IInv == /\ TypeOK /\ IntentsAgree /\ KeyAgrees /\ OneClaim /\ WindowIsKept
        /\ CapturesKept /\ ReturnedIsCancelled /\ Messenger

(* A refund takes captured money only, and from nobody else.                *)
LEMMA RefundEffect ==
  ASSUME Words, NEW r, ReturnPrice(r)
  PROVE  /\ row' = r
         /\ money' \in [Intents -> {"none", "open", "void", "captured", "returned", "kept"}]
         /\ \A i \in Intents :
              \/ money'[i] = money[i]
              \/ money[i] \in {"captured", "kept"} /\ money'[i] \in {"kept", "returned"}
<1> USE DEF Words, ReturnPrice, Refundable, Newest, Less
<1>1. row' = r
  OBVIOUS
<1>2. PICK n \in Newest(Refundable(r)) :
        \/ money' = [money EXCEPT ![n] = "returned"]
        \/ \E m \in Newest(Refundable(r) \ {n}) :
             money' = [money EXCEPT ![n] = "returned", ![m] = Less(@)]
  OBVIOUS
<1>3. n \in Intents /\ money[n] \in {"captured", "kept"}
  OBVIOUS
<1>4. CASE money' = [money EXCEPT ![n] = "returned"]
  BY <1>1, <1>3, <1>4
<1>5. CASE \E m \in Newest(Refundable(r) \ {n}) :
              money' = [money EXCEPT ![n] = "returned", ![m] = Less(@)]
  <2>1. PICK m \in Newest(Refundable(r) \ {n}) :
          money' = [money EXCEPT ![n] = "returned", ![m] = Less(@)]
    BY <1>5
  <2>2. m \in Intents /\ money[m] \in {"captured", "kept"} /\ m # n
    OBVIOUS
  <2> QED BY <1>1, <1>3, <2>1, <2>2
<1> QED BY <1>2, <1>4, <1>5

(* The late refund notes the capture first.                                 *)
LEMMA LateEffect ==
  ASSUME Words, NEW i \in Intents, HookRefundsLate(i)
  PROVE  /\ row' = [row EXCEPT ![i] = "succeeded"]
         /\ money' \in [Intents -> {"none", "open", "void", "captured", "returned", "kept"}]
         /\ \A j \in Intents :
              \/ money'[j] = money[j]
              \/ money[j] \in {"captured", "kept"} /\ money'[j] \in {"kept", "returned"}
<1>1. ReturnPrice([row EXCEPT ![i] = "succeeded"])
  BY DEF HookRefundsLate
<1> QED BY <1>1, RefundEffect

(* The intent of the key is one. *)
LEMMA MintedIsIntent ==
  ASSUME TypeOK, KeyAgrees, reply \in {"succeeded", "action"}
  PROVE  minted \in Intents
BY ChargeAssumption DEF TypeOK, Counts, KeyAgrees, Intents

(* A cancellation makes an open intent void, and its row failed.            *)
LEMMA VoidEffect ==
  ASSUME Words, VoidLatest
  PROVE  /\ row' \in [Intents -> {"none", "processing", "failed", "succeeded"}]
         /\ money' \in [Intents -> {"none", "open", "void", "captured", "returned", "kept"}]
         /\ \A i \in Intents :
              /\ money'[i] = money[i] \/ (money[i] = "open" /\ money'[i] = "void")
              /\ row'[i] = row[i] \/ (row[i] = "processing" /\ row'[i] = "failed")
  BY DEF Words, VoidLatest, Evidence, Rows, Newest, VoidedRow

(* The paid branch of a cancellation settles captured money.                *)
LEMMA CancelEffect ==
  ASSUME Words, CancelPaid
  PROVE  /\ row' = row
         /\ money' \in [Intents -> {"none", "open", "void", "captured", "returned", "kept"}]
         /\ \A i \in Intents :
              \/ money'[i] = money[i]
              \/ money[i] \in {"captured", "kept"} /\ money'[i] \in {"kept", "returned"}
<1>1. CASE ReturnPrice(row)
  BY <1>1, RefundEffect
<1>2. CASE ~ReturnPrice(row)
  BY <1>2 DEF Words, CancelPaid, Refundable, Newest, Less
<1> QED BY <1>1, <1>2

(* The initial state satisfies it. *)
LEMMA InitIInv == Init => IInv
<1> USE DEF Init, All
<1>1. Init => Counts
  BY ChargeAssumption DEF Counts
<1>2. Init => Flags
  <2>1. Init => marker \in [Intents -> BOOLEAN]
    OBVIOUS
  <2> QED BY <2>1 DEF Flags
<1>3. Init => Words
  BY DEF Words
<1>4. Init => Places
  BY DEF Places
<1>5. Init => IntentsAgree
  BY DEF IntentsAgree, Intents
<1>6. Init => KeyAgrees /\ OneClaim /\ WindowIsKept
  BY DEF KeyAgrees, OneClaim, WindowIsKept, Chargers
<1>7. Init => CapturesKept /\ ReturnedIsCancelled /\ Messenger
  BY DEF CapturesKept, ReturnedIsCancelled, Messenger, Chargers
<1> QED BY <1>1, <1>2, <1>3, <1>4, <1>5, <1>6, <1>7 DEF IInv, TypeOK

(* Each step keeps the counters. *)
LEMMA StepCounts ==
  ASSUME TypeOK, [Next]_vars
  PROVE  Counts'
<1> USE ChargeAssumption DEF TypeOK, Counts, Flags, Words, Places, Goto, RowIs, SetAdrift,
            MayFail, booking, stripe, key, delivery, history, counters
<1>1. CASE CronClaim \/ AdminClaim \/ DeskRead
  BY <1>1 DEF CronClaim, AdminClaim, DeskRead
<1>2. CASE KeyExpires
  BY <1>2 DEF KeyExpires
<1>3. ASSUME NEW p \in Chargers, Work(p)
      PROVE  Counts'
  <2>1. CASE Charge(p)
    BY <2>1 DEF Charge, Decide, Hear, Body
  <2>2. CASE Record(p) \/ Release(p)
    BY <2>2 DEF Record, Release, KeepsOpenIntent
  <2>3. CASE Settle(p)
    BY <2>3 DEF Settle, MarkSettles, MarkFindsNoRoom, MarkRefuses, Payable
  <2>4. CASE RefundNoRoom(p)
    BY <2>4, RefundEffect DEF RefundNoRoom, ReturnPriceOf
  <2> QED BY <1>3, <2>1, <2>2, <2>3, <2>4 DEF Work
<1>4. CASE DeskFails
  BY <1>4 DEF DeskFails
<1>5. ASSUME NEW i \in Intents, Authenticate(i) \/ Deliver(i) \/ DeliverClaimed(i)
      PROVE  Counts'
  BY <1>5 DEF Authenticate, Deliver, DeliverClaimed, Answer
<1>6. ASSUME NEW i \in Intents, Hook(i)
      PROVE  Counts'
  <2> USE DEF HookAt, HookAnswers, Answer, HookFails, NoRetry
  <2>1. CASE HookFinds(i) \/ HookRefundFails(i)
    <3>1. CASE HookFinds(i)
      BY <3>1 DEF HookFinds
    <3>2. CASE HookRefundFails(i)
      BY <3>2 DEF HookRefundFails
    <3> QED BY <2>1, <3>1, <3>2
  <2>2. CASE HookSettles(i)
    BY <2>2 DEF HookSettles, MarkSettles, MarkFindsNoRoom, MarkRefuses, Payable
  <2>3. CASE HookRefundsNoRoom(i)
    BY <2>3, RefundEffect DEF HookRefundsNoRoom, ReturnPriceOf
  <2>4. CASE HookRefundsLate(i)
    BY <2>4, LateEffect DEF HookRefundsLate
  <2> QED BY <1>6, <2>1, <2>2, <2>3, <2>4 DEF Hook
<1>7. CASE ReadCancel
  BY <1>7, VoidEffect DEF ReadCancel
<1>8. CASE WriteCancel
  BY <1>8 DEF WriteCancel
<1>9. CASE CancelPaid
  BY <1>9, CancelEffect DEF CancelPaid
<1>10. CASE Crash
  BY <1>10 DEF Crash, All
<1>11. CASE UNCHANGED vars
  BY <1>11 DEF vars
<1> QED
  BY <1>1, <1>2, <1>3, <1>4, <1>5, <1>6, <1>7, <1>8, <1>9, <1>10, <1>11 DEF Next

(* Each step keeps the flags. *)
LEMMA StepFlags ==
  ASSUME TypeOK, KeyAgrees, [Next]_vars
  PROVE  Flags'
<1> USE ChargeAssumption DEF KeyAgrees, TypeOK, Counts, Flags, Words, Places, Goto, RowIs, SetAdrift,
            MayFail, booking, stripe, key, delivery, history, counters
<1>1. CASE CronClaim \/ AdminClaim \/ DeskRead
  BY <1>1 DEF CronClaim, AdminClaim, DeskRead
<1>2. CASE KeyExpires
  BY <1>2 DEF KeyExpires
<1>3. ASSUME NEW p \in Chargers, Work(p)
      PROVE  Flags'
  <2>1. CASE Charge(p)
    BY <2>1 DEF Charge, Decide, Hear, Body
  <2>2. CASE Record(p) \/ Release(p)
    BY <2>2, MintedIsIntent DEF Record, Release, KeepsOpenIntent
  <2>3. CASE Settle(p)
    BY <2>3, MintedIsIntent DEF Settle, MarkSettles, MarkFindsNoRoom, MarkRefuses, Payable
  <2>4. CASE RefundNoRoom(p)
    BY <2>4, MintedIsIntent, RefundEffect DEF RefundNoRoom, ReturnPriceOf
  <2> QED BY <1>3, <2>1, <2>2, <2>3, <2>4 DEF Work
<1>4. CASE DeskFails
  BY <1>4, MintedIsIntent DEF DeskFails
<1>5. ASSUME NEW i \in Intents, Authenticate(i) \/ Deliver(i) \/ DeliverClaimed(i)
      PROVE  Flags'
  BY <1>5 DEF Authenticate, Deliver, DeliverClaimed, Answer
<1>6. ASSUME NEW i \in Intents, Hook(i)
      PROVE  Flags'
  <2> USE DEF HookAt, HookAnswers, Answer, HookFails, NoRetry
  <2>1. CASE HookFinds(i) \/ HookRefundFails(i)
    <3>1. CASE HookFinds(i)
      BY <3>1 DEF HookFinds
    <3>2. CASE HookRefundFails(i)
      BY <3>2 DEF HookRefundFails
    <3> QED BY <2>1, <3>1, <3>2
  <2>2. CASE HookSettles(i)
    <3>0. /\ hook[i] = "paying"
          /\ UNCHANGED <<stripe, pc, cancel, alerted, revived, counters>>
      BY <2>2 DEF HookSettles
    <3>1. CASE MarkSettles(i) /\ HookAnswers(i) /\ UNCHANGED adrift
      BY <3>0, <3>1 DEF MarkSettles, Payable
    <3>2. CASE MarkFindsNoRoom(i) /\ HookAt(i, "refund") /\ UNCHANGED <<event, marker, adrift>>
      BY <3>0, <3>2 DEF MarkFindsNoRoom, Payable
    <3>3. CASE MarkRefuses /\ HookFails(i)
      BY <3>0, <3>3 DEF MarkRefuses
    <3> QED BY <2>2, <3>1, <3>2, <3>3 DEF HookSettles
  <2>3. CASE HookRefundsNoRoom(i)
    BY <2>3, RefundEffect DEF HookRefundsNoRoom, ReturnPriceOf
  <2>4. CASE HookRefundsLate(i)
    BY <2>4, LateEffect DEF HookRefundsLate
  <2> QED BY <1>6, <2>1, <2>2, <2>3, <2>4 DEF Hook
<1>7. CASE ReadCancel
  BY <1>7, VoidEffect DEF ReadCancel
<1>8. CASE WriteCancel
  BY <1>8 DEF WriteCancel
<1>9. CASE CancelPaid
  BY <1>9, CancelEffect DEF CancelPaid
<1>10. CASE Crash
  BY <1>10 DEF Crash, All
<1>11. CASE UNCHANGED vars
  BY <1>11 DEF vars
<1> QED
  BY <1>1, <1>2, <1>3, <1>4, <1>5, <1>6, <1>7, <1>8, <1>9, <1>10, <1>11 DEF Next

(* Each step keeps the words. *)
LEMMA StepWords ==
  ASSUME TypeOK, [Next]_vars
  PROVE  Words'
<1> USE ChargeAssumption DEF Chargers, TypeOK, Counts, Flags, Words, Places, Goto, RowIs, SetAdrift,
            MayFail, booking, stripe, key, delivery, history, counters
<1>1. CASE CronClaim \/ AdminClaim \/ DeskRead
  BY <1>1 DEF CronClaim, AdminClaim, DeskRead
<1>2. CASE KeyExpires
  BY <1>2 DEF KeyExpires
<1>3. ASSUME NEW p \in Chargers, Work(p)
      PROVE  Words'
  <2>1. CASE Charge(p)
    <3> USE DEF Charge, Body, Hear, Intents
    <3>1. CASE reply = "none" /\ Decide(p) /\ Hear(p)
      <4> USE DEF Decide
      <4>1. CASE minted + 1 \in Intents /\ minted' = minted + 1 /\ reply' = "succeeded"
        <5>1. body' \in {"none", "saved", "admin"}
          BY <3>1
        <5>2. by' = [by EXCEPT ![minted + 1] = p]
          BY <3>1, <4>1
        <5>3. money' = [money EXCEPT ![minted + 1] = "captured"]
          BY <3>1, <4>1
        <5>4. event' = [event EXCEPT ![minted + 1] = "due"] /\ status' = status /\ row' = row
          BY <2>1, <3>1, <4>1
        <5> QED BY <4>1, <5>1, <5>2, <5>3, <5>4
      <4>2. CASE minted + 1 \in Intents /\ minted' = minted + 1 /\ reply' = "action"
        BY <2>1, <3>1, <4>2
      <4>3. CASE reply' = "declined"
        BY <2>1, <3>1, <4>3
      <4> QED BY <3>1, <4>1, <4>2, <4>3
    <3>2. CASE reply # "none"
      BY <2>1, <3>2
    <3> QED BY <2>1, <3>1, <3>2
  <2>2. CASE Record(p) \/ Release(p)
    BY <2>2 DEF Record, Release, KeepsOpenIntent
  <2>3. CASE Settle(p)
    BY <2>3 DEF Settle, MarkSettles, MarkFindsNoRoom, MarkRefuses, Payable
  <2>4. CASE RefundNoRoom(p)
    BY <2>4, RefundEffect DEF RefundNoRoom, ReturnPriceOf
  <2> QED BY <1>3, <2>1, <2>2, <2>3, <2>4 DEF Work
<1>4. CASE DeskFails
  BY <1>4 DEF DeskFails
<1>5. ASSUME NEW i \in Intents, Authenticate(i) \/ Deliver(i) \/ DeliverClaimed(i)
      PROVE  Words'
  BY <1>5 DEF Authenticate, Deliver, DeliverClaimed, Answer
<1>6. ASSUME NEW i \in Intents, Hook(i)
      PROVE  Words'
  <2> USE DEF HookAt, HookAnswers, Answer, HookFails, NoRetry
  <2>1. CASE HookFinds(i) \/ HookRefundFails(i)
    <3>1. CASE HookFinds(i)
      BY <3>1 DEF HookFinds
    <3>2. CASE HookRefundFails(i)
      BY <3>2 DEF HookRefundFails
    <3> QED BY <2>1, <3>1, <3>2
  <2>2. CASE HookSettles(i)
    BY <2>2 DEF HookSettles, MarkSettles, MarkFindsNoRoom, MarkRefuses, Payable
  <2>3. CASE HookRefundsNoRoom(i)
    BY <2>3, RefundEffect DEF HookRefundsNoRoom, ReturnPriceOf
  <2>4. CASE HookRefundsLate(i)
    <3>1. /\ row' = [row EXCEPT ![i] = "succeeded"]
          /\ money' \in [Intents -> {"none", "open", "void", "captured", "returned", "kept"}]
          /\ \A j \in Intents :
               \/ money'[j] = money[j]
               \/ money[j] \in {"captured", "kept"} /\ money'[j] \in {"kept", "returned"}
      BY <2>4, LateEffect
    <3>2. /\ hook[i] = "late" /\ hook' = [hook EXCEPT ![i] = "idle"]
          /\ event' = [event EXCEPT ![i] = "answered"]
          /\ alerted' = alerted \cup {i}
          /\ UNCHANGED <<booking, minted, by, key, marker, pc, cancel, history, counters>>
      BY <2>4 DEF HookRefundsLate
    <3> QED BY <3>1, <3>2
  <2> QED BY <1>6, <2>1, <2>2, <2>3, <2>4 DEF Hook
<1>7. CASE ReadCancel
  BY <1>7, VoidEffect DEF ReadCancel
<1>8. CASE WriteCancel
  BY <1>8 DEF WriteCancel
<1>9. CASE CancelPaid
  BY <1>9, CancelEffect DEF CancelPaid
<1>10. CASE Crash
  BY <1>10 DEF Crash, All
<1>11. CASE UNCHANGED vars
  BY <1>11 DEF vars
<1> QED
  BY <1>1, <1>2, <1>3, <1>4, <1>5, <1>6, <1>7, <1>8, <1>9, <1>10, <1>11 DEF Next

(* Each step keeps the places. *)
LEMMA StepPlaces ==
  ASSUME TypeOK, [Next]_vars
  PROVE  Places'
<1> USE ChargeAssumption DEF TypeOK, Counts, Flags, Words, Places, Goto, RowIs, SetAdrift,
            MayFail, booking, stripe, key, delivery, history, counters
<1>1. CASE CronClaim \/ AdminClaim \/ DeskRead
  BY <1>1 DEF CronClaim, AdminClaim, DeskRead
<1>2. CASE KeyExpires
  BY <1>2 DEF KeyExpires
<1>3. ASSUME NEW p \in Chargers, Work(p)
      PROVE  Places'
  <2>1. CASE Charge(p)
    BY <2>1 DEF Charge, Decide, Hear, Body
  <2>2. CASE Record(p) \/ Release(p)
    BY <2>2 DEF Record, Release, KeepsOpenIntent
  <2>3. CASE Settle(p)
    BY <2>3 DEF Settle, MarkSettles, MarkFindsNoRoom, MarkRefuses, Payable
  <2>4. CASE RefundNoRoom(p)
    BY <2>4, RefundEffect DEF RefundNoRoom, ReturnPriceOf
  <2> QED BY <1>3, <2>1, <2>2, <2>3, <2>4 DEF Work
<1>4. CASE DeskFails
  BY <1>4 DEF DeskFails
<1>5. ASSUME NEW i \in Intents, Authenticate(i) \/ Deliver(i) \/ DeliverClaimed(i)
      PROVE  Places'
  BY <1>5 DEF Authenticate, Deliver, DeliverClaimed, Answer
<1>6. ASSUME NEW i \in Intents, Hook(i)
      PROVE  Places'
  <2> USE DEF HookAt, HookAnswers, Answer, HookFails, NoRetry
  <2>1. CASE HookFinds(i) \/ HookRefundFails(i)
    <3>1. CASE HookFinds(i)
      BY <3>1 DEF HookFinds
    <3>2. CASE HookRefundFails(i)
      BY <3>2 DEF HookRefundFails
    <3> QED BY <2>1, <3>1, <3>2
  <2>2. CASE HookSettles(i)
    BY <2>2 DEF HookSettles, MarkSettles, MarkFindsNoRoom, MarkRefuses, Payable
  <2>3. CASE HookRefundsNoRoom(i)
    BY <2>3, RefundEffect DEF HookRefundsNoRoom, ReturnPriceOf
  <2>4. CASE HookRefundsLate(i)
    BY <2>4, LateEffect DEF HookRefundsLate
  <2> QED BY <1>6, <2>1, <2>2, <2>3, <2>4 DEF Hook
<1>7. CASE ReadCancel
  BY <1>7, VoidEffect DEF ReadCancel
<1>8. CASE WriteCancel
  BY <1>8 DEF WriteCancel
<1>9. CASE CancelPaid
  BY <1>9, CancelEffect DEF CancelPaid
<1>10. CASE Crash
  BY <1>10 DEF Crash, All
<1>11. CASE UNCHANGED vars
  BY <1>11 DEF vars
<1> QED
  BY <1>1, <1>2, <1>3, <1>4, <1>5, <1>6, <1>7, <1>8, <1>9, <1>10, <1>11 DEF Next

(* Each step keeps what is said of each intent. *)
LEMMA StepIntents ==
  ASSUME IInv, [Next]_vars
  PROVE  IntentsAgree'
<1> USE ChargeAssumption DEF IInv, IntentsAgree, KeyAgrees, Chargers, TypeOK, Counts, Flags, Words, Places, Goto, RowIs, SetAdrift,
            MayFail, booking, stripe, key, delivery, history, counters
<1>1. CASE CronClaim \/ AdminClaim \/ DeskRead
  BY <1>1 DEF CronClaim, AdminClaim, DeskRead
<1>2. CASE KeyExpires
  BY <1>2 DEF KeyExpires
<1>3. ASSUME NEW p \in Chargers, Work(p)
      PROVE  IntentsAgree'
  <2>1. CASE Charge(p)
    <3> USE DEF Charge, Body, Hear, Intents
    <3>1. CASE reply = "none" /\ Decide(p) /\ Hear(p)
      <4> USE DEF Decide
      <4>1. CASE minted + 1 \in Intents /\ minted' = minted + 1 /\ reply' = "succeeded"
        BY <2>1, <3>1, <4>1
      <4>2. CASE minted + 1 \in Intents /\ minted' = minted + 1 /\ reply' = "action"
        BY <2>1, <3>1, <4>2
      <4>3. CASE reply' = "declined"
        BY <2>1, <3>1, <4>3
      <4> QED BY <3>1, <4>1, <4>2, <4>3
    <3>2. CASE reply # "none"
      BY <2>1, <3>2
    <3> QED BY <2>1, <3>1, <3>2
  <2>2. CASE Record(p) \/ Release(p)
    <3>1. CASE Record(p)
      BY <2>2, <3>1, MintedIsIntent DEF Record
    <3>2. CASE Release(p)
      BY <2>2, <3>2, MintedIsIntent DEF Release, KeepsOpenIntent
    <3> QED BY <2>2, <3>1, <3>2
  <2>3. CASE Settle(p)
    <3>0. /\ minted \in Intents /\ reply = "succeeded"
          /\ UNCHANGED <<stripe, delivery, cancel, history, counters>>
      BY <2>3, MintedIsIntent DEF Settle, KeyAgrees
    <3>1. CASE MarkSettles(minted) /\ Goto(p, "idle") /\ UNCHANGED alerted
      BY <3>0, <3>1 DEF MarkSettles, Payable
    <3>2. CASE MarkFindsNoRoom(minted) /\ Goto(p, "refund") /\ UNCHANGED alerted
      BY <3>0, <3>2 DEF MarkFindsNoRoom, Payable
    <3>3. CASE MarkRefuses /\ Goto(p, "idle")
      BY <2>3, <3>0, <3>3 DEF MarkRefuses, Settle, MarkSettles, MarkFindsNoRoom, Payable
    <3> QED BY <2>3, <3>1, <3>2, <3>3 DEF Settle
  <2>4. CASE RefundNoRoom(p)
    BY <2>4, MintedIsIntent, RefundEffect DEF RefundNoRoom, ReturnPriceOf
  <2> QED BY <1>3, <2>1, <2>2, <2>3, <2>4 DEF Work
<1>4. CASE DeskFails
  BY <1>4, MintedIsIntent DEF DeskFails
<1>5. ASSUME NEW i \in Intents, Authenticate(i) \/ Deliver(i) \/ DeliverClaimed(i)
      PROVE  IntentsAgree'
  BY <1>5 DEF Authenticate, Deliver, DeliverClaimed, Answer
<1>6. ASSUME NEW i \in Intents, Hook(i)
      PROVE  IntentsAgree'
  <2> USE DEF HookAt, HookAnswers, Answer, HookFails, NoRetry
  <2>1. CASE HookFinds(i) \/ HookRefundFails(i)
    <3>1. CASE HookFinds(i)
      BY <3>1 DEF HookFinds
    <3>2. CASE HookRefundFails(i)
      BY <3>2 DEF HookRefundFails
    <3> QED BY <2>1, <3>1, <3>2
  <2>2. CASE HookSettles(i)
    BY <2>2 DEF HookSettles, MarkSettles, MarkFindsNoRoom, MarkRefuses, Payable
  <2>3. CASE HookRefundsNoRoom(i)
    BY <2>3, RefundEffect DEF HookRefundsNoRoom, ReturnPriceOf
  <2>4. CASE HookRefundsLate(i)
    <3>1. /\ row' = [row EXCEPT ![i] = "succeeded"]
          /\ money' \in [Intents -> {"none", "open", "void", "captured", "returned", "kept"}]
          /\ \A j \in Intents :
               \/ money'[j] = money[j]
               \/ money[j] \in {"captured", "kept"} /\ money'[j] \in {"kept", "returned"}
      BY <2>4, LateEffect
    <3>2. /\ hook[i] = "late" /\ hook' = [hook EXCEPT ![i] = "idle"]
          /\ event' = [event EXCEPT ![i] = "answered"]
          /\ alerted' = alerted \cup {i}
          /\ UNCHANGED <<booking, minted, by, key, marker, pc, cancel, history, counters>>
      BY <2>4 DEF HookRefundsLate
    <3> QED BY <3>1, <3>2
  <2> QED BY <1>6, <2>1, <2>2, <2>3, <2>4 DEF Hook
<1>7. CASE ReadCancel
  BY <1>7, VoidEffect DEF ReadCancel
<1>8. CASE WriteCancel
  BY <1>8 DEF WriteCancel
<1>9. CASE CancelPaid
  BY <1>9, CancelEffect DEF CancelPaid
<1>10. CASE Crash
  BY <1>10 DEF Crash, All
<1>11. CASE UNCHANGED vars
  BY <1>11 DEF vars
<1> QED
  BY <1>1, <1>2, <1>3, <1>4, <1>5, <1>6, <1>7, <1>8, <1>9, <1>10, <1>11 DEF Next

(* Each step keeps the key in line with the intents. *)
LEMMA StepKey ==
  ASSUME IInv, [Next]_vars
  PROVE  KeyAgrees'
<1> USE ChargeAssumption DEF IInv, IntentsAgree, KeyAgrees, Idle, TypeOK, Counts, Flags, Words, Places, Goto, RowIs, SetAdrift,
            MayFail, booking, stripe, key, delivery, history, counters, Chargers
<1>1. CASE CronClaim \/ AdminClaim \/ DeskRead
  BY <1>1 DEF CronClaim, AdminClaim, DeskRead
<1>2. CASE KeyExpires
  BY <1>2 DEF KeyExpires
<1>3. ASSUME NEW p \in Chargers, Work(p)
      PROVE  KeyAgrees'
  <2>1. CASE Charge(p)
    BY <2>1 DEF Charge, Decide, Hear, Body, Intents
  <2>2. CASE Record(p) \/ Release(p)
    BY <2>2, MintedIsIntent DEF Record, Release, KeepsOpenIntent
  <2>3. CASE Settle(p)
    BY <2>3, MintedIsIntent DEF Settle, MarkSettles, MarkFindsNoRoom, MarkRefuses, Payable
  <2>4. CASE RefundNoRoom(p)
    BY <2>4, MintedIsIntent, RefundEffect DEF RefundNoRoom, ReturnPriceOf
  <2> QED BY <1>3, <2>1, <2>2, <2>3, <2>4 DEF Work
<1>4. CASE DeskFails
  BY <1>4, MintedIsIntent DEF DeskFails
<1>5. ASSUME NEW i \in Intents, Authenticate(i) \/ Deliver(i) \/ DeliverClaimed(i)
      PROVE  KeyAgrees'
  <2> USE DEF Answer
  <2>1. CASE Authenticate(i)
    BY <2>1 DEF Authenticate
  <2>2. CASE Deliver(i)
    BY <2>2 DEF Deliver
  <2>3. CASE DeliverClaimed(i)
    BY <2>3 DEF DeliverClaimed
  <2> QED BY <1>5, <2>1, <2>2, <2>3
<1>6. ASSUME NEW i \in Intents, Hook(i)
      PROVE  KeyAgrees'
  <2> USE DEF HookAt, HookAnswers, Answer, HookFails, NoRetry
  <2>1. CASE HookFinds(i) \/ HookRefundFails(i)
    <3>1. CASE HookFinds(i)
      BY <3>1 DEF HookFinds
    <3>2. CASE HookRefundFails(i)
      BY <3>2 DEF HookRefundFails
    <3> QED BY <2>1, <3>1, <3>2
  <2>2. CASE HookSettles(i)
    BY <2>2 DEF HookSettles, MarkSettles, MarkFindsNoRoom, MarkRefuses, Payable
  <2>3. CASE HookRefundsNoRoom(i)
    BY <2>3, RefundEffect DEF HookRefundsNoRoom, ReturnPriceOf
  <2>4. CASE HookRefundsLate(i)
    BY <2>4, LateEffect DEF HookRefundsLate
  <2> QED BY <1>6, <2>1, <2>2, <2>3, <2>4 DEF Hook
<1>7. CASE ReadCancel
  BY <1>7, VoidEffect DEF ReadCancel
<1>8. CASE WriteCancel
  BY <1>8 DEF WriteCancel
<1>9. CASE CancelPaid
  BY <1>9, CancelEffect DEF CancelPaid
<1>10. CASE Crash
  BY <1>10 DEF Crash, All
<1>11. CASE UNCHANGED vars
  BY <1>11 DEF vars
<1> QED
  BY <1>1, <1>2, <1>3, <1>4, <1>5, <1>6, <1>7, <1>8, <1>9, <1>10, <1>11 DEF Next

(* Each step leaves one claim at a time. *)
LEMMA StepClaim ==
  ASSUME IInv, [Next]_vars
  PROVE  OneClaim'
<1> USE ChargeAssumption DEF IInv, KeyAgrees, OneClaim, Idle, TypeOK, Counts, Flags, Words, Places, Goto, RowIs, SetAdrift,
            MayFail, booking, stripe, key, delivery, history, counters, Chargers
<1>1. CASE CronClaim \/ AdminClaim \/ DeskRead
  BY <1>1 DEF CronClaim, AdminClaim, DeskRead
<1>2. CASE KeyExpires
  BY <1>2 DEF KeyExpires
<1>3. ASSUME NEW p \in Chargers, Work(p)
      PROVE  OneClaim'
  <2>1. CASE Charge(p)
    BY <2>1 DEF Charge, Decide, Hear, Body
  <2>2. CASE Record(p) \/ Release(p)
    BY <2>2 DEF Record, Release, KeepsOpenIntent
  <2>3. CASE Settle(p)
    BY <2>3 DEF Settle, MarkSettles, MarkFindsNoRoom, MarkRefuses, Payable
  <2>4. CASE RefundNoRoom(p)
    BY <2>4, RefundEffect DEF RefundNoRoom, ReturnPriceOf
  <2> QED BY <1>3, <2>1, <2>2, <2>3, <2>4 DEF Work
<1>4. CASE DeskFails
  BY <1>4 DEF DeskFails
<1>5. ASSUME NEW i \in Intents, Authenticate(i) \/ Deliver(i) \/ DeliverClaimed(i)
      PROVE  OneClaim'
  BY <1>5 DEF Authenticate, Deliver, DeliverClaimed, Answer
<1>6. ASSUME NEW i \in Intents, Hook(i)
      PROVE  OneClaim'
  <2> USE DEF HookAt, HookAnswers, Answer, HookFails, NoRetry
  <2>1. CASE HookFinds(i) \/ HookRefundFails(i)
    <3>1. CASE HookFinds(i)
      BY <3>1 DEF HookFinds
    <3>2. CASE HookRefundFails(i)
      BY <3>2 DEF HookRefundFails
    <3> QED BY <2>1, <3>1, <3>2
  <2>2. CASE HookSettles(i)
    BY <2>2 DEF HookSettles, MarkSettles, MarkFindsNoRoom, MarkRefuses, Payable
  <2>3. CASE HookRefundsNoRoom(i)
    BY <2>3, RefundEffect DEF HookRefundsNoRoom, ReturnPriceOf
  <2>4. CASE HookRefundsLate(i)
    BY <2>4, LateEffect DEF HookRefundsLate
  <2> QED BY <1>6, <2>1, <2>2, <2>3, <2>4 DEF Hook
<1>7. CASE ReadCancel
  BY <1>7, VoidEffect DEF ReadCancel
<1>8. CASE WriteCancel
  BY <1>8 DEF WriteCancel
<1>9. CASE CancelPaid
  BY <1>9, CancelEffect DEF CancelPaid
<1>10. CASE Crash
  BY <1>10 DEF Crash, All
<1>11. CASE UNCHANGED vars
  BY <1>11 DEF vars
<1> QED
  BY <1>1, <1>2, <1>3, <1>4, <1>5, <1>6, <1>7, <1>8, <1>9, <1>10, <1>11 DEF Next

(* Each step keeps the window. *)
LEMMA StepWindow ==
  ASSUME IInv, [Next]_vars
  PROVE  WindowIsKept'
<1> USE ChargeAssumption DEF IInv, IntentsAgree, KeyAgrees, OneClaim, WindowIsKept, TypeOK, Counts, Flags, Words, Places, Goto, RowIs, SetAdrift,
            MayFail, booking, stripe, key, delivery, history, counters, Chargers
<1>1. CASE CronClaim \/ AdminClaim \/ DeskRead
  BY <1>1 DEF CronClaim, AdminClaim, DeskRead
<1>2. CASE KeyExpires
  BY <1>2 DEF KeyExpires
<1>3. ASSUME NEW p \in Chargers, Work(p)
      PROVE  WindowIsKept'
  <2>1. CASE Charge(p)
    BY <2>1 DEF Charge, Decide, Hear, Body, Intents
  <2>2. CASE Record(p) \/ Release(p)
    BY <2>2, MintedIsIntent DEF Record, Release, KeepsOpenIntent
  <2>3. CASE Settle(p)
    BY <2>3, MintedIsIntent DEF Settle, MarkSettles, MarkFindsNoRoom, MarkRefuses, Payable
  <2>4. CASE RefundNoRoom(p)
    BY <2>4, MintedIsIntent, RefundEffect DEF RefundNoRoom, ReturnPriceOf
  <2> QED BY <1>3, <2>1, <2>2, <2>3, <2>4 DEF Work
<1>4. CASE DeskFails
  BY <1>4, MintedIsIntent DEF DeskFails
<1>5. ASSUME NEW i \in Intents, Authenticate(i) \/ Deliver(i) \/ DeliverClaimed(i)
      PROVE  WindowIsKept'
  BY <1>5 DEF Authenticate, Deliver, DeliverClaimed, Answer
<1>6. ASSUME NEW i \in Intents, Hook(i)
      PROVE  WindowIsKept'
  <2> USE DEF HookAt, HookAnswers, Answer, HookFails, NoRetry
  <2>1. CASE HookFinds(i) \/ HookRefundFails(i)
    <3>1. CASE HookFinds(i)
      BY <3>1 DEF HookFinds
    <3>2. CASE HookRefundFails(i)
      BY <3>2 DEF HookRefundFails
    <3> QED BY <2>1, <3>1, <3>2
  <2>2. CASE HookSettles(i)
    BY <2>2 DEF HookSettles, MarkSettles, MarkFindsNoRoom, MarkRefuses, Payable
  <2>3. CASE HookRefundsNoRoom(i)
    BY <2>3, RefundEffect DEF HookRefundsNoRoom, ReturnPriceOf
  <2>4. CASE HookRefundsLate(i)
    BY <2>4, LateEffect DEF HookRefundsLate
  <2> QED BY <1>6, <2>1, <2>2, <2>3, <2>4 DEF Hook
<1>7. CASE ReadCancel
  BY <1>7, VoidEffect DEF ReadCancel
<1>8. CASE WriteCancel
  BY <1>8 DEF WriteCancel
<1>9. CASE CancelPaid
  BY <1>9, CancelEffect DEF CancelPaid
<1>10. CASE Crash
  BY <1>10 DEF Crash, All
<1>11. CASE UNCHANGED vars
  BY <1>11 DEF vars
<1> QED
  BY <1>1, <1>2, <1>3, <1>4, <1>5, <1>6, <1>7, <1>8, <1>9, <1>10, <1>11 DEF Next

(* Each step keeps the captures under the key. *)
LEMMA StepCaptures ==
  ASSUME IInv, [Next]_vars
  PROVE  CapturesKept'
<1> USE ChargeAssumption DEF IInv, IntentsAgree, KeyAgrees, OneClaim, CapturesKept, Closed, Idle, TypeOK, Counts, Flags, Words, Places, Goto, RowIs, SetAdrift,
            MayFail, booking, stripe, key, delivery, history, counters, Chargers
<1>1. CASE CronClaim \/ AdminClaim \/ DeskRead
  BY <1>1 DEF CronClaim, AdminClaim, DeskRead
<1>2. CASE KeyExpires
  BY <1>2 DEF KeyExpires
<1>3. ASSUME NEW p \in Chargers, Work(p)
      PROVE  CapturesKept'
  <2>1. CASE Charge(p)
    BY <2>1 DEF Charge, Decide, Hear, Body, Intents
  <2>2. CASE Record(p) \/ Release(p)
    BY <2>2, MintedIsIntent DEF Record, Release, KeepsOpenIntent
  <2>3. CASE Settle(p)
    BY <2>3, MintedIsIntent DEF Settle, MarkSettles, MarkFindsNoRoom, MarkRefuses, Payable
  <2>4. CASE RefundNoRoom(p)
    BY <2>4, MintedIsIntent, RefundEffect DEF RefundNoRoom, ReturnPriceOf
  <2> QED BY <1>3, <2>1, <2>2, <2>3, <2>4 DEF Work
<1>4. CASE DeskFails
  BY <1>4, MintedIsIntent DEF DeskFails
<1>5. ASSUME NEW i \in Intents, Authenticate(i) \/ Deliver(i) \/ DeliverClaimed(i)
      PROVE  CapturesKept'
  BY <1>5 DEF Authenticate, Deliver, DeliverClaimed, Answer
<1>6. ASSUME NEW i \in Intents, Hook(i)
      PROVE  CapturesKept'
  <2> USE DEF HookAt, HookAnswers, Answer, HookFails, NoRetry
  <2>1. CASE HookFinds(i) \/ HookRefundFails(i)
    <3>1. CASE HookFinds(i)
      BY <3>1 DEF HookFinds
    <3>2. CASE HookRefundFails(i)
      BY <3>2 DEF HookRefundFails
    <3> QED BY <2>1, <3>1, <3>2
  <2>2. CASE HookSettles(i)
    BY <2>2 DEF HookSettles, MarkSettles, MarkFindsNoRoom, MarkRefuses, Payable
  <2>3. CASE HookRefundsNoRoom(i)
    BY <2>3, RefundEffect DEF HookRefundsNoRoom, ReturnPriceOf
  <2>4. CASE HookRefundsLate(i)
    BY <2>4, LateEffect DEF HookRefundsLate
  <2> QED BY <1>6, <2>1, <2>2, <2>3, <2>4 DEF Hook
<1>7. CASE ReadCancel
  BY <1>7, VoidEffect DEF ReadCancel
<1>8. CASE WriteCancel
  BY <1>8 DEF WriteCancel
<1>9. CASE CancelPaid
  BY <1>9, CancelEffect DEF CancelPaid
<1>10. CASE Crash
  BY <1>10 DEF Crash, All
<1>11. CASE UNCHANGED vars
  BY <1>11 DEF vars
<1> QED
  BY <1>1, <1>2, <1>3, <1>4, <1>5, <1>6, <1>7, <1>8, <1>9, <1>10, <1>11 DEF Next

(* Money goes back only from a cancelled booking. *)
LEMMA StepReturned ==
  ASSUME IInv, [Next]_vars
  PROVE  ReturnedIsCancelled'
<1> USE ChargeAssumption DEF IInv, IntentsAgree, KeyAgrees, ReturnedIsCancelled, Chargers, TypeOK, Counts, Flags, Words, Places, Goto, RowIs, SetAdrift,
            MayFail, booking, stripe, key, delivery, history, counters
<1>1. CASE CronClaim \/ AdminClaim \/ DeskRead
  BY <1>1 DEF CronClaim, AdminClaim, DeskRead
<1>2. CASE KeyExpires
  BY <1>2 DEF KeyExpires
<1>3. ASSUME NEW p \in Chargers, Work(p)
      PROVE  ReturnedIsCancelled'
  <2>1. CASE Charge(p)
    BY <2>1 DEF Charge, Decide, Hear, Body, Intents
  <2>2. CASE Record(p) \/ Release(p)
    BY <2>2, MintedIsIntent DEF Record, Release, KeepsOpenIntent
  <2>3. CASE Settle(p)
    <3>0. /\ minted \in Intents /\ reply = "succeeded"
          /\ UNCHANGED <<stripe, delivery, cancel, history, counters>>
      BY <2>3, MintedIsIntent DEF Settle, KeyAgrees
    <3>1. CASE MarkSettles(minted) /\ Goto(p, "idle") /\ UNCHANGED alerted
      BY <3>0, <3>1 DEF MarkSettles, Payable
    <3>2. CASE MarkFindsNoRoom(minted) /\ Goto(p, "refund") /\ UNCHANGED alerted
      BY <3>0, <3>2 DEF MarkFindsNoRoom, Payable
    <3>3. CASE MarkRefuses /\ Goto(p, "idle")
      BY <2>3, <3>0, <3>3 DEF MarkRefuses, Settle, MarkSettles, MarkFindsNoRoom, Payable
    <3> QED BY <2>3, <3>1, <3>2, <3>3 DEF Settle
  <2>4. CASE RefundNoRoom(p)
    BY <2>4, MintedIsIntent, RefundEffect DEF RefundNoRoom, ReturnPriceOf
  <2> QED BY <1>3, <2>1, <2>2, <2>3, <2>4 DEF Work
<1>4. CASE DeskFails
  BY <1>4, MintedIsIntent DEF DeskFails
<1>5. ASSUME NEW i \in Intents, Authenticate(i) \/ Deliver(i) \/ DeliverClaimed(i)
      PROVE  ReturnedIsCancelled'
  BY <1>5 DEF Authenticate, Deliver, DeliverClaimed, Answer
<1>6. ASSUME NEW i \in Intents, Hook(i)
      PROVE  ReturnedIsCancelled'
  <2> USE DEF HookAt, HookAnswers, Answer, HookFails, NoRetry
  <2>1. CASE HookFinds(i) \/ HookRefundFails(i)
    <3>1. CASE HookFinds(i)
      BY <3>1 DEF HookFinds
    <3>2. CASE HookRefundFails(i)
      BY <3>2 DEF HookRefundFails
    <3> QED BY <2>1, <3>1, <3>2
  <2>2. CASE HookSettles(i)
    BY <2>2 DEF HookSettles, MarkSettles, MarkFindsNoRoom, MarkRefuses, Payable
  <2>3. CASE HookRefundsNoRoom(i)
    BY <2>3, RefundEffect DEF HookRefundsNoRoom, ReturnPriceOf
  <2>4. CASE HookRefundsLate(i)
    BY <2>4, LateEffect DEF HookRefundsLate
  <2> QED BY <1>6, <2>1, <2>2, <2>3, <2>4 DEF Hook
<1>7. CASE ReadCancel
  BY <1>7, VoidEffect DEF ReadCancel
<1>8. CASE WriteCancel
  BY <1>8 DEF WriteCancel
<1>9. CASE CancelPaid
  BY <1>9, CancelEffect DEF CancelPaid
<1>10. CASE Crash
  BY <1>10 DEF Crash, All
<1>11. CASE UNCHANGED vars
  BY <1>11 DEF vars
<1> QED
  BY <1>1, <1>2, <1>3, <1>4, <1>5, <1>6, <1>7, <1>8, <1>9, <1>10, <1>11 DEF Next

(* Each step leaves the money a messenger. *)
LEMMA StepMessenger ==
  ASSUME IInv, [Next]_vars
  PROVE  Messenger'
<1> USE ChargeAssumption DEF IInv, IntentsAgree, KeyAgrees, Messenger, Chargers, TypeOK, Counts, Flags, Words, Places, Goto, RowIs, SetAdrift,
            MayFail, booking, stripe, key, delivery, history, counters
<1>1. CASE CronClaim \/ AdminClaim \/ DeskRead
  BY <1>1 DEF CronClaim, AdminClaim, DeskRead
<1>2. CASE KeyExpires
  BY <1>2 DEF KeyExpires
<1>3. ASSUME NEW p \in Chargers, Work(p)
      PROVE  Messenger'
  <2>1. CASE Charge(p)
    <3> USE DEF Charge, Body, Hear, Intents
    <3>1. CASE reply = "none" /\ Decide(p) /\ Hear(p)
      <4> USE DEF Decide
      <4>1. CASE minted + 1 \in Intents /\ minted' = minted + 1 /\ reply' = "succeeded"
        BY <2>1, <3>1, <4>1
      <4>2. CASE minted + 1 \in Intents /\ minted' = minted + 1 /\ reply' = "action"
        BY <2>1, <3>1, <4>2
      <4>3. CASE reply' = "declined"
        BY <2>1, <3>1, <4>3
      <4> QED BY <3>1, <4>1, <4>2, <4>3
    <3>2. CASE reply # "none"
      BY <2>1, <3>2
    <3> QED BY <2>1, <3>1, <3>2
  <2>2. CASE Record(p) \/ Release(p)
    BY <2>2, MintedIsIntent DEF Record, Release, KeepsOpenIntent
  <2>3. CASE Settle(p)
    BY <2>3, MintedIsIntent DEF Settle, MarkSettles, MarkFindsNoRoom, MarkRefuses, Payable
  <2>4. CASE RefundNoRoom(p)
    BY <2>4, MintedIsIntent, RefundEffect DEF RefundNoRoom, ReturnPriceOf
  <2> QED BY <1>3, <2>1, <2>2, <2>3, <2>4 DEF Work
<1>4. CASE DeskFails
  BY <1>4, MintedIsIntent DEF DeskFails
<1>5. ASSUME NEW i \in Intents, Authenticate(i) \/ Deliver(i) \/ DeliverClaimed(i)
      PROVE  Messenger'
  <2> USE DEF Answer
  <2>1. CASE Authenticate(i)
    BY <2>1 DEF Authenticate
  <2>2. CASE Deliver(i)
    BY <2>2 DEF Deliver
  <2>3. CASE DeliverClaimed(i)
    BY <2>3 DEF DeliverClaimed
  <2> QED BY <1>5, <2>1, <2>2, <2>3
<1>6. ASSUME NEW i \in Intents, Hook(i)
      PROVE  Messenger'
  <2> USE DEF HookAt, HookAnswers, Answer, HookFails, NoRetry
  <2>1. CASE HookFinds(i) \/ HookRefundFails(i)
    <3>1. CASE HookFinds(i)
      BY <3>1 DEF HookFinds
    <3>2. CASE HookRefundFails(i)
      BY <3>2 DEF HookRefundFails
    <3> QED BY <2>1, <3>1, <3>2
  <2>2. CASE HookSettles(i)
    BY <2>2 DEF HookSettles, MarkSettles, MarkFindsNoRoom, MarkRefuses, Payable
  <2>3. CASE HookRefundsNoRoom(i)
    BY <2>3, RefundEffect DEF HookRefundsNoRoom, ReturnPriceOf
  <2>4. CASE HookRefundsLate(i)
    <3>1. /\ row' = [row EXCEPT ![i] = "succeeded"]
          /\ money' \in [Intents -> {"none", "open", "void", "captured", "returned", "kept"}]
          /\ \A j \in Intents :
               \/ money'[j] = money[j]
               \/ money[j] \in {"captured", "kept"} /\ money'[j] \in {"kept", "returned"}
      BY <2>4, LateEffect
    <3>2. /\ hook[i] = "late" /\ hook' = [hook EXCEPT ![i] = "idle"]
          /\ event' = [event EXCEPT ![i] = "answered"]
          /\ alerted' = alerted \cup {i}
          /\ UNCHANGED <<booking, minted, by, key, marker, pc, cancel, history, counters>>
      BY <2>4 DEF HookRefundsLate
    <3> QED BY <3>1, <3>2
  <2> QED BY <1>6, <2>1, <2>2, <2>3, <2>4 DEF Hook
<1>7. CASE ReadCancel
  BY <1>7, VoidEffect DEF ReadCancel
<1>8. CASE WriteCancel
  BY <1>8 DEF WriteCancel
<1>9. CASE CancelPaid
  BY <1>9, CancelEffect DEF CancelPaid
<1>10. CASE Crash
  BY <1>10 DEF Crash, All
<1>11. CASE UNCHANGED vars
  BY <1>11 DEF vars
<1> QED
  BY <1>1, <1>2, <1>3, <1>4, <1>5, <1>6, <1>7, <1>8, <1>9, <1>10, <1>11 DEF Next

(* The invariant holds in every reachable state. *)
LEMMA Invariant == Spec => []IInv
<1>1. IInv /\ [Next]_vars => TypeOK'
  BY StepCounts, StepFlags, StepWords, StepPlaces DEF TypeOK, IInv
<1>2. IInv /\ [Next]_vars => IInv'
  BY <1>1, StepIntents, StepKey, StepClaim, StepWindow, StepCaptures, StepReturned,
     StepMessenger DEF IInv
<1> QED BY InitIInv, <1>2, PTL DEF Spec

(* Type correctness, for any number of intents and faults.                  *)
THEOREM TypeCorrect == Spec => []TypeOK
<1>1. IInv => TypeOK
  BY DEF IInv
<1> QED BY Invariant, <1>1, PTL

(* However the cron, the admin, charge-saved-method, the webhook, lost      *)
(* answers, crashes and the key's end interleave, what the cron captured is *)
(* never captured again, and what the admin or the desk captured only after *)
(* a lost answer or a crash; an intent that waited for the customer may     *)
(* always be the first of two.                                              *)
THEOREM SecondCapturesAreExplained == Spec => []SecondCaptureExplained
<1>1. IInv => SecondCaptureExplained
  <2> SUFFICES ASSUME IInv, NEW i \in Intents, NEW j \in Intents,
                      i < j, by[i] # "none", by[j] # "none"
               PROVE  by[i] = "customer" \/ (by[i] # "cron" /\ lost + crashes > 0)
    BY DEF SecondCaptureExplained
  <2>1. j <= minted
    BY DEF IInv, IntentsAgree, TypeOK, Counts, Intents
  <2>2. i # minted
    BY <2>1 DEF Intents, IInv, TypeOK, Counts
  <2>3. by[i] \in Chargers \cup {"customer"}
    BY DEF IInv, TypeOK, Words, Chargers
  <2> QED BY <2>2, <2>3 DEF IInv, CapturesKept
<1> QED BY Invariant, <1>1, PTL

(* Whatever answer to the cron is lost, and whoever else is refused: as     *)
(* long as the booking is PENDING the cron's next run selects it and is     *)
(* told of the money.                                                       *)
THEOREM RetriesFindTheMoney == Spec => []RetryFindsTheMoney
<1>1. IInv => RetryFindsTheMoney
  BY DEF IInv, CapturesKept, Closed, KeyAgrees, RetryFindsTheMoney, Chargers
<1> QED BY Invariant, <1>1, PTL

(* A PENDING booking has its window, or somebody holds a claim, or the card *)
(* wanted the customer, or the process stopped.                             *)
THEOREM WindowsAreKept == Spec => []WindowIsKept
<1>1. IInv => WindowIsKept
  BY DEF IInv
<1> QED BY Invariant, <1>1, PTL

(* A booking that is PAID has its money with the lodge, unless a write by   *)
(* id went over a cancelled or paid booking.                                *)
THEOREM PaidBookingsHaveMoney == Spec => []PaidIsCaptured
<1>1. IInv => PaidIsCaptured
  BY DEF IInv, TypeOK, Words, IntentsAgree, ReturnedIsCancelled, PaidIsCaptured
<1> QED BY Invariant, <1>1, PTL

(* Captured money that settles nothing, and of which no admin was told, has *)
(* one of the six known causes - however the handlers interleave.           *)
THEOREM OrphansAreExplained == Spec => []OrphansHaveACause
<1>1. IInv => OrphansHaveACause
  BY DEF IInv, Messenger, OrphansHaveACause, Orphaned, Abandoned, InFlight
<1> QED BY Invariant, <1>1, PTL
=============================================================================
