------------------------- MODULE MemberCreditProofs -------------------------
(***************************************************************************)
(* What TLAPS proves of MemberCredit, for any bookings, prices, cash,      *)
(* adjustments, cancellations and handlers: no credit is spent that is not *)
(* there, and what goes back to the member goes back once.                 *)
(***************************************************************************)
EXTENDS MemberCredit, SumTheorems

(* A transfer whose booking is gone is minted, or somebody settled it.     *)
Placed(b) ==
  status[b] = "CANCELLED" /\ ByTransfer(b) /\ pay[b].status = "SUCCEEDED" =>
    minted[b] > 0 \/ b \in claimed \union alerted \union overwritten

(* A booking's payment and what came back of it.  Nothing comes back before *)
(* the booking is cancelled, and a refund that is held as credit shows in   *)
(* the payment's status, unless that was written over.                      *)
Sound(b) ==
  /\ status[b] = "none" => pay[b].status = "none"
  /\ pay[b].status = "none" => pay[b].amount = 0
  /\ status[b] # "CANCELLED" => back[b] = 0 /\ refunded[b] = 0 /\ minted[b] = 0
  /\ refunded[b] <= pay[b].amount /\ minted[b] <= pay[b].amount
  /\ minted[b] <= cash[b]
  /\ refunded[b] > 0 /\ b \notin overwritten => pay[b].status = "REFUNDED" /\ minted[b] = 0
  /\ Placed(b)

AllSound == \A b \in Bookings : Sound(b)

(* What the creation, the cancellations and the handlers are at is a        *)
(* booking: a new one, one that exists, one whose cash came.                *)
Places ==
  /\ creating.at = "commit" =>
       /\ creating.of \in Bookings /\ status[creating.of] = "none"
       /\ creating.credit <= Price[creating.of]
  /\ \A k \in Cancellers :
       cancel[k].at # "idle" => cancel[k].of \in Bookings /\ status[cancel[k].of] # "none"
  /\ \A h \in Handlers :
       hook[h].at # "idle" => hook[h].of \in Bookings /\ hook[h].known <= cash[hook[h].of]
                                /\ status[hook[h].of] # "none"

(* The inductive invariant. *)
IInv == Shapes /\ Places /\ AllSound /\ NeverOverdrawn

----------------------------------------------------------------------------
(* Facts about the helpers.                                                 *)

(* A share is at most the whole. *)
LEMMA ShareBounds ==
  ASSUME NEW tier \in Tiers, NEW cents \in Nat
  PROVE  Share(tier, cents) \in Nat /\ Share(tier, cents) <= cents
<1>1. CASE tier = "full"
  BY <1>1 DEF Share
<1>2. CASE tier = "half"
  <2>1. (cents + 1) \div 2 \in Nat /\ (cents + 1) \div 2 <= cents
    OBVIOUS
  <2> QED BY <1>2, <2>1 DEF Share
<1>3. CASE tier = "none"
  BY <1>3 DEF Share
<1> QED BY <1>1, <1>2, <1>3 DEF Tiers

LEMMA LesserBounds ==
  ASSUME NEW a \in Nat, NEW b \in Nat
  PROVE  Lesser(a, b) \in Nat /\ Lesser(a, b) <= a /\ Lesser(a, b) <= b
BY DEF Lesser

LEMMA GreaterBounds ==
  ASSUME NEW a \in Int, NEW b \in Int
  PROVE  Greater(a, b) \in Int /\ Greater(a, b) >= a /\ Greater(a, b) >= b
BY DEF Greater

(* A booking whose rows a step leaves alone stays sound; its cash and the   *)
(* histories may grow.                                                      *)
Untouched(b) ==
  /\ status'[b] = status[b] /\ how'[b] = how[b] /\ pay'[b] = pay[b]
  /\ back'[b] = back[b] /\ refunded'[b] = refunded[b] /\ minted'[b] = minted[b]
  /\ cash'[b] = cash[b]
  /\ claimed \subseteq claimed' /\ alerted \subseteq alerted'
  /\ overwritten \subseteq overwritten'

LEMMA UntouchedSound ==
  ASSUME NEW b, Sound(b), Untouched(b)
  PROVE  Sound(b)'
BY DEF Sound, Placed, ByTransfer, Untouched
----------------------------------------------------------------------------
(* Every step keeps the shapes.                                             *)

(* A payment with another status, or another mirror, is a payment.          *)
LEMMA StatusTyped ==
  ASSUME NEW f \in [Bookings -> Payments], NEW b \in Bookings,
         NEW s \in {"none", "PENDING", "SUCCEEDED", "FAILED", "REFUNDED"}
  PROVE  [f EXCEPT ![b].status = s] \in [Bookings -> Payments]
<1>1. [f[b] EXCEPT !.status = s] \in Payments
  BY DEF Payments
<1> QED BY <1>1

LEMMA MirrorTyped ==
  ASSUME NEW f \in [Bookings -> Payments], NEW b \in Bookings, NEW m \in Nat
  PROVE  [f EXCEPT ![b].mirror = m] \in [Bookings -> Payments]
<1>1. [f[b] EXCEPT !.mirror = m] \in Payments
  BY DEF Payments
<1> QED BY <1>1

LEMMA CreationShapes ==
  ASSUME Shapes, NEW b \in Bookings, NEW method \in Ways[b], NEW credit \in 0..Price[b],
         BeginBooking(b, credit, method)
  PROVE  Shapes'
<1>1. method \in {"card", "bank", "hold"} /\ credit \in Nat
  BY PriceAssumption, WaysAssumption
<1>2. creating' \in Creations
  BY <1>1 DEF BeginBooking, Creations
<1>3. BookingShapes' /\ SpentShapes' /\ ReturnShapes'
  BY DEF BeginBooking, booked, rows, Shapes, BookingShapes, SpentShapes, ReturnShapes
<1>4. WorkShapes'
  BY <1>2 DEF BeginBooking, past, Shapes, WorkShapes
<1> QED BY <1>3, <1>4 DEF Shapes

LEMMA CommitShapes ==
  ASSUME Shapes, Places, CommitBooking
  PROVE  Shapes'
<1> DEFINE b == creating.of  credit == creating.credit  method == creating.how
<1>1. /\ b \in Bookings /\ Price[b] \in Nat /\ credit \in Nat /\ credit <= Price[b]
      /\ method \in {"card", "bank", "hold"}
  BY PriceAssumption
     DEF CommitBooking, Commit, LodgeUnlocked, Places, Shapes, WorkShapes, Creations
<1>2. creating' \in Creations
  BY DEF CommitBooking, Commit, NoCreation, Creations
<1>3. WorkShapes'
  BY <1>2 DEF CommitBooking, Commit, past, Shapes, WorkShapes
<1>4. ReturnShapes'
  BY DEF CommitBooking, Commit, Shapes, ReturnShapes
<1>5. CASE Booked(b, credit, method) /\ (credit > 0 => credit <= balance)
  <2>1. pay' \in [Bookings -> Payments]
    <3>1. pay'[b] \in Payments
      BY <1>1, <1>5 DEF Booked, Shapes, BookingShapes, Payments
    <3> QED BY <1>5, <3>1 DEF Booked, Shapes, BookingShapes
  <2>2. BookingShapes'
    BY <1>1, <1>5, <2>1 DEF Booked, Shapes, BookingShapes, Cancellable
  <2>3. SpentShapes'
    BY <1>1, <1>5 DEF Booked, Spend, CommitBooking, Commit, Shapes, SpentShapes
  <2> QED BY <1>3, <1>4, <2>2, <2>3 DEF Shapes
<1>6. CASE UNCHANGED <<booked, own, balance>>
  BY <1>3, <1>4, <1>6
     DEF CommitBooking, Commit, booked, Shapes, BookingShapes, SpentShapes
<1> QED BY <1>5, <1>6 DEF CommitBooking, Commit

LEMMA CardShapes ==
  ASSUME Shapes, NEW b \in Bookings, MintIntent(b) \/ CardPays(b) \/ ReleaseHold(b)
  PROVE  Shapes'
<1>1. pay' \in [Bookings -> Payments]
  <2>1. CASE MintIntent(b)
    BY <2>1, PriceAssumption DEF MintIntent, Shapes, BookingShapes, Payments
  <2>2. CASE CardPays(b)
    <3>1. /\ [pay EXCEPT ![b].status = "SUCCEEDED"] \in [Bookings -> Payments]
          /\ [pay EXCEPT ![b].status = "REFUNDED"] \in [Bookings -> Payments]
      BY StatusTyped DEF Shapes, BookingShapes
    <3> QED BY <2>2, <3>1 DEF CardPays
  <2>3. CASE ReleaseHold(b)
    BY <2>3, StatusTyped DEF ReleaseHold, Shapes, BookingShapes
  <2> QED BY <2>1, <2>2, <2>3
<1>2. BookingShapes'
  BY <1>1 DEF MintIntent, CardPays, ReleaseHold, Shapes, BookingShapes, Cancellable
<1>3. WorkShapes'
  BY DEF MintIntent, CardPays, ReleaseHold, past, Shapes, WorkShapes
<1>4. Applied(b) \in Nat
  BY DEF Applied, Shapes, SpentShapes
<1>5. SpentShapes'
  BY <1>4 DEF MintIntent, CardPays, ReleaseHold, rows, Shapes, SpentShapes
<1>6. ReturnShapes'
  BY <1>4 DEF MintIntent, CardPays, ReleaseHold, rows, Shapes, ReturnShapes
<1> QED BY <1>2, <1>3, <1>5, <1>6 DEF Shapes

LEMMA TransferShapes ==
  ASSUME Shapes,
         \/ \E b \in Bookings, cents \in 1..MaxCash : PayCash(b, cents)
         \/ \E h \in Handlers, b \in Bookings : ReadInvoice(h, b)
         \/ \E h \in Handlers : EndHook(h)
  PROVE  Shapes'
<1>1. BookingShapes' /\ SpentShapes'
  BY DEF PayCash, ReadInvoice, EndHook, booked, rows, Shapes, BookingShapes, SpentShapes
<1>2. ReturnShapes'
  <2>1. CASE \E b \in Bookings, cents \in 1..MaxCash : PayCash(b, cents)
    BY <2>1, CashAssumption DEF PayCash, rows, Shapes, ReturnShapes
  <2>2. CASE \E h \in Handlers : (\E b \in Bookings : ReadInvoice(h, b)) \/ EndHook(h)
    BY <2>2 DEF ReadInvoice, EndHook, rows, Shapes, ReturnShapes
  <2> QED BY <2>1, <2>2
<1>3. hook' \in [Handlers -> Hooks]
  <2>1. CASE \E b \in Bookings, cents \in 1..MaxCash : PayCash(b, cents)
    BY <2>1 DEF PayCash, Shapes, WorkShapes
  <2>2. ASSUME NEW h \in Handlers, NEW b \in Bookings, ReadInvoice(h, b)
        PROVE  hook' \in [Handlers -> Hooks]
    <3>1. [at |-> "apply", of |-> b, known |-> cash[b]] \in Hooks
      BY CashAssumption DEF Shapes, ReturnShapes, Hooks
    <3> QED BY <2>2, <3>1 DEF ReadInvoice, Shapes, WorkShapes
  <2>3. ASSUME NEW h \in Handlers, EndHook(h)
        PROVE  hook' \in [Handlers -> Hooks]
    BY <2>3 DEF EndHook, NoHook, Hooks, Shapes, WorkShapes
  <2> QED BY <2>1, <2>2, <2>3
<1>4. WorkShapes'
  BY <1>3 DEF PayCash, ReadInvoice, EndHook, past, Shapes, WorkShapes
<1> QED BY <1>1, <1>2, <1>4 DEF Shapes

(* What a handler mints is within the cash it knows of.                     *)
LEMMA MintableBounds ==
  ASSUME Shapes, NEW b \in Bookings, NEW known \in Nat
  PROVE  /\ Mintable(b, known) \in Nat
         /\ Mintable(b, known) <= known /\ Mintable(b, known) <= pay[b].amount
BY LesserBounds DEF Mintable, Shapes, BookingShapes, Payments

LEMMA ApplyShapes ==
  ASSUME Shapes, Places, NEW h \in Handlers, ApplyInvoice(h)
  PROVE  Shapes'
<1> DEFINE b == hook[h].of
           known == hook[h].known
           cents == Mintable(b, known)
<1>1. b \in Bookings /\ known \in Nat
  BY DEF ApplyInvoice, Places, Shapes, WorkShapes, Hooks
<1>2. cents \in Nat
  BY <1>1, MintableBounds
<1>3. pay' \in [Bookings -> Payments]
  BY StatusTyped DEF ApplyInvoice, Settled, Shapes, BookingShapes
<1>4. BookingShapes'
  BY <1>1, <1>3 DEF ApplyInvoice, ApplyToCancelled, ApplyWithoutBeds, ApplyToBooking, Shapes,
     BookingShapes, Cancellable
<1>5. balance' \in Int /\ minted' \in [Bookings -> Nat]
  BY <1>1, <1>2 DEF ApplyInvoice, ApplyToCancelled, ApplyWithoutBeds, ApplyToBooking, Mint,
     Shapes, SpentShapes, ReturnShapes
<1>6. SpentShapes' /\ ReturnShapes'
  BY <1>5 DEF ApplyInvoice, Shapes, SpentShapes, ReturnShapes
<1>7. hook' \in [Handlers -> Hooks]
  BY DEF ApplyInvoice, NoHook, Hooks, Shapes, WorkShapes
<1>8. alerted' \subseteq Bookings
  BY <1>1 DEF ApplyInvoice, ApplyToCancelled, ApplyWithoutBeds, ApplyToBooking, Shapes, WorkShapes
<1>9. WorkShapes'
  BY <1>7, <1>8 DEF ApplyInvoice, Shapes, WorkShapes
<1> QED BY <1>4, <1>6, <1>9 DEF Shapes

LEMMA ClaimShapes ==
  ASSUME Shapes, Places, NEW k \in Cancellers, NEW tier \in Tiers, NEW creditTier \in Tiers,
         ClaimPaid(k, tier, creditTier)
  PROVE  Shapes'
<1> DEFINE b == cancel[k].of
           restored == IF pay[b].mirror > 0
                       THEN Lesser(Share(tier, pay[b].mirror), Applied(b)) ELSE 0
           held == Share(creditTier, pay[b].amount)
<1>1. b \in Bookings
  BY DEF ClaimPaid, Claim, Places
<1>2. pay[b].mirror \in Nat /\ pay[b].amount \in Nat /\ Applied(b) \in Nat
  BY <1>1 DEF Applied, Shapes, BookingShapes, SpentShapes, Payments
<1>3. restored \in Nat /\ held \in Nat
  BY <1>2, ShareBounds, LesserBounds
<1>4. pay' \in [Bookings -> Payments]
  <2>1. [pay EXCEPT ![b].status = "REFUNDED"] \in [Bookings -> Payments]
    BY <1>1, StatusTyped DEF Shapes, BookingShapes
  <2> QED BY <2>1 DEF ClaimPaid, Claim, Shapes, BookingShapes
<1>5. BookingShapes'
  BY <1>4 DEF ClaimPaid, Claim, Shapes, BookingShapes
<1>6. /\ back' \in [Bookings -> Nat] /\ refunded' \in [Bookings -> Nat]
      /\ balance' \in Int
  BY <1>1, <1>3 DEF ClaimPaid, Claim, Shapes, ReturnShapes, SpentShapes
<1>7. SpentShapes' /\ ReturnShapes'
  BY <1>6 DEF ClaimPaid, Claim, Shapes, ReturnShapes, SpentShapes
<1>8. cancel' \in [Cancellers -> Cancellations]
  BY DEF ClaimPaid, Claim, NoCancel, Cancellations, Shapes, WorkShapes
<1>9. WorkShapes'
  BY <1>1, <1>8 DEF ClaimPaid, Claim, Shapes, WorkShapes
<1> QED BY <1>5, <1>7, <1>9 DEF Shapes

LEMMA CancelShapes ==
  ASSUME Shapes, Places, NEW k \in Cancellers,
         \/ \E b \in Bookings : ReadCancel(k, b)
         \/ ReadEvidence(k) \/ WriteUnpaid(k) \/ CrashCancel(k)
  PROVE  Shapes'
<1> DEFINE x == cancel[k].of
<1>1. cancel' \in [Cancellers -> Cancellations]
  <2>1. ASSUME NEW b \in Bookings, ReadCancel(k, b)
        PROVE  cancel' \in [Cancellers -> Cancellations]
    <3>1. cancel'[k] \in Cancellations
      BY <2>1 DEF ReadCancel, Cancellations, Shapes, WorkShapes
    <3> QED BY <2>1, <3>1 DEF ReadCancel, Shapes, WorkShapes
  <2>2. CASE ReadEvidence(k)
    <3>1. ASSUME NEW c \in BOOLEAN
          PROVE  [cancel[k] EXCEPT !.at = "write", !.captured = c] \in Cancellations
      BY DEF Cancellations, Shapes, WorkShapes
    <3>2. (pay[x].status \in {"SUCCEEDED", "REFUNDED"}) \in BOOLEAN
      OBVIOUS
    <3> QED BY <2>2, <3>1, <3>2 DEF ReadEvidence, Shapes, WorkShapes
  <2>3. CASE WriteUnpaid(k) \/ CrashCancel(k)
    <3>1. NoCancel \in Cancellations
      BY DEF NoCancel, Cancellations
    <3> QED BY <2>3, <3>1 DEF WriteUnpaid, CrashCancel, Shapes, WorkShapes
  <2> QED BY <2>1, <2>2, <2>3
<1>2. SpentShapes' /\ ReturnShapes'
  BY DEF ReadCancel, ReadEvidence, WriteUnpaid, CrashCancel, rows, Shapes, SpentShapes,
     ReturnShapes
<1>3. CASE WriteUnpaid(k)
  <2>1. x \in Bookings
    BY <1>3 DEF WriteUnpaid, Places
  <2>2. [pay EXCEPT ![x].status = "FAILED"] \in [Bookings -> Payments]
    BY <2>1, StatusTyped DEF Shapes, BookingShapes
  <2>3. BookingShapes'
    BY <1>3, <2>2 DEF WriteUnpaid, Shapes, BookingShapes
  <2>4. WorkShapes'
    BY <1>1, <1>3, <2>1 DEF WriteUnpaid, Shapes, WorkShapes
  <2> QED BY <1>2, <2>3, <2>4 DEF Shapes
<1>4. CASE ~WriteUnpaid(k)
  <2>1. BookingShapes' /\ WorkShapes'
    BY <1>1, <1>4 DEF ReadCancel, ReadEvidence, CrashCancel, booked, past, Shapes, BookingShapes,
       WorkShapes
  <2> QED BY <1>2, <2>1 DEF Shapes
<1> QED BY <1>3, <1>4

LEMMA AdjustmentShapes ==
  ASSUME Shapes, NEW r \in Adjustments, RequestAdjustment(r) \/ ReviewAdjustment(r)
  PROVE  Shapes'
<1>1. balance' \in Int
  BY DeltaAssumption DEF RequestAdjustment, ReviewAdjustment, rows, Shapes, SpentShapes
<1>2. BookingShapes' /\ SpentShapes' /\ ReturnShapes'
  BY <1>1 DEF RequestAdjustment, ReviewAdjustment, booked, rows, Shapes, BookingShapes,
     SpentShapes, ReturnShapes
<1>3. WorkShapes'
  BY DEF RequestAdjustment, ReviewAdjustment, past, Shapes, WorkShapes
<1> QED BY <1>2, <1>3 DEF Shapes

LEMMA AllocationShapes ==
  ASSUME Shapes, NEW b \in Bookings, NEW cents \in 1..MaxAllocated, AllocateInXero(b, cents)
  PROVE  Shapes'
<1> DEFINE before == IF b \in linked THEN own[b] ELSE IF note[b] > 0 THEN note[b]
                     ELSE IF own[b] = cents THEN cents ELSE 0
<1>0. /\ cents \in Nat /\ before \in Nat /\ own[b] \in Nat /\ note[b] \in Nat
      /\ pay[b].amount \in Nat
  BY CashAssumption DEF Shapes, SpentShapes, BookingShapes, Payments
<1>1. before <= Applied(b)
  BY <1>0 DEF Applied
<1>2. Applied(b) + cents - before \in Nat
  BY <1>0, <1>1 DEF Applied
<1>3. Lesser(Applied(b) + cents - before, pay[b].amount) \in Nat
  BY <1>0, <1>2, LesserBounds
<1>4. pay' \in [Bookings -> Payments]
  BY <1>3, MirrorTyped DEF AllocateInXero, Shapes, BookingShapes
<1>5. BookingShapes' /\ ReturnShapes' /\ WorkShapes'
  BY <1>4 DEF AllocateInXero, past, Shapes, BookingShapes, ReturnShapes, WorkShapes
<1>6. allocated' \in 0..MaxAllocated
  BY <1>0, CashAssumption DEF AllocateInXero, Greater, Shapes, SpentShapes
<1>7. balance' \in Int
  BY <1>0 DEF AllocateInXero, Shapes, SpentShapes
<1>8. SpentShapes'
  BY <1>0, <1>6, <1>7 DEF AllocateInXero, Shapes, SpentShapes
<1> QED BY <1>5, <1>8 DEF Shapes

----------------------------------------------------------------------------
(* Every step but the creation's leaves everybody at a booking that exists. *)

LEMMA PlacesMove ==
  ASSUME Shapes, Shapes', Places, creating' = creating,
         \A b \in Bookings :
           /\ status'[b] # status[b] => status[b] # "none" /\ status'[b] # "none"
           /\ cash[b] <= cash'[b],
         \A k \in Cancellers :
           \/ cancel'[k].of = cancel[k].of /\ cancel[k].at # "idle"
           \/ cancel'[k].at = "idle"
           \/ cancel'[k].of \in Bookings /\ status[cancel'[k].of] # "none",
         \A h \in Handlers :
           \/ hook'[h] = hook[h]
           \/ hook'[h].at = "idle"
           \/ /\ hook'[h].of \in Bookings /\ status[hook'[h].of] # "none"
              /\ hook'[h].known = cash[hook'[h].of]
  PROVE  Places'
<1>1. \A b \in Bookings :
        /\ status[b] # "none" => status'[b] # "none"
        /\ status[b] = "none" => status'[b] = "none"
  OBVIOUS
<1>2. creating.at = "commit" =>
        /\ creating.of \in Bookings /\ status'[creating.of] = "none"
        /\ creating.credit <= Price[creating.of]
  BY <1>1 DEF Places
<1>3. ASSUME NEW k \in Cancellers, cancel'[k].at # "idle"
      PROVE  cancel'[k].of \in Bookings /\ status'[cancel'[k].of] # "none"
  BY <1>1, <1>3 DEF Places
<1>4. ASSUME NEW h \in Handlers, hook'[h].at # "idle"
      PROVE  /\ hook'[h].of \in Bookings /\ status'[hook'[h].of] # "none"
             /\ hook'[h].known <= cash'[hook'[h].of]
  <2>1. /\ hook'[h].of \in Bookings /\ status[hook'[h].of] # "none"
        /\ hook'[h].known <= cash[hook'[h].of]
    BY <1>4, CashAssumption DEF Places, Shapes, ReturnShapes
  <2>2. /\ hook'[h].known \in Int /\ cash[hook'[h].of] \in Int
        /\ cash'[hook'[h].of] \in Int
    BY <2>1, CashAssumption DEF Shapes, ReturnShapes, WorkShapes, Hooks
  <2> QED BY <1>1, <2>1, <2>2
<1> QED BY <1>2, <1>3, <1>4 DEF Places

(* Cash may come for a booking without another change.                      *)
LEMMA AllUntouched ==
  ASSUME Shapes, Shapes', AllSound,
         UNCHANGED <<status, how, pay, back, refunded, minted, claimed, alerted, overwritten>>,
         \A b \in Bookings : cash[b] <= cash'[b]
  PROVE  AllSound'
<1>1. ASSUME NEW b \in Bookings
      PROVE  Sound(b)'
  <2>1. /\ minted[b] \in Int /\ cash[b] \in Int /\ cash'[b] \in Int
        /\ minted[b] <= cash[b]
    BY CashAssumption DEF AllSound, Sound, Shapes, ReturnShapes
  <2>2. minted[b] <= cash'[b]
    BY <2>1
  <2>3. Placed(b)'
    BY DEF AllSound, Sound, Placed, ByTransfer
  <2>4. Sound(b)
    BY DEF AllSound
  <2> QED BY <2>2, <2>3, <2>4 DEF Sound
<1> QED BY <1>1 DEF AllSound

(* When a step touches one booking, that one is left to look at.            *)
LEMMA OthersSound ==
  ASSUME AllSound, NEW b \in Bookings, Sound(b)',
         \A c \in Bookings : c # b => Untouched(c)
  PROVE  AllSound'
BY UntouchedSound DEF AllSound

(* The steps that only read.                                                *)
LEMMA ReadingSound ==
  ASSUME Shapes, Shapes', AllSound,
         \/ \E b \in Bookings : \E method \in Ways[b], credit \in 0..Price[b] :
              BeginBooking(b, credit, method)
         \/ \E b \in Bookings, cents \in 1..MaxCash : PayCash(b, cents)
         \/ \E h \in Handlers, b \in Bookings : ReadInvoice(h, b)
         \/ \E h \in Handlers : EndHook(h)
         \/ \E k \in Cancellers, b \in Bookings : ReadCancel(k, b)
         \/ \E k \in Cancellers : ReadEvidence(k) \/ CrashCancel(k)
         \/ \E r \in Adjustments : RequestAdjustment(r) \/ ReviewAdjustment(r)
  PROVE  AllSound'
<1>1. UNCHANGED <<status, how, pay, back, refunded, minted, claimed, alerted, overwritten>>
  BY Zenon DEF BeginBooking, PayCash, ReadInvoice, EndHook, ReadCancel, ReadEvidence,
     CrashCancel, RequestAdjustment, ReviewAdjustment, booked, rows, past
<1>2. ASSUME NEW c \in Bookings
      PROVE  cash[c] <= cash'[c]
  <2>0. cash[c] \in Int
    BY CashAssumption DEF Shapes, ReturnShapes
  <2>1. ASSUME NEW b \in Bookings, NEW cents \in 1..MaxCash, PayCash(b, cents)
        PROVE  cash[c] <= cash'[c]
    BY <2>0, <2>1, CashAssumption DEF PayCash, Shapes, ReturnShapes
  <2>2. CASE cash' = cash
    BY <2>0, <2>2
  <2>3. (\E b \in Bookings, cents \in 1..MaxCash : PayCash(b, cents)) \/ cash' = cash
    BY Zenon DEF BeginBooking, ReadInvoice, EndHook, ReadCancel, ReadEvidence, CrashCancel,
       RequestAdjustment, ReviewAdjustment
  <2> QED BY <2>1, <2>2, <2>3
<1> QED BY <1>1, <1>2, AllUntouched
(* The numbers of a sound booking.                                          *)
LEMMA SoundTyped ==
  ASSUME Shapes, AllSound, NEW b \in Bookings
  PROVE  /\ Sound(b)
         /\ back[b] \in Nat /\ refunded[b] \in Nat /\ minted[b] \in Nat /\ cash[b] \in Nat
         /\ pay[b].amount \in Nat /\ pay[b].mirror \in Nat
BY CashAssumption DEF AllSound, Shapes, BookingShapes, ReturnShapes, Payments

(* A booking that is not cancelled is sound as long as nothing came back.   *)
LEMMA StandingSound ==
  ASSUME Shapes', NEW b \in Bookings, status'[b] # "CANCELLED",
         status'[b] = "none" => pay'[b].status = "none",
         pay'[b].status = "none" => pay'[b].amount = 0,
         back'[b] = 0, refunded'[b] = 0, minted'[b] = 0
  PROVE  Sound(b)'
<1>1. pay'[b].amount \in Nat /\ cash'[b] \in Nat
  BY CashAssumption DEF Shapes, BookingShapes, ReturnShapes, Payments
<1> QED BY <1>1 DEF Sound, Placed

LEMMA CommitSound ==
  ASSUME Shapes, Shapes', Places, AllSound, CommitBooking
  PROVE  AllSound'
<1> DEFINE credit == creating.credit  method == creating.how
<1>1. PICK b \in Bookings : b = creating.of /\ status[b] = "none"
  BY DEF CommitBooking, Commit, LodgeUnlocked, Places, Shapes, WorkShapes, Creations
<1>2. UNCHANGED <<back, refunded, minted, cash, past>>
  BY DEF CommitBooking, Commit
<1>3. CASE Booked(b, credit, method)
  <2>1. /\ status'[b] \in {"PAID", "CONFIRMED", "PAYMENT_PENDING"}
        /\ \/ pay'[b] = pay[b]
           \/ pay'[b].status \in {"SUCCEEDED", "PENDING"}
    BY <1>1, <1>3 DEF Booked, Shapes, BookingShapes
  <2>2. back'[b] = 0 /\ refunded'[b] = 0 /\ minted'[b] = 0
    BY <1>1, <1>2 DEF AllSound, Sound
  <2>3. pay'[b].status = "none" => pay'[b].amount = 0
    BY <1>1, <2>1 DEF AllSound, Sound
  <2>4. Sound(b)'
    BY <1>1, <2>1, <2>2, <2>3, StandingSound
  <2>5. \A c \in Bookings : c # b => Untouched(c)
    BY <1>2, <1>3 DEF Booked, Untouched, past, Shapes, BookingShapes
  <2> QED BY <1>1, <2>4, <2>5, OthersSound
<1>4. CASE UNCHANGED <<booked, own, balance>>
  <2>1. \A c \in Bookings : Untouched(c)
    BY <1>2, <1>4 DEF booked, past, Untouched
  <2> QED BY <2>1, UntouchedSound DEF AllSound
<1> QED BY <1>1, <1>3, <1>4 DEF CommitBooking, Commit

LEMMA CardSound ==
  ASSUME Shapes, Shapes', AllSound, NEW b \in Bookings,
         MintIntent(b) \/ CardPays(b) \/ ReleaseHold(b)
  PROVE  AllSound'
<1>1. UNCHANGED <<refunded, minted, cash, past>>
  BY DEF MintIntent, CardPays, ReleaseHold, rows
<1>2. status[b] \in {"PAYMENT_PENDING", "CONFIRMED"}
  BY DEF MintIntent, CardPays, ReleaseHold
<1>3. back[b] = 0 /\ refunded'[b] = 0 /\ minted'[b] = 0
  BY <1>1, <1>2 DEF AllSound, Sound
<1>4. pay'[b].status \in {"PENDING", "SUCCEEDED", "REFUNDED", "FAILED"}
  BY DEF MintIntent, CardPays, ReleaseHold, Shapes, BookingShapes, Payments
<1>5. CASE status'[b] # "CANCELLED"
  <2>1. status'[b] # "none"
    BY <1>2 DEF MintIntent, CardPays, ReleaseHold, Shapes, BookingShapes
  <2>2. back'[b] = 0
    BY <1>3, <1>5 DEF MintIntent, CardPays, ReleaseHold, rows, Shapes, BookingShapes
  <2> QED
    <3>1. Sound(b)'
      BY <1>3, <1>4, <1>5, <2>1, <2>2, StandingSound
    <3>2. \A c \in Bookings : c # b => Untouched(c)
      BY <1>1 DEF MintIntent, CardPays, ReleaseHold, rows, past, Untouched, Shapes,
         BookingShapes, ReturnShapes
    <3> QED BY <3>1, <3>2, OthersSound
<1>6. CASE status'[b] = "CANCELLED"
  <2>1. pay'[b].status # "SUCCEEDED"
    BY <1>2, <1>6 DEF MintIntent, CardPays, ReleaseHold, Shapes, BookingShapes, Payments
  <2>2. pay'[b].amount \in Nat /\ cash'[b] \in Nat
    BY CashAssumption DEF Shapes, BookingShapes, ReturnShapes, Payments
  <2>3. Sound(b)'
    BY <1>3, <1>4, <1>6, <2>1, <2>2 DEF Sound, Placed
  <2>4. \A c \in Bookings : c # b => Untouched(c)
    BY <1>1 DEF MintIntent, CardPays, ReleaseHold, rows, past, Untouched, Shapes,
       BookingShapes, ReturnShapes
  <2> QED BY <2>3, <2>4, OthersSound
<1> QED BY <1>5, <1>6

LEMMA ApplySound ==
  ASSUME Shapes, Shapes', Places, AllSound, NEW h \in Handlers, ApplyInvoice(h)
  PROVE  AllSound'
<1>0. PICK b \in Bookings, known \in Nat :
        /\ b = hook[h].of /\ known = hook[h].known /\ known <= cash[b] /\ status[b] # "none"
  BY DEF ApplyInvoice, Places, Shapes, WorkShapes, Hooks
<1> DEFINE cents == Mintable(b, known)
<1>1. known <= cash[b] /\ status[b] # "none"
  BY <1>0
<1>2. UNCHANGED <<how, back, refunded, cash, claimed, overwritten>>
  BY DEF ApplyInvoice
<1>3. cents \in Nat /\ cents <= known /\ cents <= pay[b].amount
  BY <1>1, MintableBounds
<1>4. /\ Sound(b)
      /\ back[b] \in Nat /\ refunded[b] \in Nat /\ minted[b] \in Nat /\ cash[b] \in Nat
      /\ pay[b].amount \in Nat
  BY <1>1, SoundTyped
<1>5. /\ pay'[b].amount = pay[b].amount
      /\ pay[b].status = "REFUNDED" => pay'[b].status = "REFUNDED"
      /\ pay[b].status # "REFUNDED" => pay'[b].status = "SUCCEEDED"
  BY <1>0 DEF ApplyInvoice, Settled, Shapes, BookingShapes, Payments
<1>6. \A c \in Bookings : c # b => Untouched(c)
  <2>1. \A c \in Bookings : c # b => pay'[c] = pay[c] /\ status'[c] = status[c]
    BY <1>0 DEF ApplyInvoice, Settled, ApplyToCancelled, ApplyWithoutBeds, ApplyToBooking, Shapes,
       BookingShapes
  <2>2. \A c \in Bookings : c # b => minted'[c] = minted[c]
    BY <1>0 DEF ApplyInvoice, ApplyToCancelled, ApplyWithoutBeds, ApplyToBooking, Mint, Shapes,
       ReturnShapes
  <2>3. alerted \subseteq alerted'
    BY DEF ApplyInvoice, ApplyToCancelled, ApplyWithoutBeds, ApplyToBooking
  <2> QED BY <1>2, <2>1, <2>2, <2>3 DEF Untouched
<1>7. CASE ApplyToBooking(b)
  <2>1. status'[b] = "PAID" /\ back'[b] = 0 /\ refunded'[b] = 0 /\ minted'[b] = 0
    BY <1>1, <1>2, <1>4, <1>7 DEF ApplyToBooking, Sound, Shapes, BookingShapes
  <2>2. Sound(b)'
    BY <1>1, <1>5, <2>1, StandingSound
  <2> QED BY <1>1, <1>6, <2>2, OthersSound
<1>8. CASE ApplyWithoutBeds(b, known)
  <2>1. status'[b] = "CANCELLED" /\ refunded'[b] = 0 /\ minted'[b] = cents /\ b \in alerted'
    BY <1>1, <1>2, <1>3, <1>4, <1>8 DEF ApplyWithoutBeds, Mint, Sound, Shapes, BookingShapes,
       ReturnShapes
  <2>2. cents <= cash'[b] /\ 0 <= pay'[b].amount /\ cents <= pay'[b].amount
    BY <1>1, <1>2, <1>3, <1>4, <1>5
  <2>3. Placed(b)'
    BY <2>1 DEF Placed
  <2>4. pay'[b].status # "none"
    BY <1>5
  <2>5. Sound(b)'
    BY <2>1, <2>2, <2>3, <2>4 DEF Sound
  <2> QED BY <1>1, <1>6, <2>5, OthersSound
<1>9. CASE ApplyToCancelled(b, known)
  <2>1. status'[b] = "CANCELLED"
    BY <1>9 DEF ApplyToCancelled
  <2>2. pay'[b].status # "none"
    BY <1>5
  <2>3. /\ \/ minted'[b] = minted[b]
           \/ NeverSettled(pay[b]) /\ minted[b] = 0 /\ minted'[b] = cents
        /\ refunded'[b] = refunded[b]
    BY <1>1, <1>2, <1>3, <1>4, <1>9 DEF ApplyToCancelled, Mint, Shapes, ReturnShapes
  <2>4. /\ refunded'[b] <= pay'[b].amount /\ minted'[b] <= pay'[b].amount
        /\ minted'[b] <= cash'[b]
    BY <1>1, <1>2, <1>3, <1>4, <1>5, <2>3 DEF Sound
  <2>5. refunded'[b] > 0 /\ b \notin overwritten' =>
          pay'[b].status = "REFUNDED" /\ minted'[b] = 0
    BY <1>2, <1>4, <1>5, <2>3 DEF Sound, NeverSettled
  <2>6. Placed(b)'
    <3>1. SUFFICES ASSUME ByTransfer(b)', pay'[b].status = "SUCCEEDED"
                   PROVE  minted'[b] > 0 \/ b \in (claimed \union alerted \union overwritten)'
      BY DEF Placed
    <3>2. pay[b].status # "REFUNDED" /\ ByTransfer(b)
      BY <1>2, <1>5, <3>1 DEF ByTransfer
    <3>3. pay[b].status # "none"
      BY <1>4, <3>2 DEF Sound, ByTransfer
    <3>4. CASE pay[b].status = "SUCCEEDED"
      <4>1. minted[b] > 0 \/ b \in claimed \union alerted \union overwritten
        BY <1>4, <1>9, <3>2, <3>4 DEF Sound, Placed, ApplyToCancelled
      <4>2. minted'[b] = minted[b] /\ alerted \subseteq alerted'
        BY <1>9, <2>3, <3>4 DEF ApplyToCancelled, NeverSettled
      <4> QED BY <1>2, <4>1, <4>2
    <3>5. CASE NeverSettled(pay[b])
      <4>1. CASE minted[b] = 0 /\ cents > 0
        BY <1>1, <1>9, <3>5, <4>1 DEF ApplyToCancelled
      <4>2. CASE minted[b] = 0 /\ cents = 0
        BY <1>1, <1>9, <3>5, <4>2 DEF ApplyToCancelled
      <4>3. CASE minted[b] # 0
        BY <1>4, <2>3, <4>3
      <4> QED BY <1>3, <4>1, <4>2, <4>3
    <3> QED BY <1>1, <3>2, <3>3, <3>4, <3>5
            DEF NeverSettled, Shapes, BookingShapes, Payments
  <2>7. Sound(b)'
    BY <2>1, <2>2, <2>4, <2>5, <2>6 DEF Sound
  <2> QED BY <1>1, <1>6, <2>7, OthersSound
<1> QED BY <1>0, <1>7, <1>8, <1>9 DEF ApplyInvoice

LEMMA ClaimSound ==
  ASSUME Shapes, Shapes', Places, AllSound, NEW k \in Cancellers,
         NEW tier \in Tiers, NEW creditTier \in Tiers, ClaimPaid(k, tier, creditTier)
  PROVE  AllSound'
<1>1. PICK b \in Bookings : b = cancel[k].of /\ status[b] # "none"
  BY DEF ClaimPaid, Claim, Places
<1> DEFINE held == Share(creditTier, pay[b].amount)
<1>2. UNCHANGED <<how, minted, cash, alerted, overwritten>>
  BY DEF ClaimPaid, Claim
<1>3. Sound(b) /\ pay[b].amount \in Nat /\ cash[b] \in Nat
  BY SoundTyped
<1>4. held \in Nat /\ held <= pay[b].amount
  BY <1>3, ShareBounds
<1>5. CASE status[b] \in Cancellable /\ pay[b].status = "SUCCEEDED"
  <2>1. /\ status'[b] = "CANCELLED" /\ refunded'[b] = refunded[b] + held
        /\ pay' = IF held > 0 THEN [pay EXCEPT ![b].status = "REFUNDED"] ELSE pay
        /\ b \in claimed'
    BY <1>1, <1>5 DEF ClaimPaid, Claim, Eligible, Shapes, BookingShapes, ReturnShapes
  <2>2. refunded[b] = 0 /\ minted[b] = 0
    BY <1>3, <1>5 DEF Sound, Cancellable
  <2>3. refunded'[b] = held /\ minted'[b] = 0
    BY <1>2, <1>4, <2>1, <2>2
  <2>4. /\ pay'[b].amount = pay[b].amount /\ pay'[b].status # "none"
        /\ held > 0 => pay'[b].status = "REFUNDED"
    BY <1>5, <2>1 DEF Shapes, BookingShapes, Payments
  <2>5. Placed(b)'
    BY <2>1 DEF Placed
  <2>6. held <= pay'[b].amount /\ 0 <= pay'[b].amount /\ 0 <= cash'[b]
    BY <1>2, <1>3, <1>4, <2>4
  <2>7. Sound(b)'
    BY <2>1, <2>3, <2>4, <2>5, <2>6 DEF Sound
  <2>8. \A c \in Bookings : c # b => Untouched(c)
    BY <1>1, <1>2, <1>5, <2>1, ZenonT(60)
       DEF ClaimPaid, Claim, Eligible, Untouched, Shapes, BookingShapes, ReturnShapes
  <2> QED BY <2>7, <2>8, OthersSound
<1>6. CASE ~(status[b] \in Cancellable /\ pay[b].status = "SUCCEEDED")
  <2>1. \A c \in Bookings : Untouched(c)
    BY <1>1, <1>2, <1>6 DEF ClaimPaid, Claim, Eligible, Untouched
  <2> QED BY <2>1, UntouchedSound DEF AllSound
<1> QED BY <1>5, <1>6

LEMMA WriteSound ==
  ASSUME Shapes, Shapes', Places, AllSound, NEW k \in Cancellers, WriteUnpaid(k)
  PROVE  AllSound'
<1>1. PICK b \in Bookings : b = cancel[k].of /\ status[b] # "none"
  BY DEF WriteUnpaid, Places
<1>2. UNCHANGED <<how, back, refunded, minted, cash, claimed, alerted>>
  BY DEF WriteUnpaid, rows
<1>3. Sound(b)
  BY SoundTyped
<1>4. /\ status'[b] = "CANCELLED"
      /\ pay' = pay \/ pay' = [pay EXCEPT ![b].status = "FAILED"]
      /\ pay[b].status \in {"SUCCEEDED", "REFUNDED"} => b \in overwritten'
      /\ overwritten \subseteq overwritten'
  BY <1>1 DEF WriteUnpaid, Shapes, BookingShapes
<1>5. /\ pay'[b].amount = pay[b].amount
      /\ pay'[b].status = pay[b].status \/ pay'[b].status = "FAILED"
  BY <1>4 DEF Shapes, BookingShapes, Payments
<1>6. refunded'[b] > 0 /\ b \notin overwritten' =>
        pay'[b].status = "REFUNDED" /\ minted'[b] = 0
  BY <1>2, <1>3, <1>4 DEF Sound
<1>7. Placed(b)'
  BY <1>4, <1>5 DEF Placed
<1>8. /\ refunded'[b] <= pay'[b].amount /\ minted'[b] <= pay'[b].amount
      /\ minted'[b] <= cash'[b]
  BY <1>2, <1>3, <1>5 DEF Sound
<1>9. pay'[b].status = "none" => pay'[b].amount = 0
  BY <1>3, <1>5 DEF Sound
<1>10. Sound(b)'
  BY <1>4, <1>6, <1>7, <1>8, <1>9 DEF Sound
<1>11. \A c \in Bookings : c # b => Untouched(c)
  BY <1>1, <1>2, <1>4 DEF WriteUnpaid, Untouched, Shapes, BookingShapes
<1> QED BY <1>10, <1>11, OthersSound

(* An allocation moves only the mirror of a payment.                        *)
LEMMA AllocationSound ==
  ASSUME Shapes, Shapes', AllSound, NEW b \in Bookings, NEW cents \in 1..MaxAllocated,
         AllocateInXero(b, cents)
  PROVE  AllSound'
<1>1. UNCHANGED <<status, how, back, refunded, minted, cash, past>>
  BY DEF AllocateInXero
<1>2. /\ pay'[b].status = pay[b].status /\ pay'[b].amount = pay[b].amount
      /\ \A c \in Bookings : c # b => pay'[c] = pay[c]
  BY DEF AllocateInXero, Shapes, BookingShapes, Payments
<1>3. Sound(b)
  BY DEF AllSound
<1>4. Placed(b)'
  BY <1>1, <1>2, <1>3 DEF Sound, Placed, ByTransfer, past
<1>5. Sound(b)'
  BY <1>1, <1>2, <1>3, <1>4 DEF Sound, past
<1>6. \A c \in Bookings : c # b => Untouched(c)
  BY <1>1, <1>2 DEF Untouched, past
<1> QED BY <1>5, <1>6, OthersSound
----------------------------------------------------------------------------
(* Everybody stays at a booking that exists.                                *)

LEMMA CreationPlaces ==
  ASSUME Shapes, Places, NEW b \in Bookings, NEW method \in Ways[b],
         NEW credit \in 0..Price[b], BeginBooking(b, credit, method)
  PROVE  Places'
<1>1. creating'.of = b /\ creating'.credit = credit /\ credit <= Price[b]
  BY DEF BeginBooking
<1>2. UNCHANGED <<status, cancel, hook, cash>> /\ status[b] = "none"
  BY DEF BeginBooking, booked
<1> QED BY <1>1, <1>2 DEF Places

LEMMA CommitPlaces ==
  ASSUME Shapes, Places, CommitBooking
  PROVE  Places'
<1>1. PICK b \in Bookings : b = creating.of /\ status[b] = "none"
  BY DEF CommitBooking, Commit, LodgeUnlocked, Places, Shapes, WorkShapes, Creations
<1>2. UNCHANGED <<cancel, hook, cash>> /\ creating'.at = "idle"
  BY DEF CommitBooking, Commit, NoCreation
<1>3. \A c \in Bookings : status[c] # "none" => status'[c] = status[c]
  <2>1. status' = status \/ \E s \in Cancellable : status' = [status EXCEPT ![b] = s]
    BY <1>1 DEF CommitBooking, Commit, Booked, booked, Cancellable
  <2> QED BY <1>1, <2>1 DEF Shapes, BookingShapes
<1> QED BY <1>2, <1>3 DEF Places

(* A transfer comes for a booking that exists.                              *)
LEMMA TransferExists ==
  ASSUME AllSound, NEW b \in Bookings, ByTransfer(b)
  PROVE  status[b] # "none"
BY DEF AllSound, Sound, ByTransfer

(* The steps that leave the bookings as they are.                           *)
LEMMA ReadingPlaces ==
  ASSUME Shapes, Shapes', Places, AllSound,
         \/ \E b \in Bookings, cents \in 1..MaxCash : PayCash(b, cents)
         \/ \E h \in Handlers, b \in Bookings : ReadInvoice(h, b)
         \/ \E h \in Handlers : EndHook(h)
         \/ \E k \in Cancellers, b \in Bookings : ReadCancel(k, b)
         \/ \E k \in Cancellers : ReadEvidence(k) \/ CrashCancel(k)
         \/ \E b \in Bookings, cents \in 1..MaxAllocated : AllocateInXero(b, cents)
         \/ \E r \in Adjustments : RequestAdjustment(r) \/ ReviewAdjustment(r)
  PROVE  Places'
<1>1. UNCHANGED <<status, creating>>
  BY Zenon DEF PayCash, ReadInvoice, EndHook, ReadCancel, ReadEvidence, CrashCancel,
     AllocateInXero, RequestAdjustment, ReviewAdjustment, booked
<1>2. \A c \in Bookings : cash[c] <= cash'[c]
  <2>1. \A c \in Bookings : cash[c] \in Int
    BY CashAssumption DEF Shapes, ReturnShapes
  <2>2. ASSUME NEW b \in Bookings, NEW cents \in 1..MaxCash, PayCash(b, cents)
        PROVE  \A c \in Bookings : cash[c] <= cash'[c]
    BY <2>1, <2>2, CashAssumption DEF PayCash, Shapes, ReturnShapes
  <2>3. (\E b \in Bookings, cents \in 1..MaxCash : PayCash(b, cents)) \/ cash' = cash
    BY Zenon DEF ReadInvoice, EndHook, ReadCancel, ReadEvidence, CrashCancel, AllocateInXero,
       RequestAdjustment, ReviewAdjustment
  <2> QED BY <2>1, <2>2, <2>3
<1>3. ASSUME NEW k \in Cancellers
      PROVE  \/ cancel'[k].of = cancel[k].of /\ cancel[k].at # "idle"
             \/ cancel'[k].at = "idle"
             \/ cancel'[k].of \in Bookings /\ status[cancel'[k].of] # "none"
  <2>1. ASSUME NEW j \in Cancellers, NEW b \in Bookings, ReadCancel(j, b)
        PROVE  \/ cancel'[k] = cancel[k]
               \/ cancel'[k].of \in Bookings /\ status[cancel'[k].of] # "none"
    BY <2>1 DEF ReadCancel, Cancellable, Shapes, WorkShapes
  <2>2. ASSUME NEW j \in Cancellers, ReadEvidence(j)
        PROVE  \/ cancel'[k] = cancel[k]
               \/ cancel'[k].of = cancel[k].of /\ cancel[k].at # "idle"
    BY <2>2 DEF ReadEvidence, Shapes, WorkShapes, Cancellations
  <2>3. ASSUME NEW j \in Cancellers, CrashCancel(j)
        PROVE  cancel'[k] = cancel[k] \/ cancel'[k].at = "idle"
    BY <2>3 DEF CrashCancel, NoCancel, Shapes, WorkShapes
  <2>4. \/ \E j \in Cancellers, b \in Bookings : ReadCancel(j, b)
        \/ \E j \in Cancellers : ReadEvidence(j) \/ CrashCancel(j)
        \/ cancel' = cancel
    BY Zenon DEF PayCash, ReadInvoice, EndHook, AllocateInXero, RequestAdjustment,
       ReviewAdjustment
  <2> QED BY <2>1, <2>2, <2>3, <2>4
<1>4. ASSUME NEW h \in Handlers
      PROVE  \/ hook'[h] = hook[h]
             \/ hook'[h].at = "idle"
             \/ /\ hook'[h].of \in Bookings /\ status[hook'[h].of] # "none"
                /\ hook'[h].known = cash[hook'[h].of]
  <2>1. ASSUME NEW j \in Handlers, NEW b \in Bookings, ReadInvoice(j, b)
        PROVE  \/ hook'[h] = hook[h]
               \/ /\ hook'[h].of \in Bookings /\ status[hook'[h].of] # "none"
                  /\ hook'[h].known = cash[hook'[h].of]
    BY <2>1, TransferExists DEF ReadInvoice, Shapes, WorkShapes
  <2>2. ASSUME NEW j \in Handlers, EndHook(j)
        PROVE  hook'[h] = hook[h] \/ hook'[h].at = "idle"
    BY <2>2 DEF EndHook, NoHook, Shapes, WorkShapes
  <2>3. \/ \E j \in Handlers, b \in Bookings : ReadInvoice(j, b)
        \/ \E j \in Handlers : EndHook(j)
        \/ hook' = hook
    BY Zenon DEF PayCash, ReadCancel, ReadEvidence, CrashCancel, AllocateInXero,
       RequestAdjustment, ReviewAdjustment
  <2> QED BY <2>1, <2>2, <2>3
<1> QED BY <1>1, <1>2, <1>3, <1>4, PlacesMove

(* The steps that change a booking that exists.                             *)
LEMMA WritingPlaces ==
  ASSUME Shapes, Shapes', Places,
         \/ \E b \in Bookings : MintIntent(b) \/ CardPays(b) \/ ReleaseHold(b)
         \/ \E h \in Handlers : ApplyInvoice(h)
         \/ \E k \in Cancellers, tier, creditTier \in Tiers : ClaimPaid(k, tier, creditTier)
         \/ \E k \in Cancellers : WriteUnpaid(k)
  PROVE  Places'
<1>1. UNCHANGED <<creating, cash>>
  BY Zenon DEF MintIntent, CardPays, ReleaseHold, ApplyInvoice, ClaimPaid, Claim, WriteUnpaid
<1>2. \A c \in Bookings : cash[c] \in Int
  BY CashAssumption DEF Shapes, ReturnShapes
<1> DEFINE Moved == \/ status' = status
                    \/ \E b \in Bookings, s \in {"PAID", "CANCELLED"} :
                         status[b] # "none" /\ status' = [status EXCEPT ![b] = s]
<1>3. Moved
  <2>1. ASSUME NEW b \in Bookings, MintIntent(b) \/ CardPays(b) \/ ReleaseHold(b)
        PROVE  Moved
    BY <2>1 DEF MintIntent, CardPays, ReleaseHold
  <2>2. ASSUME NEW h \in Handlers, ApplyInvoice(h)
        PROVE  Moved
    <3>1. hook[h].of \in Bookings /\ status[hook[h].of] # "none"
      BY <2>2 DEF ApplyInvoice, Places
    <3> QED BY <2>2, <3>1
            DEF ApplyInvoice, ApplyToCancelled, ApplyWithoutBeds, ApplyToBooking
  <2>3. ASSUME NEW k \in Cancellers, NEW tier \in Tiers, NEW creditTier \in Tiers,
               ClaimPaid(k, tier, creditTier)
        PROVE  Moved
    <3>1. cancel[k].of \in Bookings /\ status[cancel[k].of] # "none"
      BY <2>3 DEF ClaimPaid, Claim, Places
    <3> QED BY <2>3, <3>1 DEF ClaimPaid, Claim
  <2>4. ASSUME NEW k \in Cancellers, WriteUnpaid(k)
        PROVE  Moved
    BY <2>4 DEF WriteUnpaid, Places
  <2> QED BY <2>1, <2>2, <2>3, <2>4
<1>4. \A b \in Bookings : status'[b] # status[b] => status[b] # "none" /\ status'[b] # "none"
  BY <1>3 DEF Shapes, BookingShapes
<1>5. ASSUME NEW k \in Cancellers
      PROVE  cancel'[k] = cancel[k] \/ cancel'[k].at = "idle"
  <2>1. cancel' = cancel \/ \E j \in Cancellers : cancel' = [cancel EXCEPT ![j] = NoCancel]
    BY Zenon DEF MintIntent, CardPays, ReleaseHold, ApplyInvoice, ClaimPaid, Claim, WriteUnpaid
  <2> QED BY <2>1 DEF NoCancel, Shapes, WorkShapes
<1>6. ASSUME NEW h \in Handlers
      PROVE  hook'[h] = hook[h] \/ hook'[h].at = "idle"
  <2>1. hook' = hook \/ \E j \in Handlers : hook' = [hook EXCEPT ![j] = NoHook]
    BY Zenon DEF MintIntent, CardPays, ReleaseHold, ApplyInvoice, ClaimPaid, Claim, WriteUnpaid
  <2> QED BY <2>1 DEF NoHook, Shapes, WorkShapes
<1> QED BY <1>1, <1>2, <1>4, <1>5, <1>6, PlacesMove
----------------------------------------------------------------------------
(* The balance stays covered.                                               *)

LEMMA BalanceMoves ==
  ASSUME Shapes, NeverOverdrawn, balance' \in Int, allocated' = allocated, balance <= balance'
  PROVE  NeverOverdrawn'
<1>1. balance \in Int /\ allocated \in Int /\ balance + allocated >= 0
  BY CashAssumption DEF Shapes, SpentShapes, NeverOverdrawn
<1>2. \A a \in Int, x \in Int, y \in Int : x <= y /\ x + a >= 0 => y + a >= 0
  OBVIOUS
<1>3. balance' + allocated >= 0
  BY <1>1, <1>2
<1> QED BY <1>3 DEF NeverOverdrawn

(* The second look at the balance, under the member's lock, is what counts. *)
LEMMA CommitCovered ==
  ASSUME Shapes, Places, NeverOverdrawn, CommitBooking
  PROVE  NeverOverdrawn'
<1>1. /\ balance \in Int /\ allocated \in Nat /\ creating.credit \in Nat
      /\ allocated' = allocated
  BY CashAssumption DEF CommitBooking, Commit, Shapes, SpentShapes, WorkShapes, Creations
<1>2. \/ balance' = balance
      \/ /\ balance' = balance - creating.credit
         /\ creating.credit > 0 => creating.credit <= balance
  BY Zenon DEF CommitBooking, Commit, Booked, Spend
<1> QED BY <1>1, <1>2 DEF NeverOverdrawn

LEMMA ReturnsCovered ==
  ASSUME Shapes, Shapes', Places, NeverOverdrawn,
         \/ \E b \in Bookings : CardPays(b)
         \/ \E h \in Handlers : ApplyInvoice(h)
         \/ \E k \in Cancellers, tier, creditTier \in Tiers : ClaimPaid(k, tier, creditTier)
  PROVE  NeverOverdrawn'
<1>1. allocated' = allocated
  BY Zenon DEF CardPays, ApplyInvoice, ClaimPaid, Claim
<1>2. balance \in Int /\ balance' \in Int
  BY DEF Shapes, SpentShapes
<1>3. ASSUME NEW b \in Bookings, CardPays(b)
      PROVE  balance <= balance'
  <2>1. Applied(b) \in Nat
    BY DEF Applied, Shapes, SpentShapes
  <2> QED BY <1>2, <1>3, <2>1 DEF CardPays
<1>4. ASSUME NEW h \in Handlers, ApplyInvoice(h)
      PROVE  balance <= balance'
  <2>1. Mintable(hook[h].of, hook[h].known) \in Nat
    BY <1>4, MintableBounds DEF ApplyInvoice, Places, Shapes, WorkShapes, Hooks
  <2>2. balance' = balance \/ balance' = balance + Mintable(hook[h].of, hook[h].known)
    BY <1>4, Zenon DEF ApplyInvoice, ApplyToCancelled, ApplyWithoutBeds, ApplyToBooking, Mint
  <2> QED BY <1>2, <2>1, <2>2
<1>5. ASSUME NEW k \in Cancellers, NEW tier \in Tiers, NEW creditTier \in Tiers,
             ClaimPaid(k, tier, creditTier)
      PROVE  balance <= balance'
  <2> DEFINE b == cancel[k].of
             restored == IF pay[b].mirror > 0
                         THEN Lesser(Share(tier, pay[b].mirror), Applied(b)) ELSE 0
             held == Share(creditTier, pay[b].amount)
  <2>1. b \in Bookings
    BY <1>5 DEF ClaimPaid, Claim, Places
  <2>2. pay[b].mirror \in Nat /\ pay[b].amount \in Nat /\ Applied(b) \in Nat
    BY <2>1 DEF Applied, Shapes, BookingShapes, SpentShapes, Payments
  <2>3. restored \in Nat /\ held \in Nat
    BY <2>2, ShareBounds, LesserBounds
  <2>4. balance' = balance \/ balance' = balance + restored + held
    BY <1>5, Zenon DEF ClaimPaid, Claim
  <2> QED BY <1>2, <2>3, <2>4
<1> QED BY <1>1, <1>2, <1>3, <1>4, <1>5, BalanceMoves

LEMMA AdjustmentsCovered ==
  ASSUME Shapes, NeverOverdrawn, NEW r \in Adjustments,
         RequestAdjustment(r) \/ ReviewAdjustment(r)
  PROVE  NeverOverdrawn'
<1>1. balance \in Int /\ allocated \in Nat /\ Delta[r] \in Int /\ allocated' = allocated
  BY CashAssumption, DeltaAssumption
     DEF RequestAdjustment, ReviewAdjustment, rows, Shapes, SpentShapes
<1>2. CASE RequestAdjustment(r)
  BY <1>1, <1>2 DEF RequestAdjustment, rows, NeverOverdrawn
<1>3. CASE ReviewAdjustment(r)
  <2>1. balance' = balance \/ (Covered(r) /\ balance' = balance + Delta[r])
    BY <1>3 DEF ReviewAdjustment
  <2> QED BY <1>1, <2>1 DEF Covered, NeverOverdrawn
<1> QED BY <1>2, <1>3

(* What an allocation takes without a look at the balance is on record.     *)
LEMMA AllocationCovered ==
  ASSUME Shapes, NeverOverdrawn, NEW b \in Bookings, NEW cents \in 1..MaxAllocated,
         AllocateInXero(b, cents)
  PROVE  NeverOverdrawn'
<1> DEFINE before == IF b \in linked THEN own[b] ELSE IF note[b] > 0 THEN note[b]
                     ELSE IF own[b] = cents THEN cents ELSE 0
<1>1. /\ cents \in Int /\ before \in Int /\ balance \in Int /\ allocated \in Int
  BY CashAssumption DEF Shapes, SpentShapes
<1>2. Greater(0, cents - before) \in Int /\ Greater(0, cents - before) >= cents - before
  <2>1. 0 \in Int /\ cents - before \in Int
    BY <1>1
  <2> HIDE DEF before
  <2> QED BY <2>1, GreaterBounds
<1>3. /\ balance' = balance + before - cents
      /\ allocated' = allocated + Greater(0, cents - before)
  BY Zenon DEF AllocateInXero
<1> QED BY <1>1, <1>2, <1>3 DEF NeverOverdrawn

(* The steps that leave the rows alone.                                     *)
LEMMA OthersCovered ==
  ASSUME NeverOverdrawn,
         \/ \E b \in Bookings : \E method \in Ways[b], credit \in 0..Price[b] :
              BeginBooking(b, credit, method)
         \/ \E b \in Bookings : MintIntent(b) \/ ReleaseHold(b)
         \/ \E b \in Bookings, cents \in 1..MaxCash : PayCash(b, cents)
         \/ \E h \in Handlers, b \in Bookings : ReadInvoice(h, b)
         \/ \E h \in Handlers : EndHook(h)
         \/ \E k \in Cancellers, b \in Bookings : ReadCancel(k, b)
         \/ \E k \in Cancellers : ReadEvidence(k) \/ WriteUnpaid(k) \/ CrashCancel(k)
  PROVE  NeverOverdrawn'
<1>1. UNCHANGED <<balance, allocated>>
  BY Zenon DEF BeginBooking, MintIntent, ReleaseHold, PayCash, ReadInvoice, EndHook, ReadCancel,
     ReadEvidence, WriteUnpaid, CrashCancel, rows
<1> QED BY <1>1 DEF NeverOverdrawn
----------------------------------------------------------------------------
LEMMA InitIInv == Init => IInv
<1> SUFFICES ASSUME Init
             PROVE  IInv
  OBVIOUS
<1>1. BookingShapes /\ SpentShapes
  BY OpeningAssumption, CashAssumption
     DEF Init, BookingShapes, SpentShapes, Payments, Cancellable
<1>2. ReturnShapes
  BY CashAssumption DEF Init, ReturnShapes
<1>3. WorkShapes
  BY DEF Init, WorkShapes, NoCreation, NoCancel, NoHook, Creations, Cancellations, Hooks
<1>4. Places
  BY DEF Init, Places, NoCreation, NoCancel, NoHook
<1>5. AllSound
  <2>1. ASSUME NEW b \in Bookings
        PROVE  Sound(b)
    <3>1. /\ status[b] = "none" /\ pay[b].status = "none" /\ pay[b].amount = 0
          /\ back[b] = 0 /\ refunded[b] = 0 /\ minted[b] = 0 /\ cash[b] = 0
      BY DEF Init
    <3> QED BY <3>1 DEF Sound, Placed
  <2> QED BY <2>1 DEF AllSound
<1>6. NeverOverdrawn
  BY OpeningAssumption DEF Init, NeverOverdrawn
<1> QED BY <1>1, <1>2, <1>3, <1>4, <1>5, <1>6 DEF IInv, Shapes

LEMMA StepIInv == IInv /\ [Next]_vars => IInv'
<1> SUFFICES ASSUME Shapes, Places, AllSound, NeverOverdrawn, [Next]_vars
             PROVE  IInv'
  BY DEF IInv
<1>1. ASSUME NEW b \in Bookings, NEW method \in Ways[b], NEW credit \in 0..Price[b],
             BeginBooking(b, credit, method)
      PROVE  IInv'
  BY <1>1, CreationShapes, CreationPlaces, ReadingSound, OthersCovered, Zenon DEF IInv
<1>2. CASE CommitBooking
  BY <1>2, CommitShapes, CommitPlaces, CommitSound, CommitCovered DEF IInv
<1>3. ASSUME NEW b \in Bookings, MintIntent(b) \/ CardPays(b) \/ ReleaseHold(b)
      PROVE  IInv'
  <2>1. Shapes'
    BY <1>3, CardShapes
  <2>2. Places'
    BY <1>3, <2>1, WritingPlaces, Zenon
  <2>3. AllSound'
    BY <1>3, <2>1, CardSound
  <2>4. NeverOverdrawn'
    BY <1>3, <2>1, OthersCovered, ReturnsCovered, Zenon
  <2> QED BY <2>1, <2>2, <2>3, <2>4 DEF IInv
<1>4. ASSUME NEW b \in Bookings, NEW cents \in 1..MaxCash, PayCash(b, cents)
      PROVE  IInv'
  <2>1. Shapes'
    BY <1>4, TransferShapes, Zenon
  <2> QED BY <1>4, <2>1, ReadingPlaces, ReadingSound, OthersCovered, Zenon DEF IInv
<1>5. ASSUME NEW h \in Handlers, NEW b \in Bookings, ReadInvoice(h, b)
      PROVE  IInv'
  <2>1. Shapes'
    BY <1>5, TransferShapes, Zenon
  <2> QED BY <1>5, <2>1, ReadingPlaces, ReadingSound, OthersCovered, Zenon DEF IInv
<1>6. ASSUME NEW h \in Handlers, ApplyInvoice(h)
      PROVE  IInv'
  <2>1. Shapes'
    BY <1>6, ApplyShapes
  <2>2. Places' /\ NeverOverdrawn'
    BY <1>6, <2>1, WritingPlaces, ReturnsCovered, Zenon
  <2> QED BY <1>6, <2>1, <2>2, ApplySound DEF IInv
<1>7. ASSUME NEW h \in Handlers, EndHook(h)
      PROVE  IInv'
  <2>1. Shapes'
    BY <1>7, TransferShapes, Zenon
  <2> QED BY <1>7, <2>1, ReadingPlaces, ReadingSound, OthersCovered, Zenon DEF IInv
<1>8. ASSUME NEW k \in Cancellers, NEW b \in Bookings, ReadCancel(k, b)
      PROVE  IInv'
  <2>1. Shapes'
    BY <1>8, CancelShapes, Zenon
  <2> QED BY <1>8, <2>1, ReadingPlaces, ReadingSound, OthersCovered, Zenon DEF IInv
<1>9. ASSUME NEW k \in Cancellers, NEW tier \in Tiers, NEW creditTier \in Tiers,
             ClaimPaid(k, tier, creditTier)
      PROVE  IInv'
  <2>1. Shapes'
    BY <1>9, ClaimShapes
  <2>2. Places' /\ NeverOverdrawn'
    BY <1>9, <2>1, WritingPlaces, ReturnsCovered, Zenon
  <2> QED BY <1>9, <2>1, <2>2, ClaimSound DEF IInv
<1>10. ASSUME NEW k \in Cancellers, WriteUnpaid(k)
       PROVE  IInv'
  <2>1. Shapes'
    BY <1>10, CancelShapes, Zenon
  <2>2. Places' /\ NeverOverdrawn'
    BY <1>10, <2>1, WritingPlaces, OthersCovered, Zenon
  <2> QED BY <1>10, <2>1, <2>2, WriteSound DEF IInv
<1>11. ASSUME NEW k \in Cancellers, ReadEvidence(k) \/ CrashCancel(k)
       PROVE  IInv'
  <2>1. Shapes'
    BY <1>11, CancelShapes, Zenon
  <2> QED BY <1>11, <2>1, ReadingPlaces, ReadingSound, OthersCovered, Zenon DEF IInv
<1>12. ASSUME NEW r \in Adjustments, RequestAdjustment(r) \/ ReviewAdjustment(r)
       PROVE  IInv'
  <2>1. Shapes'
    BY <1>12, AdjustmentShapes
  <2> QED BY <1>12, <2>1, ReadingPlaces, ReadingSound, AdjustmentsCovered, Zenon DEF IInv
<1>13. ASSUME NEW b \in Bookings, NEW cents \in 1..MaxAllocated, AllocateInXero(b, cents)
       PROVE  IInv'
  <2>1. Shapes'
    BY <1>13, AllocationShapes
  <2>2. Places'
    BY <1>13, <2>1, ReadingPlaces, Zenon
  <2> QED BY <1>13, <2>1, <2>2, AllocationSound, AllocationCovered DEF IInv
<1>14. CASE UNCHANGED vars
  <2>1. UNCHANGED <<booked, rows, request, cash, creating, cancel, hook, past>>
    BY <1>14 DEF vars
  <2>2. Shapes'
    BY <2>1 DEF booked, rows, past, Shapes, BookingShapes, SpentShapes, ReturnShapes, WorkShapes
  <2>3. Places' /\ NeverOverdrawn'
    BY <2>1 DEF booked, rows, Places, NeverOverdrawn
  <2>4. \A b \in Bookings : Untouched(b)
    BY <2>1 DEF booked, rows, past, Untouched
  <2>5. AllSound'
    BY <2>4, UntouchedSound DEF AllSound
  <2> QED BY <2>2, <2>3, <2>5 DEF IInv
<1> QED
  BY <1>1, <1>2, <1>3, <1>4, <1>5, <1>6, <1>7, <1>8, <1>9, <1>10, <1>11, <1>12, <1>13, <1>14,
     Zenon DEF Next

LEMMA Invariant == Spec => []IInv
BY InitIInv, StepIInv, PTL DEF Spec

(* Whatever bookings and admins do at a time, credit that is not there is   *)
(* spent by nobody but the operators in Xero.                               *)
THEOREM CreditIsCovered == Spec => []NeverOverdrawn
<1>1. IInv => NeverOverdrawn
  BY DEF IInv
<1> QED BY Invariant, <1>1, PTL

(* However many handlers are at an invoice, at a booking that is paid or    *)
(* cancelled meanwhile, its transfer mints no more than its cash.           *)
THEOREM CreditMintedWithinCash == Spec => []MintsWithinCash
<1>1. IInv => MintsWithinCash
  BY DEF IInv, AllSound, Sound, MintsWithinCash
<1> QED BY Invariant, <1>1, PTL

(* A booking that is settled is paid back by its cancellation or by a mint, *)
(* and never more than its payment.                                         *)
THEOREM MoneyPaidBackOnce == Spec => []PaidBackOnce
<1>1. IInv => PaidBackOnce
  <2>1. ASSUME IInv, NEW b \in Bookings, b \notin overwritten
        PROVE  /\ refunded[b] = 0 \/ minted[b] = 0
               /\ refunded[b] + minted[b] <= pay[b].amount
    <3>1. /\ Sound(b) /\ refunded[b] \in Nat /\ minted[b] \in Nat
          /\ pay[b].amount \in Nat
      BY <2>1, SoundTyped DEF IInv
    <3> QED BY <2>1, <3>1 DEF Sound
  <2> QED BY <2>1 DEF PaidBackOnce
<1> QED BY Invariant, <1>1, PTL

(* The cash of a booking that is gone is minted, settled or reported.       *)
THEOREM LateCashIsPlaced == Spec => []CashIsPlaced
<1>1. IInv => CashIsPlaced
  BY DEF IInv, AllSound, Sound, Placed, CashIsPlaced
<1> QED BY Invariant, <1>1, PTL

(* Only two steps give applied credit back, and both find a booking that is *)
(* not yet cancelled.                                                       *)
LEMMA RestoringSteps ==
  ASSUME Shapes, Places, AllSound, NEW b \in Bookings, [Next]_vars, back'[b] # back[b]
  PROVE  /\ back[b] = 0 /\ back'[b] <= Applied(b)
         /\ status[b] # "CANCELLED" /\ status'[b] = "CANCELLED"
<1>0. Applied(b) \in Nat
  BY DEF Applied, Shapes, SpentShapes
<1>1. CASE \E c \in Bookings : CardPays(c)
  <2>1. PICK c \in Bookings : CardPays(c)
    BY <1>1
  <2>2. /\ c = b /\ status[b] = "PAYMENT_PENDING" /\ status'[b] = "CANCELLED"
        /\ back'[b] = back[b] + Applied(b)
    BY <2>1 DEF CardPays, Shapes, BookingShapes, ReturnShapes
  <2>3. back[b] = 0
    BY <2>2 DEF AllSound, Sound
  <2> QED BY <1>0, <2>2, <2>3
<1>2. CASE \E k \in Cancellers, tier, creditTier \in Tiers : ClaimPaid(k, tier, creditTier)
  <2>1. PICK k \in Cancellers, tier \in Tiers, creditTier \in Tiers :
          ClaimPaid(k, tier, creditTier)
    BY <1>2
  <2> DEFINE restored == IF pay[b].mirror > 0
                         THEN Lesser(Share(tier, pay[b].mirror), Applied(b)) ELSE 0
  <2>2. /\ cancel[k].of = b /\ status[b] \in Cancellable /\ status'[b] = "CANCELLED"
        /\ back'[b] = back[b] + restored
    BY <2>1 DEF ClaimPaid, Claim, Shapes, BookingShapes, ReturnShapes
  <2>3. pay[b].mirror \in Nat
    BY DEF Shapes, BookingShapes, Payments
  <2>4. restored \in Nat /\ restored <= Applied(b)
    BY <1>0, <2>3, ShareBounds, LesserBounds
  <2>5. status[b] # "CANCELLED" /\ back[b] = 0
    BY <2>2 DEF Cancellable, AllSound, Sound
  <2> QED BY <2>2, <2>4, <2>5
<1>3. \/ \E c \in Bookings : CardPays(c)
      \/ \E k \in Cancellers, tier, creditTier \in Tiers : ClaimPaid(k, tier, creditTier)
      \/ back' = back
  BY Zenon DEF Next, BeginBooking, CommitBooking, Commit, MintIntent, ReleaseHold, PayCash,
     ReadInvoice, ApplyInvoice, EndHook, ReadCancel, ReadEvidence, WriteUnpaid, CrashCancel,
     RequestAdjustment, ReviewAdjustment, AllocateInXero, rows, vars
<1> QED BY <1>1, <1>2, <1>3

(* Applied credit goes back once, whoever wins the race to cancel.          *)
THEOREM CreditRestoredOnce == Spec => RestoredOnce
<1>1. ASSUME IInv, [Next]_vars
      PROVE  [\A b \in Bookings : back'[b] # back[b] =>
                /\ back[b] = 0 /\ back'[b] <= Applied(b)
                /\ status[b] # "CANCELLED" /\ status'[b] = "CANCELLED"]_vars
  BY <1>1, RestoringSteps DEF IInv
<1> QED BY Invariant, <1>1, PTL DEF Spec, RestoredOnce

----------------------------------------------------------------------------
(* The balance is the sum of the rows.                                      *)

(* What the rows of one booking add to the balance. *)
Kept(b) == back[b] + refunded[b] + minted[b] - Applied(b)
KeptOf == [b \in Bookings |-> Kept(b)]
Approved == {r \in Adjustments : request[r] = "APPROVED"}

Balanced == balance = Opening + Sum(Delta, Approved) + Sum(KeptOf, Bookings)

(* A booking that does not exist has spent nothing. *)
NothingSpent == \A b \in Bookings : status[b] = "none" => own[b] = 0

LEMMA KeptTyped ==
  ASSUME Shapes
  PROVE  /\ \A b \in Bookings : Kept(b) \in Int /\ KeptOf[b] = Kept(b)
         /\ Sum(KeptOf, Bookings) \in Int
         /\ IsFiniteSet(Approved) /\ Sum(Delta, Approved) \in Int
<1>1. \A b \in Bookings : Kept(b) \in Int
  BY DEF Kept, Applied, Shapes, SpentShapes, ReturnShapes
<1>2. \A b \in Bookings : KeptOf[b] = Kept(b) /\ KeptOf[b] \in Int
  BY <1>1 DEF KeptOf
<1>3. Sum(KeptOf, Bookings) \in Int
  BY <1>2, FinitenessAssumption, SumInt
<1>4. IsFiniteSet(Approved) /\ \A r \in Approved : Delta[r] \in Int
  BY FinitenessAssumption, FS_Subset, DeltaAssumption DEF Approved
<1>5. Sum(Delta, Approved) \in Int
  BY <1>4, SumInt
<1> QED BY <1>1, <1>2, <1>3, <1>4, <1>5

(* The rows of one booking change the balance by as much. *)
LEMMA RowsMoveBalance ==
  ASSUME Shapes, Shapes', Balanced, request' = request, NEW b \in Bookings,
         \A c \in Bookings \ {b} : Kept(c)' = Kept(c),
         balance' = balance + Kept(b)' - Kept(b)
  PROVE  Balanced'
<1>1. /\ \A c \in Bookings : Kept(c) \in Int /\ KeptOf[c] = Kept(c)
      /\ Sum(KeptOf, Bookings) \in Int /\ Sum(Delta, Approved) \in Int
  BY KeptTyped
<1>2. \A c \in Bookings : Kept(c)' \in Int /\ KeptOf'[c] = Kept(c)'
  <2>1. KeptOf' = [c \in Bookings |-> Kept(c)']
    BY DEF KeptOf
  <2>2. \A c \in Bookings : Kept(c)' \in Int
    BY DEF Kept, Applied, Shapes, SpentShapes, ReturnShapes
  <2> HIDE DEF Kept
  <2> QED BY <2>1, <2>2
<1>3. Sum(KeptOf', Bookings) = Sum(KeptOf, Bookings) + KeptOf'[b] - KeptOf[b]
  <2>1. \A c \in Bookings : KeptOf[c] \in Int /\ KeptOf'[c] \in Int
    BY <1>1, <1>2
  <2>2. \A c \in Bookings \ {b} : KeptOf'[c] = KeptOf[c]
    BY <1>1, <1>2
  <2> QED BY <2>1, <2>2, FinitenessAssumption, SumChange
<1>4. Approved' = Approved
  BY DEF Approved
<1>5. Kept(b) \in Int /\ Kept(b)' \in Int /\ KeptOf[b] = Kept(b) /\ KeptOf'[b] = Kept(b)'
  BY <1>1, <1>2
<1>6. balance = Opening + Sum(Delta, Approved) + Sum(KeptOf, Bookings) /\ Opening \in Int
  BY OpeningAssumption DEF Balanced
<1>7. balance' = Opening + Sum(Delta, Approved) + Sum(KeptOf', Bookings)
  BY <1>1, <1>3, <1>5, <1>6
<1> QED BY <1>4, <1>7 DEF Balanced

(* Nothing changes when neither rows nor requests do. *)
LEMMA RowsStand ==
  ASSUME Balanced, UNCHANGED rows, Approved' = Approved
  PROVE  Balanced'
BY DEF Balanced, KeptOf, Kept, Applied, rows

(* An approved adjustment is one more. *)
LEMMA ApprovalMovesBalance ==
  ASSUME Shapes, Balanced, NEW r \in Adjustments, ReviewAdjustment(r)
  PROVE  Balanced'
<1>1. KeptOf' = KeptOf
  BY DEF ReviewAdjustment, KeptOf, Kept, Applied
<1>2. Sum(KeptOf, Bookings) \in Int /\ IsFiniteSet(Approved) /\ Sum(Delta, Approved) \in Int
  BY KeptTyped
<1>3. r \notin Approved /\ request \in [Adjustments -> {"none", "PENDING", "APPROVED", "REJECTED"}]
  BY DEF ReviewAdjustment, Approved, Shapes, WorkShapes
<1>4. CASE balance' = balance + Delta[r] /\ request' = [request EXCEPT ![r] = "APPROVED"]
  <2>1. Approved' = Approved \union {r}
    BY <1>3, <1>4 DEF Approved
  <2>2. \A q \in Approved \union {r} : Delta[q] \in Int
    BY DeltaAssumption DEF Approved
  <2>3. Sum(Delta, Approved') = Delta[r] + Sum(Delta, Approved)
    BY <1>2, <1>3, <2>1, <2>2, SumAdd
  <2> QED BY <1>1, <1>2, <1>4, <2>2, <2>3, OpeningAssumption DEF Balanced
<1>5. CASE balance' = balance /\ request' = [request EXCEPT ![r] = "REJECTED"]
  <2>1. Approved' = Approved
    BY <1>3, <1>5 DEF Approved
  <2> QED BY <1>1, <1>5, <2>1 DEF Balanced
<1> QED BY <1>4, <1>5 DEF ReviewAdjustment

(* The creation's row is the booking's first. *)
LEMMA CommitBalanced ==
  ASSUME Shapes, Shapes', Places, NothingSpent, Balanced, CommitBooking
  PROVE  Balanced' /\ NothingSpent'
<1>0. creating.of \in Bookings /\ creating.credit \in Nat
  BY DEF CommitBooking, Commit, LodgeUnlocked, Places, Shapes, WorkShapes, Creations
<1>0a. PICK b \in Bookings, credit \in Nat : b = creating.of /\ credit = creating.credit
  BY <1>0
<1>1. /\ b \in Bookings /\ status[b] = "none" /\ own[b] = 0
      /\ credit \in Nat /\ balance \in Int /\ note \in [Bookings -> Nat]
      /\ own \in [Bookings -> Nat] /\ back \in [Bookings -> Nat]
      /\ refunded \in [Bookings -> Nat] /\ minted \in [Bookings -> Nat]
  BY <1>0a DEF CommitBooking, Commit, LodgeUnlocked, Places, Shapes, WorkShapes, Creations,
     NothingSpent, SpentShapes, ReturnShapes
<1>2. UNCHANGED <<note, back, refunded, minted, request, linked, allocated>>
  BY DEF CommitBooking, Commit
<1>3. CASE Booked(b, credit, creating.how)
  <2>1. own' = [own EXCEPT ![b] = credit] /\ balance' = balance - credit
    BY <1>3 DEF Booked, Spend
  <2>2. \A c \in Bookings \ {b} : Kept(c)' = Kept(c)
    BY <1>1, <1>2, <2>1 DEF Kept, Applied
  <2>3. balance' = balance + Kept(b)' - Kept(b)
    BY <1>1, <1>2, <2>1 DEF Kept, Applied
  <2>4. NothingSpent'
    BY <1>1, <1>3, <2>1 DEF Booked, NothingSpent, Shapes, BookingShapes
  <2> QED BY <1>1, <1>2, <2>2, <2>3, <2>4, RowsMoveBalance
<1>4. CASE UNCHANGED <<booked, own, balance>>
  <2>1. Approved' = Approved /\ UNCHANGED rows
    BY <1>2, <1>4 DEF Approved, rows
  <2> QED BY <1>4, <2>1, RowsStand DEF booked, NothingSpent
<1> QED BY <1>0a, <1>3, <1>4 DEF CommitBooking, Commit

(* Credit given back, minted or held is a row and a change of the balance.  *)
LEMMA ReturnsBalanced ==
  ASSUME Shapes, Shapes', Places, Balanced,
         \/ \E b \in Bookings : CardPays(b)
         \/ \E h \in Handlers : ApplyInvoice(h)
         \/ \E k \in Cancellers, tier \in Tiers, creditTier \in Tiers :
              ClaimPaid(k, tier, creditTier)
  PROVE  Balanced'
<1>1. /\ balance \in Int /\ own \in [Bookings -> Nat] /\ note \in [Bookings -> Nat]
      /\ back \in [Bookings -> Nat] /\ refunded \in [Bookings -> Nat]
      /\ minted \in [Bookings -> Nat]
  BY DEF Shapes, SpentShapes, ReturnShapes
<1>2. UNCHANGED <<own, note, linked, allocated, request>>
  BY DEF CardPays, ApplyInvoice, ClaimPaid, Claim
<1>3. ASSUME NEW b \in Bookings,
             \A c \in Bookings \ {b} : /\ back'[c] = back[c] /\ refunded'[c] = refunded[c]
                                       /\ minted'[c] = minted[c],
             balance' = balance + (back'[b] - back[b]) + (refunded'[b] - refunded[b])
                          + (minted'[b] - minted[b])
      PROVE  Balanced'
  <2>1. \A c \in Bookings \ {b} : Kept(c)' = Kept(c)
    BY <1>1, <1>2, <1>3 DEF Kept, Applied
  <2>2. /\ back[b] \in Int /\ refunded[b] \in Int /\ minted[b] \in Int
        /\ back'[b] \in Int /\ refunded'[b] \in Int /\ minted'[b] \in Int
        /\ own[b] \in Int /\ note[b] \in Int
    BY <1>1 DEF Shapes, ReturnShapes
  <2>3. balance' = balance + Kept(b)' - Kept(b)
    BY <1>1, <1>2, <1>3, <2>2 DEF Kept, Applied
  <2> QED BY <1>2, <2>1, <2>3, RowsMoveBalance
<1>5. CASE UNCHANGED <<back, refunded, minted, balance>>
  BY <1>2, <1>5, RowsStand DEF rows, Approved
<1>6. ASSUME NEW b \in Bookings, CardPays(b)
      PROVE  Balanced'
  <2>1. refunded' = refunded /\ minted' = minted
    BY <1>6 DEF CardPays
  <2>2. CASE back' = [back EXCEPT ![b] = @ + Applied(b)] /\ balance' = balance + Applied(b)
    <3>1. Applied(b) \in Int
      BY <1>1 DEF Applied
    <3>2. back'[b] = back[b] + Applied(b) /\ \A c \in Bookings \ {b} : back'[c] = back[c]
      BY <1>1, <2>2
    <3>3. /\ back[b] \in Int /\ refunded[b] \in Int /\ minted[b] \in Int
      BY <1>1
    <3> HIDE DEF Applied
    <3>4. balance' = balance + (back'[b] - back[b]) + (refunded'[b] - refunded[b])
                       + (minted'[b] - minted[b])
      BY <1>1, <2>1, <2>2, <3>1, <3>2, <3>3
    <3> QED BY <1>3, <2>1, <3>2, <3>4
  <2> QED BY <1>5, <1>6, <2>1, <2>2 DEF CardPays
<1>7. ASSUME NEW h \in Handlers, ApplyInvoice(h)
      PROVE  Balanced'
  <2>0. hook[h].of \in Bookings /\ Mintable(hook[h].of, hook[h].known) \in Nat
    BY <1>7, MintableBounds DEF ApplyInvoice, Places, Shapes, WorkShapes, Hooks
  <2>1. PICK b \in Bookings, cents \in Nat :
          b = hook[h].of /\ cents = Mintable(hook[h].of, hook[h].known)
    BY <2>0
  <2>2. back' = back /\ refunded' = refunded
    BY <1>7 DEF ApplyInvoice
  <2>3. UNCHANGED <<minted, balance>> \/ Mint(b, cents)
    BY <1>7, <2>1, Zenon DEF ApplyInvoice, ApplyToCancelled, ApplyWithoutBeds, ApplyToBooking
  <2>4. CASE Mint(b, cents)
    <3>1. minted'[b] = minted[b] + cents /\ \A c \in Bookings \ {b} : minted'[c] = minted[c]
      BY <1>1, <2>4 DEF Mint
    <3>2. back[b] \in Int /\ refunded[b] \in Int /\ minted[b] \in Int
      BY <1>1
    <3>3. balance' = balance + (back'[b] - back[b]) + (refunded'[b] - refunded[b])
                       + (minted'[b] - minted[b])
      BY <1>1, <2>2, <2>4, <3>1, <3>2 DEF Mint
    <3> QED BY <1>3, <2>2, <3>1, <3>3
  <2> QED BY <1>5, <2>2, <2>3, <2>4
<1>8. ASSUME NEW k \in Cancellers, NEW tier \in Tiers, NEW creditTier \in Tiers,
             ClaimPaid(k, tier, creditTier)
      PROVE  Balanced'
  <2>0. cancel[k].of \in Bookings
    BY <1>8 DEF ClaimPaid, Claim, Places
  <2>1. PICK b \in Bookings : b = cancel[k].of
    BY <2>0
  <2> DEFINE restored == IF pay[b].mirror > 0
                         THEN Lesser(Share(tier, pay[b].mirror), Applied(b)) ELSE 0
             held == Share(creditTier, pay[b].amount)
  <2>2. restored \in Nat /\ held \in Nat
    <3>1. pay[b].mirror \in Nat /\ pay[b].amount \in Nat /\ Applied(b) \in Nat
      BY <2>1 DEF Applied, Shapes, BookingShapes, SpentShapes, Payments
    <3> QED BY <3>1, ShareBounds, LesserBounds
  <2>3. minted' = minted
    BY <1>8 DEF ClaimPaid, Claim
  <2>4. \/ UNCHANGED <<back, refunded, balance>>
        \/ /\ back' = [back EXCEPT ![b] = @ + restored]
           /\ refunded' = [refunded EXCEPT ![b] = @ + held]
           /\ balance' = balance + restored + held
    BY <1>8, <2>1, Zenon DEF ClaimPaid, Claim
  <2> HIDE DEF restored, held
  <2>5. CASE /\ back' = [back EXCEPT ![b] = @ + restored]
             /\ refunded' = [refunded EXCEPT ![b] = @ + held]
             /\ balance' = balance + restored + held
    <3>1. /\ back'[b] = back[b] + restored /\ refunded'[b] = refunded[b] + held
          /\ \A c \in Bookings \ {b} : back'[c] = back[c] /\ refunded'[c] = refunded[c]
      BY <1>1, <2>5
    <3>2. back[b] \in Int /\ refunded[b] \in Int /\ minted[b] \in Int
      BY <1>1
    <3>3. balance' = balance + (back'[b] - back[b]) + (refunded'[b] - refunded[b])
                       + (minted'[b] - minted[b])
      BY <1>1, <2>2, <2>3, <2>5, <3>1, <3>2
    <3> QED BY <1>3, <2>3, <3>1, <3>3
  <2> QED BY <1>5, <2>3, <2>4, <2>5
<1> QED BY <1>6, <1>7, <1>8

(* An allocation is a row, corrects one, or is linked to one. *)
LEMMA AllocationBalanced ==
  ASSUME Shapes, Shapes', Balanced, NEW b \in Bookings, NEW cents \in 1..MaxAllocated,
         AllocateInXero(b, cents)
  PROVE  Balanced'
<1> DEFINE before == IF b \in linked THEN own[b] ELSE IF note[b] > 0 THEN note[b]
                     ELSE IF own[b] = cents THEN cents ELSE 0
<1>1. /\ cents \in Int /\ balance \in Int /\ own \in [Bookings -> Nat]
      /\ note \in [Bookings -> Nat] /\ back \in [Bookings -> Nat]
      /\ refunded \in [Bookings -> Nat] /\ minted \in [Bookings -> Nat]
  BY CashAssumption DEF Shapes, SpentShapes, ReturnShapes
<1>2. /\ UNCHANGED <<back, refunded, minted, request>>
      /\ balance' = balance + before - cents
  BY Zenon DEF AllocateInXero
<1>3. /\ \A c \in Bookings \ {b} : own'[c] = own[c] /\ note'[c] = note[c]
      /\ own'[b] + note'[b] = own[b] + note[b] + cents - before
  BY <1>1 DEF AllocateInXero
<1>4. \A c \in Bookings \ {b} : Kept(c)' = Kept(c)
  BY <1>2, <1>3 DEF Kept, Applied
<1>5. balance' = balance + Kept(b)' - Kept(b)
  <2>1. /\ own[b] \in Int /\ note[b] \in Int /\ back[b] \in Int /\ refunded[b] \in Int
        /\ minted[b] \in Int /\ own'[b] \in Int /\ note'[b] \in Int /\ before \in Int
    BY <1>1 DEF Shapes, SpentShapes
  <2> HIDE DEF before
  <2> QED BY <1>1, <1>2, <1>3, <2>1 DEF Kept, Applied
<1> QED BY <1>2, <1>4, <1>5, RowsMoveBalance

(* The other steps leave the rows, and what is approved, alone. *)
LEMMA OthersBalanced ==
  ASSUME Shapes, Balanced,
         \/ \E b \in Bookings : \E method \in Ways[b], credit \in 0..Price[b] :
              BeginBooking(b, credit, method)
         \/ \E b \in Bookings : MintIntent(b) \/ ReleaseHold(b)
         \/ \E b \in Bookings, cents \in 1..MaxCash : PayCash(b, cents)
         \/ \E h \in Handlers, b \in Bookings : ReadInvoice(h, b)
         \/ \E h \in Handlers : EndHook(h)
         \/ \E k \in Cancellers, b \in Bookings : ReadCancel(k, b)
         \/ \E k \in Cancellers : ReadEvidence(k) \/ WriteUnpaid(k) \/ CrashCancel(k)
         \/ \E r \in Adjustments : RequestAdjustment(r)
         \/ UNCHANGED vars
  PROVE  Balanced'
<1>1. UNCHANGED rows
  BY Zenon DEF BeginBooking, MintIntent, ReleaseHold, PayCash, ReadInvoice, EndHook, ReadCancel,
     ReadEvidence, WriteUnpaid, CrashCancel, RequestAdjustment, vars
<1>2. request' = request \/ \E r \in Adjustments : RequestAdjustment(r)
  BY Zenon DEF BeginBooking, MintIntent, ReleaseHold, PayCash, ReadInvoice, EndHook, ReadCancel,
     ReadEvidence, WriteUnpaid, CrashCancel, vars
<1>3. Approved' = Approved
  <2>1. ASSUME NEW r \in Adjustments, RequestAdjustment(r)
        PROVE  Approved' = Approved
    BY <2>1 DEF RequestAdjustment, Approved, Shapes, WorkShapes
  <2>2. CASE request' = request
    BY <2>2 DEF Approved
  <2> QED BY <1>2, <2>1, <2>2
<1> QED BY <1>1, <1>3, RowsStand

(* Only a creation writes a booking's own row before anything else. *)
LEMMA NothingSpentStays ==
  ASSUME Shapes, Shapes', Places, AllSound, NothingSpent, [Next]_vars, ~CommitBooking
  PROVE  NothingSpent'
<1>1. ASSUME NEW b \in Bookings, NEW cents \in 1..MaxAllocated, AllocateInXero(b, cents)
      PROVE  NothingSpent'
  <2>1. status[b] # "none" /\ status' = status
    BY <1>1 DEF AllocateInXero, AllSound, Sound
  <2>2. \A c \in Bookings \ {b} : own'[c] = own[c]
    BY <1>1 DEF AllocateInXero, Shapes, SpentShapes
  <2> QED BY <2>1, <2>2 DEF NothingSpent
<1>2. CASE ~ \E b \in Bookings, cents \in 1..MaxAllocated : AllocateInXero(b, cents)
  <2>1. own' = own
    BY <1>2 DEF Next, vars, booked, rows, past, BeginBooking, MintIntent, CardPays, ReleaseHold,
       PayCash, ReadInvoice, ApplyInvoice, EndHook, ReadCancel, ClaimPaid, Claim, ReadEvidence,
       WriteUnpaid, CrashCancel, RequestAdjustment, ReviewAdjustment
  <2>2. ASSUME NEW s \in Cancellable \union {"CANCELLED"}, NEW x, status' = [status EXCEPT ![x] = s]
        PROVE  \A b \in Bookings : status'[b] = "none" => status[b] = "none"
    BY <2>2 DEF Shapes, BookingShapes, Cancellable
  <2>3. \/ status' = status
        \/ \E s \in {"PAID", "CANCELLED"} : \E x : status' = [status EXCEPT ![x] = s]
    BY <1>2, Zenon
    DEF Next, vars, booked, rows, past, BeginBooking, MintIntent, CardPays, ReleaseHold,
       PayCash, ReadInvoice, ApplyInvoice, ApplyToCancelled, ApplyWithoutBeds, ApplyToBooking,
       EndHook, ReadCancel, ClaimPaid, Claim, ReadEvidence, WriteUnpaid, CrashCancel,
       RequestAdjustment, ReviewAdjustment
  <2>4. \A b \in Bookings : status'[b] = "none" => status[b] = "none"
    BY <2>2, <2>3 DEF Cancellable
  <2> QED BY <2>1, <2>4 DEF NothingSpent
<1> QED BY <1>1, <1>2

(* Type correctness: every variable holds what it may, and the balance that *)
(* every check reads is the sum of the member's rows - opened, approved,    *)
(* given back, held and minted, less what is applied - whoever wrote them.  *)
THEOREM TypeCorrect == Spec => []TypeOK
<1>1. Init => Balanced /\ NothingSpent
  <2> SUFFICES ASSUME Init
               PROVE  Balanced /\ NothingSpent
    OBVIOUS
  <2>1. NothingSpent
    BY DEF Init, NothingSpent
  <2>2. \A b \in Bookings : KeptOf[b] = 0
    BY DEF Init, KeptOf, Kept, Applied
  <2>3. Sum(KeptOf, Bookings) = 0
    BY <2>2, FinitenessAssumption, SumZero
  <2>4. Approved = {}
    BY DEF Init, Approved
  <2>5. Sum(Delta, Approved) = 0
    BY <2>4, SumEmpty
  <2> QED BY <2>1, <2>3, <2>5, OpeningAssumption DEF Init, Balanced
<1>2. ASSUME IInv, IInv', Balanced, NothingSpent, [Next]_vars
      PROVE  Balanced' /\ NothingSpent'
  <2>1. Shapes /\ Places /\ AllSound /\ Shapes'
    BY <1>2 DEF IInv
  <2>2. CASE CommitBooking
    BY <1>2, <2>1, <2>2, CommitBalanced
  <2>3. CASE ~CommitBooking
    <3>1. NothingSpent'
      BY <1>2, <2>1, <2>3, NothingSpentStays
    <3>2. Balanced'
      BY <1>2, <2>1, <2>3, OthersBalanced, ReturnsBalanced, ApprovalMovesBalance,
         AllocationBalanced, Zenon DEF Next
    <3> QED BY <3>1, <3>2
  <2> QED BY <2>2, <2>3
<1>3. IInv /\ Balanced => TypeOK
  BY DEF IInv, Balanced, TypeOK, KeptOf, Kept, Approved
<1> QED BY <1>1, <1>2, <1>3, InitIInv, StepIInv, PTL DEF Spec

============================================================================
