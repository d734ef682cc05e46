----------------------- MODULE BookingCapacityProofs -----------------------
(***************************************************************************)
(* What TLAPS proves of BookingCapacity for any number of bookings, guests,*)
(* nights and beds: the type invariant, that bookings admitted through the *)
(* capacity check never oversell a night, why a booking loses its beds,    *)
(* and which handlers can bring a cancelled one back.                      *)
(***************************************************************************)
EXTENDS BookingCapacity, FiniteSetTheorems, SequenceTheorems, TLAPS

----------------------------------------------------------------------------
(* Facts about the helpers *)

JobRow == [kind : JobKind, of : Bookings]

(* Jobs that are started for bookings are jobs. *)
LEMMA StartType ==
  ASSUME TypeOK, NEW kind \in JobKind, NEW S \in SUBSET Bookings, Start(kind, S)
  PROVE  jobs' \subseteq JobRow
<1>1. \A b \in S : Job(kind, b) \in JobRow
  BY DEF Job, JobRow
<1> QED BY <1>1 DEF Start, TypeOK, JobRow

(* Releasing jobs leaves jobs. *)
LEMMA DropType ==
  ASSUME TypeOK, NEW J, jobs' = jobs \ J
  PROVE  jobs' \subseteq JobRow
BY DEF TypeOK, JobRow

(* The jobs a cancellation starts. *)
LEMMA CancelType ==
  ASSUME TypeOK, NEW b \in Bookings, NEW J, jobs' = (jobs \ J) \cup {Job("line", b)} \cup Orphans(b)
  PROVE  jobs' \subseteq JobRow
<1>1. Job("line", b) \in JobRow
  BY DEF Job, JobRow, JobKind
<1>2. Orphans(b) \subseteq JobRow
  BY DEF Orphans, Children, Job, JobRow, JobKind
<1> QED BY <1>1, <1>2 DEF TypeOK, JobRow

----------------------------------------------------------------------------
(* Type correctness, one lemma per group of handlers *)

(* A handler of the member's desk keeps the types. *)
LEMMA MemberType ==
  ASSUME TypeOK, NEW b \in Bookings, Member(b)
  PROVE  TypeOK'
<1> USE DEF TypeOK, Elsewhere, Admit, Override, Slip, Put, SetDeadline,
            SetPayment, SetIntent, Status, Deadline, PaymentRow, Intent
<1>1. CASE CreateConfirmed(b)
  BY <1>1 DEF CreateConfirmed, Bookable
<1>2. CASE CreateDraft(b)
  BY <1>2 DEF CreateDraft
<1>3. CASE JoinWaitlist(b)
  <2>1. line' \in Seq(Bookings)
    BY <1>3, AppendProperties DEF JoinWaitlist
  <2> QED BY <1>3, <2>1 DEF JoinWaitlist
<1>4. ASSUME NEW hold \in BOOLEAN, CreateOnInvoice(b, hold)
      PROVE  TypeOK'
  BY <1>4 DEF CreateOnInvoice
<1>5. ASSUME NEW hold \in BOOLEAN, WriteSwitch(b, hold)
      PROVE  TypeOK'
  <2>1. jobs' \subseteq JobRow
    BY <1>5, DropType DEF WriteSwitch
  <2>2. status' \in [Bookings -> Status] /\ payment' \in [Bookings -> PaymentRow]
    BY <1>5 DEF WriteSwitch
  <2>3. deadline' \in [Bookings -> Deadline] /\ entry' \in [Bookings -> {"none", "checked", "admin", "unchecked"}]
    BY <1>5 DEF WriteSwitch
  <2> QED BY <1>5, <2>1, <2>2, <2>3 DEF WriteSwitch, JobRow
<1>6. CASE ConfirmDraft(b)
  BY <1>6 DEF ConfirmDraft
<1>7. CASE MintIntent(b)
  BY <1>7 DEF MintIntent
<1>8. CASE ReadSwitch(b)
  <2>1. jobs' \subseteq JobRow
    BY <1>8, StartType DEF ReadSwitch, JobKind
  <2> QED BY <1>8, <2>1 DEF ReadSwitch, JobRow
<1>9. CASE ConfirmOffer(b)
  <2>1. jobs' \subseteq JobRow
    BY <1>9, StartType DEF ConfirmOffer, JobKind, JobRow
  <2> QED BY <1>9, <2>1 DEF ConfirmOffer, JobRow
<1>10. CASE SettleFreeOffer(b)
  BY <1>10 DEF SettleFreeOffer
<1>11. CASE CancelNoPayment(b)
  <2>1. jobs' \subseteq JobRow
    BY <1>11, StartType DEF CancelNoPayment, JobKind, JobRow
  <2> QED BY <1>11, <2>1 DEF CancelNoPayment, JobRow
<1>12. CASE ReadCancel(b)
  <2>1. jobs' \subseteq JobRow
    BY <1>12, StartType DEF ReadCancel, JobKind
  <2> QED BY <1>12, <2>1 DEF ReadCancel, JobRow
<1>13. CASE CancelPaid(b)
  <2>1. jobs' \subseteq JobRow
    BY <1>13, CancelType DEF CancelPaid
  <2> QED BY <1>13, <2>1 DEF CancelPaid, JobRow
<1>14. CASE CancelOrphan(b)
  <2>1. jobs' \subseteq JobRow
    BY <1>14 DEF CancelOrphan, Job, JobRow, JobKind
  <2> QED BY <1>14, <2>1 DEF CancelOrphan, JobRow
<1>15. ASSUME NEW kind, WriteCancel(b, kind)
       PROVE  TypeOK'
  <2>1. jobs' \subseteq JobRow
    BY <1>15, CancelType DEF WriteCancel
  <2> QED BY <1>15, <2>1 DEF WriteCancel, JobRow
<1> QED
  BY <1>1, <1>2, <1>3, <1>4, <1>5, <1>6, <1>7, <1>8, <1>9, <1>10, <1>11, <1>12,
     <1>13, <1>14, <1>15 DEF Member

(* A handler of the admin's desk keeps the types. *)
LEMMA AdminType ==
  ASSUME TypeOK, NEW b \in Bookings, Admin(b)
  PROVE  TypeOK'
<1> USE DEF TypeOK, Elsewhere, Admit, Override, Slip, Put, SetDeadline,
            SetPayment, SetIntent, Status, Deadline, PaymentRow, Intent
<1>1. CASE HoldRequest(b)
  BY <1>1 DEF HoldRequest
<1>2. CASE ConvertRequest(b)
  BY <1>2 DEF ConvertRequest
<1>3. CASE ApproveReview(b)
  BY <1>3 DEF ApproveReview
<1>4. ASSUME NEW allow \in BOOLEAN, ConfirmPendingGuests(b, allow)
      PROVE  TypeOK'
  <2>1. jobs' \subseteq JobRow
    BY <1>4, StartType DEF ConfirmPendingGuests, JobKind, JobRow
  <2> QED BY <1>4, <2>1 DEF ConfirmPendingGuests, JobRow
<1>5. ASSUME NEW allow \in BOOLEAN, ForceConfirm(b, allow)
      PROVE  TypeOK'
  BY <1>5 DEF ForceConfirm
<1> QED
  BY <1>1, <1>2, <1>3, <1>4, <1>5 DEF Admin

(* A callback of Stripe or Xero keeps the types. *)
LEMMA ProviderType ==
  ASSUME TypeOK, NEW b \in Bookings, Provider(b)
  PROVE  TypeOK'
<1> USE DEF TypeOK, Elsewhere, Admit, Override, Slip, Put, SetDeadline,
            SetPayment, SetIntent, Status, Deadline, PaymentRow, Intent
<1>1. CASE Capture(b)
  BY <1>1 DEF Capture
<1>2. CASE MarkPaid(b)
  BY <1>2 DEF MarkPaid
<1>3. CASE InvoicePaid(b)
  <2>1. jobs' \subseteq JobRow
    BY <1>3, StartType DEF InvoicePaid, JobKind, JobRow
  <2> QED BY <1>3, <2>1 DEF InvoicePaid, JobRow
<1>4. CASE ChargeSucceeds(b)
  BY <1>4 DEF ChargeSucceeds
<1>5. CASE ChargeFails(b)
  BY <1>5 DEF ChargeFails
<1> QED
  BY <1>1, <1>2, <1>3, <1>4, <1>5 DEF Provider

(* A scheduled job keeps the types. *)
LEMMA CronType ==
  ASSUME TypeOK, NEW b \in Bookings, Cron(b)
  PROVE  TypeOK'
<1> USE DEF TypeOK, Elsewhere, Admit, Override, Slip, Put, SetDeadline,
            SetPayment, SetIntent, Status, Deadline, PaymentRow, Intent
<1>1. CASE ExpireDraft(b)
  BY <1>1 DEF ExpireDraft
<1>2. CASE ReleaseBankHold(b)
  <2>1. jobs' \subseteq JobRow
    BY <1>2, StartType DEF ReleaseBankHold, JobKind
  <2> QED BY <1>2, <2>1 DEF ReleaseBankHold, JobRow
<1>3. CASE ResolveHold(b)
  <2>1. jobs' \subseteq JobRow
    BY <1>3, StartType DEF ResolveHold, JobKind, JobRow
  <2> QED BY <1>3, <2>1 DEF ResolveHold, JobRow
<1>4. CASE ProcessLine(b)
  BY <1>4 DEF ProcessLine
<1> QED
  BY <1>1, <1>2, <1>3, <1>4 DEF Cron

(* The steps that are nobody's booking keep the types. *)
LEMMA RestType ==
  ASSUME TypeOK, CapacityAssumption,
         \/ ExpireOffers \/ ReadSweep \/ WriteSweep \/ ReadComplete \/ WriteComplete
         \/ Tick \/ Crash
         \/ \E b \in Bookings : PassDeadline(b)
         \/ \E c \in 0 .. MaxBeds : SetCapacity(c)
         \/ UNCHANGED vars
  PROVE  TypeOK'
<1> USE DEF TypeOK, Elsewhere, rows, SetDeadline, Status, Deadline, PaymentRow, Intent
<1>1. CASE ExpireOffers
  <2>1. jobs' \subseteq JobRow
    BY <1>1, StartType DEF ExpireOffers, JobKind
  <2> QED BY <1>1, <2>1 DEF ExpireOffers, JobRow
<1>2. CASE ReadSweep
  <2>1. jobs' \subseteq JobRow
    BY <1>2, StartType DEF ReadSweep, JobKind
  <2> QED BY <1>2, <2>1 DEF ReadSweep, JobRow
<1>3. CASE WriteSweep
  BY <1>3 DEF WriteSweep
<1>4. CASE ReadComplete
  <2>1. jobs' \subseteq JobRow
    BY <1>4, StartType DEF ReadComplete, JobKind
  <2> QED BY <1>4, <2>1 DEF ReadComplete, JobRow
<1>5. CASE WriteComplete
  BY <1>5 DEF WriteComplete
<1>6. CASE Tick
  BY <1>6, CapacityAssumption DEF Tick
<1>7. CASE Crash
  BY <1>7, CapacityAssumption DEF Crash
<1>8. ASSUME NEW b \in Bookings, PassDeadline(b)
      PROVE  TypeOK'
  BY <1>8 DEF PassDeadline
<1>9. ASSUME NEW c \in 0 .. MaxBeds, SetCapacity(c)
      PROVE  TypeOK'
  BY <1>9 DEF SetCapacity, Nights
<1>10. CASE UNCHANGED vars
  BY <1>10 DEF vars
<1> QED
  BY <1>1, <1>2, <1>3, <1>4, <1>5, <1>6, <1>7, <1>8, <1>9, <1>10

(* Every variable always has its type. *)
THEOREM TypeCorrect == Spec => []TypeOK
<1>1. Init => TypeOK
  BY CapacityAssumption DEF Init, TypeOK, Status, Deadline, PaymentRow, Intent
<1>2. TypeOK /\ [Next]_vars => TypeOK'
  BY MemberType, AdminType, ProviderType, CronType, RestType, CapacityAssumption DEF Next
<1> QED BY <1>1, <1>2, PTL DEF Spec

----------------------------------------------------------------------------
(* Beds *)

(* The beds a set of bookings takes are a number. *)
LEMMA BedsType ==
  ASSUME LodgeAssumption, NEW S, NEW n
  PROVE  IsFiniteSet(Sleepers(S, n)) /\ BedsTaken(S, n) \in Nat
<1>1. Sleepers(S, n) \subseteq Guests
  BY DEF Sleepers
<1>2. IsFiniteSet(Sleepers(S, n))
  BY <1>1, FS_Subset DEF LodgeAssumption
<1> QED BY <1>2, FS_CardinalityType DEF BedsTaken

(* Fewer sleepers take no more beds. *)
LEMMA BedsMonotone ==
  ASSUME LodgeAssumption, NEW S, NEW T, NEW n, Sleepers(S, n) \subseteq Sleepers(T, n)
  PROVE  BedsTaken(S, n) <= BedsTaken(T, n)
BY BedsType, FS_Subset DEF BedsTaken

(* A booking takes no bed outside its span. *)
LEMMA NoBedOutsideSpan ==
  ASSUME LodgeAssumption, NEW b \in Bookings, NEW n, n \notin Span(b), NEW S, NEW T,
         T \subseteq S \cup {b}
  PROVE  Sleepers(T, n) \subseteq Sleepers(S, n)
BY DEF Sleepers, LodgeAssumption

(* A step that admits nobody keeps the lodge within its beds. *)
LEMMA NobodyAdmitted ==
  ASSUME LodgeAssumption, TypeOK, CapacityAssumption, CheckedFit,
         Admitted' \subseteq Admitted, UNCHANGED <<beds, cut>>
  PROVE  CheckedFit'
<1> SUFFICES ASSUME NEW n \in Nights \ cut
             PROVE  BedsTaken(Admitted', n) <= beds
  BY DEF CheckedFit
<1>1. Sleepers(Admitted', n) \subseteq Sleepers(Admitted, n)
  BY DEF Sleepers
<1>2. BedsTaken(Admitted', n) <= BedsTaken(Admitted, n)
  BY <1>1, BedsMonotone
<1>3. BedsTaken(Admitted, n) <= beds
  BY DEF CheckedFit
<1>4. beds \in Nat /\ BedsTaken(Admitted', n) \in Nat /\ BedsTaken(Admitted, n) \in Nat
  BY BedsType, CapacityAssumption DEF TypeOK, CapacityAssumption
<1> QED BY <1>2, <1>3, <1>4

(* A step that admits one booking which passed the check does too. *)
LEMMA OneAdmitted ==
  ASSUME LodgeAssumption, TypeOK, CapacityAssumption, CheckedFit,
         NEW b \in Bookings, Fits(b),
         Admitted' \subseteq Admitted \cup {b}, UNCHANGED <<beds, cut>>
  PROVE  CheckedFit'
<1> SUFFICES ASSUME NEW n \in Nights \ cut
             PROVE  BedsTaken(Admitted', n) <= beds
  BY DEF CheckedFit
<1> DEFINE beside == (Holders(status) \ {b}) \cup {b}
<1>1. beds \in Nat /\ BedsTaken(Admitted', n) \in Nat /\ BedsTaken(Admitted, n) \in Nat
      /\ BedsTaken(beside, n) \in Nat
  BY BedsType, CapacityAssumption DEF TypeOK, CapacityAssumption
<1>2. CASE n \in Span(b)
  <2>1. Admitted' \subseteq beside
    BY DEF Admitted
  <2>2. Sleepers(Admitted', n) \subseteq Sleepers(beside, n)
    BY <2>1 DEF Sleepers
  <2>3. BedsTaken(Admitted', n) <= BedsTaken(beside, n)
    BY <2>2, BedsMonotone
  <2>4. BedsTaken(beside, n) <= beds
    BY <1>2 DEF Fits, FitsBeside
  <2> QED BY <1>1, <2>3, <2>4
<1>3. CASE n \notin Span(b)
  <2>1. Sleepers(Admitted', n) \subseteq Sleepers(Admitted, n)
    BY <1>3, NoBedOutsideSpan
  <2>2. BedsTaken(Admitted', n) <= BedsTaken(Admitted, n)
    BY <2>1, BedsMonotone
  <2>3. BedsTaken(Admitted, n) <= beds
    BY DEF CheckedFit
  <2> QED BY <1>1, <2>2, <2>3
<1> QED BY <1>2, <1>3

----------------------------------------------------------------------------
(* The steps, one by one *)

(* A handler of the member's desk keeps the admitted bookings within the beds. *)
LEMMA MemberFit ==
  ASSUME LodgeAssumption, CapacityAssumption, TypeOK, CheckedFit, NEW b \in Bookings, Member(b)
  PROVE  CheckedFit'
<1> USE DEF TypeOK, Elsewhere, Admit, Override, Slip, Put
<1>1. CASE CreateConfirmed(b)
  <2>1. Admitted' \subseteq Admitted \cup {b}
    BY <1>1 DEF CreateConfirmed, Admitted, Holders, HoldingStatus, Bookable, Children, CapacityAssumption
  <2> QED BY <1>1, <2>1, OneAdmitted DEF CreateConfirmed
<1>2. CASE CreateDraft(b)
  <2>1. Admitted' \subseteq Admitted
    BY <1>2 DEF CreateDraft, Admitted, Holders, HoldingStatus
  <2> QED BY <1>2, <2>1, NobodyAdmitted DEF CreateDraft
<1>3. CASE JoinWaitlist(b)
  <2>1. Admitted' \subseteq Admitted
    BY <1>3 DEF JoinWaitlist, Admitted, Holders, HoldingStatus
  <2> QED BY <1>3, <2>1, NobodyAdmitted DEF JoinWaitlist
<1>4. ASSUME NEW hold \in BOOLEAN, CreateOnInvoice(b, hold)
      PROVE  CheckedFit'
  <2>1. Admitted' \subseteq Admitted \cup {b}
    BY <1>4 DEF CreateOnInvoice, Admitted, Holders, HoldingStatus
  <2> QED BY <1>4, <2>1, OneAdmitted DEF CreateOnInvoice
<1>5. ASSUME NEW hold \in BOOLEAN, WriteSwitch(b, hold)
      PROVE  CheckedFit'
  <2>1. Admitted' \subseteq Admitted \cup {b}
    BY <1>5 DEF WriteSwitch, Admitted, Holders, HoldingStatus
  <2>2. ~Fits(b) => Admitted' \subseteq Admitted
    BY <1>5 DEF WriteSwitch, Admitted, Holders, HoldingStatus
  <2>3. UNCHANGED <<beds, cut>>
    BY <1>5 DEF WriteSwitch
  <2> QED BY <2>1, <2>2, <2>3, NobodyAdmitted, OneAdmitted
<1>6. CASE ConfirmDraft(b)
  <2>1. Admitted' \subseteq Admitted \cup {b}
    BY <1>6 DEF ConfirmDraft, Admitted, Holders, HoldingStatus
  <2> QED BY <1>6, <2>1, OneAdmitted DEF ConfirmDraft
<1>7. CASE MintIntent(b)
  <2>1. Admitted' \subseteq Admitted
    BY <1>7 DEF MintIntent, Admitted, Holders, HoldingStatus
  <2> QED BY <1>7, <2>1, NobodyAdmitted DEF MintIntent
<1>8. CASE ReadSwitch(b)
  <2>1. Admitted' \subseteq Admitted
    BY <1>8 DEF ReadSwitch, Admitted, Holders, HoldingStatus
  <2> QED BY <1>8, <2>1, NobodyAdmitted DEF ReadSwitch
<1>9. CASE ConfirmOffer(b)
  <2>1. Admitted' \subseteq Admitted \cup {b}
    BY <1>9 DEF ConfirmOffer, Admitted, Holders, HoldingStatus
  <2>2. ~Fits(b) => Admitted' \subseteq Admitted
    BY <1>9 DEF ConfirmOffer, Admitted, Holders, HoldingStatus
  <2>3. UNCHANGED <<beds, cut>>
    BY <1>9 DEF ConfirmOffer
  <2> QED BY <2>1, <2>2, <2>3, NobodyAdmitted, OneAdmitted
<1>10. CASE SettleFreeOffer(b)
  <2>1. Admitted' \subseteq Admitted
    BY <1>10 DEF SettleFreeOffer, Admitted, Holders, HoldingStatus
  <2> QED BY <1>10, <2>1, NobodyAdmitted DEF SettleFreeOffer
<1>11. CASE CancelNoPayment(b)
  <2>1. Admitted' \subseteq Admitted
    BY <1>11 DEF CancelNoPayment, Admitted, Holders, HoldingStatus
  <2> QED BY <1>11, <2>1, NobodyAdmitted DEF CancelNoPayment
<1>12. CASE ReadCancel(b)
  <2>1. Admitted' \subseteq Admitted
    BY <1>12 DEF ReadCancel, Admitted, Holders, HoldingStatus
  <2> QED BY <1>12, <2>1, NobodyAdmitted DEF ReadCancel
<1>13. CASE CancelPaid(b)
  <2>1. Admitted' \subseteq Admitted
    BY <1>13 DEF CancelPaid, Admitted, Holders, HoldingStatus
  <2> QED BY <1>13, <2>1, NobodyAdmitted DEF CancelPaid
<1>14. CASE CancelOrphan(b)
  <2>1. Admitted' \subseteq Admitted
    BY <1>14 DEF CancelOrphan, Admitted, Holders, HoldingStatus
  <2> QED BY <1>14, <2>1, NobodyAdmitted DEF CancelOrphan
<1>15. ASSUME NEW kind, WriteCancel(b, kind)
      PROVE  CheckedFit'
  <2>1. Admitted' \subseteq Admitted
    BY <1>15 DEF WriteCancel, Admitted, Holders, HoldingStatus
  <2> QED BY <1>15, <2>1, NobodyAdmitted DEF WriteCancel
<1> QED
  BY <1>1, <1>2, <1>3, <1>4, <1>5, <1>6, <1>7, <1>8, <1>9, <1>10, <1>11, <1>12, <1>13, <1>14, <1>15 DEF Member

(* A handler of the admin's desk keeps the admitted bookings within the beds. *)
LEMMA AdminFit ==
  ASSUME LodgeAssumption, CapacityAssumption, TypeOK, CheckedFit, NEW b \in Bookings, Admin(b)
  PROVE  CheckedFit'
<1> USE DEF TypeOK, Elsewhere, Admit, Override, Slip, Put
<1>1. CASE HoldRequest(b)
  <2>1. Admitted' \subseteq Admitted \cup {b}
    BY <1>1 DEF HoldRequest, Admitted, Holders, HoldingStatus
  <2> QED BY <1>1, <2>1, OneAdmitted DEF HoldRequest
<1>2. CASE ConvertRequest(b)
  <2>1. Admitted' \subseteq Admitted \cup {b}
    BY <1>2 DEF ConvertRequest, Admitted, Holders, HoldingStatus
  <2>2. ~Fits(b) => Admitted' \subseteq Admitted
    BY <1>2 DEF ConvertRequest, Admitted, Holders, HoldingStatus
  <2>3. UNCHANGED <<beds, cut>>
    BY <1>2 DEF ConvertRequest
  <2> QED BY <2>1, <2>2, <2>3, NobodyAdmitted, OneAdmitted
<1>3. CASE ApproveReview(b)
  <2>1. Admitted' \subseteq Admitted
    BY <1>3 DEF ApproveReview, Admitted, Holders, HoldingStatus
  <2> QED BY <1>3, <2>1, NobodyAdmitted DEF ApproveReview
<1>4. ASSUME NEW allow \in BOOLEAN, ConfirmPendingGuests(b, allow)
      PROVE  CheckedFit'
  <2>1. Admitted' \subseteq Admitted \cup {b}
    BY <1>4 DEF ConfirmPendingGuests, Admitted, Holders, HoldingStatus
  <2>2. ~Fits(b) => Admitted' \subseteq Admitted
    BY <1>4 DEF ConfirmPendingGuests, Admitted, Holders, HoldingStatus
  <2>3. UNCHANGED <<beds, cut>>
    BY <1>4 DEF ConfirmPendingGuests
  <2> QED BY <2>1, <2>2, <2>3, NobodyAdmitted, OneAdmitted
<1>5. ASSUME NEW allow \in BOOLEAN, ForceConfirm(b, allow)
      PROVE  CheckedFit'
  <2>1. Admitted' \subseteq Admitted \cup {b}
    BY <1>5 DEF ForceConfirm, Admitted, Holders, HoldingStatus
  <2>2. ~Fits(b) => Admitted' \subseteq Admitted
    BY <1>5 DEF ForceConfirm, Admitted, Holders, HoldingStatus
  <2>3. UNCHANGED <<beds, cut>>
    BY <1>5 DEF ForceConfirm
  <2> QED BY <2>1, <2>2, <2>3, NobodyAdmitted, OneAdmitted
<1> QED
  BY <1>1, <1>2, <1>3, <1>4, <1>5 DEF Admin

(* A callback of Stripe or Xero keeps the admitted bookings within the beds. *)
LEMMA ProviderFit ==
  ASSUME LodgeAssumption, CapacityAssumption, TypeOK, CheckedFit, NEW b \in Bookings, Provider(b)
  PROVE  CheckedFit'
<1> USE DEF TypeOK, Elsewhere, Admit, Override, Slip, Put
<1>1. CASE Capture(b)
  <2>1. Admitted' \subseteq Admitted
    BY <1>1 DEF Capture, Admitted, Holders, HoldingStatus
  <2> QED BY <1>1, <2>1, NobodyAdmitted DEF Capture
<1>2. CASE MarkPaid(b)
  <2>1. Admitted' \subseteq Admitted \cup {b}
    BY <1>2 DEF MarkPaid, Admitted, Holders, HoldingStatus, PayableStatus
  <2>2. ~Fits(b) => Admitted' \subseteq Admitted
    BY <1>2 DEF MarkPaid, Admitted, Holders, HoldingStatus, PayableStatus
  <2>3. UNCHANGED <<beds, cut>>
    BY <1>2 DEF MarkPaid
  <2> QED BY <2>1, <2>2, <2>3, NobodyAdmitted, OneAdmitted
<1>3. CASE InvoicePaid(b)
  <2>1. Admitted' \subseteq Admitted \cup {b}
    BY <1>3 DEF InvoicePaid, Admitted, Holders, HoldingStatus
  <2>2. ~Fits(b) => Admitted' \subseteq Admitted
    BY <1>3 DEF InvoicePaid, Admitted, Holders, HoldingStatus
  <2>3. UNCHANGED <<beds, cut>>
    BY <1>3 DEF InvoicePaid
  <2> QED BY <2>1, <2>2, <2>3, NobodyAdmitted, OneAdmitted
<1>4. CASE ChargeSucceeds(b)
  <2>1. Admitted' \subseteq Admitted
    BY <1>4 DEF ChargeSucceeds, Admitted, Holders, HoldingStatus
  <2> QED BY <1>4, <2>1, NobodyAdmitted DEF ChargeSucceeds
<1>5. CASE ChargeFails(b)
  <2>1. Admitted' \subseteq Admitted
    BY <1>5 DEF ChargeFails, Admitted, Holders, HoldingStatus
  <2> QED BY <1>5, <2>1, NobodyAdmitted DEF ChargeFails
<1> QED
  BY <1>1, <1>2, <1>3, <1>4, <1>5 DEF Provider

(* A scheduled job keeps the admitted bookings within the beds. *)
LEMMA CronFit ==
  ASSUME LodgeAssumption, CapacityAssumption, TypeOK, CheckedFit, NEW b \in Bookings, Cron(b)
  PROVE  CheckedFit'
<1> USE DEF TypeOK, Elsewhere, Admit, Override, Slip, Put
<1>1. CASE ExpireDraft(b)
  <2>1. Admitted' \subseteq Admitted
    BY <1>1 DEF ExpireDraft, Admitted, Holders, HoldingStatus
  <2> QED BY <1>1, <2>1, NobodyAdmitted DEF ExpireDraft
<1>2. CASE ReleaseBankHold(b)
  <2>1. Admitted' \subseteq Admitted
    BY <1>2 DEF ReleaseBankHold, Admitted, Holders, HoldingStatus
  <2> QED BY <1>2, <2>1, NobodyAdmitted DEF ReleaseBankHold
<1>3. CASE ResolveHold(b)
  <2>1. Admitted' \subseteq Admitted \cup {b}
    BY <1>3 DEF ResolveHold, Admitted, Holders, HoldingStatus
  <2>2. ~Fits(b) => Admitted' \subseteq Admitted
    BY <1>3 DEF ResolveHold, Admitted, Holders, HoldingStatus
  <2>3. UNCHANGED <<beds, cut>>
    BY <1>3 DEF ResolveHold
  <2> QED BY <2>1, <2>2, <2>3, NobodyAdmitted, OneAdmitted
<1>4. CASE ProcessLine(b)
  <2>1. Admitted' \subseteq Admitted
    BY <1>4 DEF ProcessLine, Admitted, Holders, HoldingStatus, Candidate
  <2> QED BY <1>4, <2>1, NobodyAdmitted DEF ProcessLine
<1> QED
  BY <1>1, <1>2, <1>3, <1>4 DEF Cron

(* The steps that are nobody's booking keep the admitted bookings within the beds. *)
LEMMA RestFit ==
  ASSUME LodgeAssumption, CapacityAssumption, TypeOK, CheckedFit, 
         \/ ExpireOffers \/ ReadSweep \/ WriteSweep \/ ReadComplete \/ WriteComplete
         \/ Tick \/ Crash
         \/ \E b \in Bookings : PassDeadline(b)
         \/ \E c \in 0 .. MaxBeds : SetCapacity(c)
         \/ UNCHANGED vars
  PROVE  CheckedFit'
<1> USE DEF TypeOK, Elsewhere, Admit, Override, Slip, Put, rows
<1>1. CASE ExpireOffers
  <2>1. Admitted' \subseteq Admitted
    BY <1>1 DEF ExpireOffers, Admitted, Holders, HoldingStatus
  <2> QED BY <1>1, <2>1, NobodyAdmitted DEF ExpireOffers
<1>2. CASE ReadSweep
  <2>1. Admitted' \subseteq Admitted
    BY <1>2 DEF ReadSweep, Admitted, Holders, HoldingStatus
  <2> QED BY <1>2, <2>1, NobodyAdmitted DEF ReadSweep
<1>3. CASE WriteSweep
  <2>1. Admitted' \subseteq Admitted
    BY <1>3 DEF WriteSweep, Admitted, Holders, HoldingStatus
  <2> QED BY <1>3, <2>1, NobodyAdmitted DEF WriteSweep
<1>4. CASE ReadComplete
  <2>1. Admitted' \subseteq Admitted
    BY <1>4 DEF ReadComplete, Admitted, Holders, HoldingStatus
  <2> QED BY <1>4, <2>1, NobodyAdmitted DEF ReadComplete
<1>5. CASE WriteComplete
  <2>1. Admitted' \subseteq Admitted
    BY <1>5 DEF WriteComplete, Admitted, Holders, HoldingStatus
  <2> QED BY <1>5, <2>1, NobodyAdmitted DEF WriteComplete
<1>6. CASE Tick
  <2>1. Admitted' \subseteq Admitted
    BY <1>6 DEF Tick, Admitted, Holders, HoldingStatus
  <2> QED BY <1>6, <2>1, NobodyAdmitted DEF Tick
<1>7. CASE Crash
  <2>1. Admitted' \subseteq Admitted
    BY <1>7 DEF Crash, Admitted, Holders, HoldingStatus
  <2> QED BY <1>7, <2>1, NobodyAdmitted DEF Crash
<1>8. ASSUME NEW b \in Bookings, PassDeadline(b)
      PROVE  CheckedFit'
  <2>1. Admitted' \subseteq Admitted
    BY <1>8 DEF PassDeadline, Admitted, Holders, HoldingStatus
  <2> QED BY <1>8, <2>1, NobodyAdmitted DEF PassDeadline
<1>9. ASSUME NEW c \in 0 .. MaxBeds, SetCapacity(c)
      PROVE  CheckedFit'
  <2>1. Admitted' = Admitted /\ Admitted \subseteq Holders(status)
    BY <1>9 DEF SetCapacity, Admitted, Holders
  <2> SUFFICES ASSUME NEW n \in Nights \ cut'
               PROVE  BedsTaken(Admitted, n) <= c
    BY <1>9, <2>1 DEF CheckedFit, SetCapacity
  <2>2. n \in Nights \ cut /\ ~(c < beds /\ BedsTaken(Holders(status), n) > c)
    BY <1>9 DEF SetCapacity
  <2>3. Sleepers(Admitted, n) \subseteq Sleepers(Holders(status), n)
    BY <2>1 DEF Sleepers
  <2>4. BedsTaken(Admitted, n) <= BedsTaken(Holders(status), n)
    BY <2>3, BedsMonotone
  <2>5. BedsTaken(Admitted, n) <= beds
    BY <2>2 DEF CheckedFit
  <2>6. beds \in Nat /\ c \in Nat /\ BedsTaken(Admitted, n) \in Nat
        /\ BedsTaken(Holders(status), n) \in Nat
    BY BedsType DEF CapacityAssumption
  <2> QED BY <2>2, <2>4, <2>5, <2>6
<1>10. CASE UNCHANGED vars
  <2>1. Admitted' \subseteq Admitted
    BY <1>10 DEF Admitted, Holders, HoldingStatus, vars
  <2> QED BY <1>10, <2>1, NobodyAdmitted DEF vars
<1> QED
  BY <1>1, <1>2, <1>3, <1>4, <1>5, <1>6, <1>7, <1>8, <1>9, <1>10

(* An empty table takes no beds. *)
LEMMA NobodyAtFirst ==
  ASSUME LodgeAssumption, CapacityAssumption, Init
  PROVE  CheckedFit
<1>1. Admitted = {}
  BY DEF Init, Admitted, Holders, HoldingStatus
<1>2. \A n : Sleepers(Admitted, n) = {}
  BY <1>1 DEF Sleepers
<1>3. \A n : BedsTaken(Admitted, n) = 0
  BY <1>2, FS_EmptySet DEF BedsTaken
<1>4. beds \in Nat
  BY DEF Init, CapacityAssumption
<1> QED BY <1>3, <1>4 DEF CheckedFit

(* The bookings that took their beds through the capacity check never       *)
(* oversell a night, but one a capacity cut has oversold.                   *)
THEOREM AdmittedBookingsFit == Spec => []CheckedFit
<1>1. Init => CheckedFit
  BY NobodyAtFirst, LodgeAssumption, CapacityAssumption
<1>2. TypeOK /\ CheckedFit /\ [Next]_vars => CheckedFit'
  BY MemberFit, AdminFit, ProviderFit, CronFit, RestFit, LodgeAssumption,
     CapacityAssumption DEF Next
<1> QED BY <1>1, <1>2, TypeCorrect, PTL DEF Spec

----------------------------------------------------------------------------
(* Who loses a bed *)

(* A booking that holds beds and no longer fits shares one of its nights    *)
(* with a capacity cut or with a booking that is not admitted.              *)
LEMMA FullForAReason ==
  ASSUME LodgeAssumption, CapacityAssumption, TypeOK, CheckedFit,
         NEW b \in Holders(status), ~Fits(b)
  PROVE  \E n \in Span(b) :
           \/ n \in cut
           \/ \E a \in Holders(status) \ Admitted : n \in Span(a)
<1>1. (Holders(status) \ {b}) \cup {b} = Holders(status)
  OBVIOUS
<1>2. PICK n \in Span(b) : ~(BedsTaken(Holders(status), n) <= beds)
  BY <1>1 DEF Fits, FitsBeside
<1>3. b \in Bookings
  BY DEF Holders
<1>4. SUFFICES ASSUME n \notin cut
              PROVE  \E a \in Holders(status) \ Admitted : n \in Span(a)
  BY <1>2
<1>5. n \in Nights \ cut
  BY <1>3, <1>4 DEF Nights, Span
<1>6. BedsTaken(Admitted, n) <= beds
  BY <1>5 DEF CheckedFit
<1>7. Sleepers(Holders(status), n) # Sleepers(Admitted, n)
  BY <1>2, <1>6 DEF BedsTaken
<1>8. PICK g \in Sleepers(Holders(status), n) : g \notin Sleepers(Admitted, n)
  BY <1>7 DEF Sleepers, Admitted
<1>9. /\ BookingOf[g] \in Holders(status) \ Admitted
      /\ n \in Span(BookingOf[g])
  BY <1>8 DEF Sleepers, LodgeAssumption
<1> QED BY <1>9

(* A handler of the member's desk bumps nobody: what it cancels was asked   *)
(* for.                                                                     *)
LEMMA MemberBump ==
  ASSUME TypeOK, CapacityAssumption, NEW b \in Bookings, Member(b),
         NEW x \in Bookings, Bumped(x)
  PROVE  FALSE
<1> USE DEF TypeOK, Bumped, Asked, Admit, Slip, Put
<1>1. CASE CreateConfirmed(b)
  BY <1>1 DEF CreateConfirmed, Holders, HoldingStatus
<1>2. CASE CreateDraft(b)
  BY <1>2 DEF CreateDraft, Holders, HoldingStatus
<1>3. CASE JoinWaitlist(b)
  BY <1>3 DEF JoinWaitlist, Holders, HoldingStatus
<1>4. ASSUME NEW hold \in BOOLEAN, CreateOnInvoice(b, hold)
      PROVE  FALSE
  BY <1>4 DEF CreateOnInvoice, Holders, HoldingStatus
<1>5. ASSUME NEW hold \in BOOLEAN, WriteSwitch(b, hold)
      PROVE  FALSE
  BY <1>5 DEF WriteSwitch, Holders, HoldingStatus
<1>6. CASE ConfirmDraft(b)
  BY <1>6 DEF ConfirmDraft, Holders, HoldingStatus
<1>7. CASE MintIntent(b)
  BY <1>7 DEF MintIntent, Holders, HoldingStatus
<1>8. CASE ReadSwitch(b)
  BY <1>8 DEF ReadSwitch, Holders, HoldingStatus
<1>9. CASE ConfirmOffer(b)
  BY <1>9 DEF ConfirmOffer, Holders, HoldingStatus
<1>10. CASE SettleFreeOffer(b)
  BY <1>10 DEF SettleFreeOffer, Holders, HoldingStatus
<1>11. CASE CancelNoPayment(b)
  BY <1>11 DEF CancelNoPayment, Holders, HoldingStatus, NoPaymentStatus
<1>12. CASE ReadCancel(b)
  BY <1>12 DEF ReadCancel, Holders, HoldingStatus
<1>13. CASE CancelPaid(b)
  BY <1>13 DEF CancelPaid, Holders, HoldingStatus
<1>14. CASE CancelOrphan(b)
  BY <1>14 DEF CancelOrphan, Holders, HoldingStatus
<1>15. ASSUME NEW kind, WriteCancel(b, kind)
       PROVE  FALSE
  BY <1>15 DEF WriteCancel, Holders, HoldingStatus
<1> QED
  BY <1>1, <1>2, <1>3, <1>4, <1>5, <1>6, <1>7, <1>8, <1>9, <1>10, <1>11, <1>12,
     <1>13, <1>14, <1>15 DEF Member

(* Neither does one of the admin's. *)
LEMMA AdminBump ==
  ASSUME TypeOK, NEW b \in Bookings, Admin(b), NEW x \in Bookings, Bumped(x)
  PROVE  FALSE
<1> USE DEF TypeOK, Bumped, Asked, Admit, Override, Put, Holders, HoldingStatus
<1>1. CASE HoldRequest(b)
  BY <1>1 DEF HoldRequest
<1>2. CASE ConvertRequest(b)
  BY <1>2 DEF ConvertRequest
<1>3. CASE ApproveReview(b)
  BY <1>3 DEF ApproveReview
<1>4. ASSUME NEW allow \in BOOLEAN, ConfirmPendingGuests(b, allow)
      PROVE  FALSE
  BY <1>4 DEF ConfirmPendingGuests
<1>5. ASSUME NEW allow \in BOOLEAN, ForceConfirm(b, allow)
      PROVE  FALSE
  BY <1>5 DEF ForceConfirm
<1> QED
  BY <1>1, <1>2, <1>3, <1>4, <1>5 DEF Admin

(* A payment callback bumps only a booking that does not fit. *)
LEMMA ProviderBump ==
  ASSUME TypeOK, NEW b \in Bookings, Provider(b), NEW x \in Bookings, Bumped(x)
  PROVE  ~Fits(x)
<1> USE DEF TypeOK, Bumped, Asked, Admit, Slip, Put, Holders, HoldingStatus
<1>1. CASE Capture(b)
  BY <1>1 DEF Capture
<1>2. CASE MarkPaid(b)
  BY <1>2 DEF MarkPaid
<1>3. CASE InvoicePaid(b)
  BY <1>3 DEF InvoicePaid
<1>4. CASE ChargeSucceeds(b)
  BY <1>4 DEF ChargeSucceeds
<1>5. CASE ChargeFails(b)
  BY <1>5 DEF ChargeFails
<1> QED
  BY <1>1, <1>2, <1>3, <1>4, <1>5 DEF Provider

(* So does a scheduled job. *)
LEMMA CronBump ==
  ASSUME TypeOK, NEW b \in Bookings, Cron(b), NEW x \in Bookings, Bumped(x)
  PROVE  ~Fits(x)
<1> USE DEF TypeOK, Bumped, Asked, Admit, Put, Holders, HoldingStatus
<1>1. CASE ExpireDraft(b)
  BY <1>1 DEF ExpireDraft
<1>2. CASE ReleaseBankHold(b)
  BY <1>2 DEF ReleaseBankHold
<1>3. CASE ResolveHold(b)
  BY <1>3 DEF ResolveHold
<1>4. CASE ProcessLine(b)
  BY <1>4 DEF ProcessLine
<1> QED
  BY <1>1, <1>2, <1>3, <1>4 DEF Cron

(* The remaining steps bump nobody. *)
LEMMA RestBump ==
  ASSUME TypeOK, NEW x \in Bookings, Bumped(x),
         \/ ExpireOffers \/ ReadSweep \/ WriteSweep \/ ReadComplete \/ WriteComplete
         \/ Tick \/ Crash
         \/ \E b \in Bookings : PassDeadline(b)
         \/ \E c \in 0 .. MaxBeds : SetCapacity(c)
         \/ UNCHANGED vars
  PROVE  FALSE
<1> USE DEF TypeOK, Bumped, Asked, Holders, HoldingStatus, rows
<1>1. CASE ExpireOffers
  BY <1>1 DEF ExpireOffers
<1>2. CASE ReadSweep
  BY <1>2 DEF ReadSweep
<1>3. CASE WriteSweep
  BY <1>3 DEF WriteSweep, Running
<1>4. CASE ReadComplete
  BY <1>4 DEF ReadComplete
<1>5. CASE WriteComplete
  BY <1>5 DEF WriteComplete
<1>6. CASE Tick \/ Crash
  BY <1>6 DEF Tick, Crash
<1>7. ASSUME NEW b \in Bookings, PassDeadline(b)
      PROVE  FALSE
  BY <1>7 DEF PassDeadline
<1>8. ASSUME NEW c \in 0 .. MaxBeds, SetCapacity(c)
      PROVE  FALSE
  BY <1>8 DEF SetCapacity
<1>9. CASE UNCHANGED vars
  BY <1>9 DEF vars
<1> QED
  BY <1>1, <1>2, <1>3, <1>4, <1>5, <1>6, <1>7, <1>8, <1>9

(* A booking that holds beds loses them for lack of beds only on a night    *)
(* that a capacity cut or an unchecked or forced booking touched.           *)
THEOREM BumpsHaveAReason == Spec => BumpsAccounted
<1>1. TypeOK /\ CheckedFit /\ [Next]_vars =>
        \A b \in Bookings : Bumped(b) =>
          \E n \in Span(b) :
            \/ n \in cut
            \/ \E a \in Holders(status) \ Admitted : n \in Span(a)
  <2> SUFFICES ASSUME TypeOK, CheckedFit, [Next]_vars, NEW b \in Bookings, Bumped(b)
               PROVE  \E n \in Span(b) :
                        \/ n \in cut
                        \/ \E a \in Holders(status) \ Admitted : n \in Span(a)
    OBVIOUS
  <2>1. ~Fits(b)
    BY MemberBump, AdminBump, ProviderBump, CronBump, RestBump, CapacityAssumption DEF Next
  <2>2. b \in Holders(status)
    BY DEF Bumped
  <2> QED BY <2>1, <2>2, FullForAReason, LodgeAssumption, CapacityAssumption
<1> QED BY <1>1, TypeCorrect, AdmittedBookingsFit, PTL DEF Spec, BumpsAccounted

----------------------------------------------------------------------------
(* Cancelled bookings: only three handlers can bring one back.  Most look   *)
(* at the status they write over; those that do not, need that what they    *)
(* remember is of a booking that exists, and a party's creation that its    *)
(* children are new.                                                        *)

(* A booking that does not exist yet has no payment, no handler at work on  *)
(* it and no children.                                                      *)
AbsentUnpaid == \A b \in Bookings : status[b] = "ABSENT" => payment[b] = "none"
AbsentIdle == \A j \in jobs : status[j.of] # "ABSENT"
AbsentChildless ==
  \A b, c \in Bookings : status[b] = "ABSENT" /\ Parent[c] = b => status[c] = "ABSENT"

(* The inductive invariant. *)
CInv == TypeOK /\ AbsentUnpaid /\ AbsentIdle /\ AbsentChildless

(* Handlers that write by id what they decided before. *)
Overwriting == Running("freeConfirm") \cup Running("complete") \cup Running("switch")

(* What a step does to the bookings that exist and to those that do not:    *)
(* none ceases to exist, one that comes to exist has a parent that does,    *)
(* and a cancelled one stays so.                                            *)
Lawful ==
  /\ \A x \in Bookings : status'[x] = "ABSENT" => status[x] = "ABSENT" /\ payment'[x] = "none"
  /\ \A j \in jobs' : status'[j.of] # "ABSENT"
  /\ \A x \in Bookings :
       status[x] = "ABSENT" /\ status'[x] # "ABSENT" => status'[Parent[x]] # "ABSENT"
  /\ \A x \in Bookings \ Overwriting : status[x] = "CANCELLED" => status'[x] = "CANCELLED"

(* A job is of a booking, and of one kind. *)
LEMMA JobFields ==
  ASSUME NEW kind, NEW b
  PROVE  Job(kind, b).of = b /\ Job(kind, b).kind = kind
BY DEF Job

(* A handler of the member's desk is lawful. *)
LEMMA MemberLawful ==
  ASSUME CInv, CapacityAssumption, NEW b \in Bookings, Member(b)
  PROVE  Lawful
<1> USE JobFields DEF CInv, TypeOK, CapacityAssumption, AbsentUnpaid, AbsentIdle, Lawful, Overwriting,
        Running, Admit, Slip, Put, SetDeadline, SetPayment, SetIntent, Start, JobRow
<1>1. CASE CreateConfirmed(b)
  BY <1>1 DEF CreateConfirmed, Bookable, Children, AbsentChildless
<1>2. CASE CreateDraft(b)
  BY <1>2 DEF CreateDraft, Bookable
<1>3. CASE JoinWaitlist(b)
  BY <1>3 DEF JoinWaitlist, Bookable
<1>4. ASSUME NEW hold \in BOOLEAN, CreateOnInvoice(b, hold)
      PROVE  Lawful
  BY <1>4 DEF CreateOnInvoice, Bookable
<1>5. ASSUME NEW hold \in BOOLEAN, WriteSwitch(b, hold)
      PROVE  Lawful
  BY <1>5 DEF WriteSwitch
<1>6. CASE ConfirmDraft(b)
  BY <1>6 DEF ConfirmDraft
<1>7. CASE MintIntent(b)
  BY <1>7 DEF MintIntent
<1>8. CASE ReadSwitch(b)
  BY <1>8 DEF ReadSwitch
<1>9. CASE ConfirmOffer(b)
  BY <1>9 DEF ConfirmOffer
<1>10. CASE SettleFreeOffer(b)
  BY <1>10 DEF SettleFreeOffer
<1>11. CASE CancelNoPayment(b)
  BY <1>11 DEF CancelNoPayment, NoPaymentStatus
<1>12. CASE ReadCancel(b)
  BY <1>12 DEF ReadCancel
<1>13. CASE CancelPaid(b)
  BY <1>13 DEF CancelPaid, Orphans, Children, CancellableStatus, NoPaymentStatus
<1>14. CASE CancelOrphan(b)
  BY <1>14 DEF CancelOrphan
<1>15. ASSUME NEW kind, WriteCancel(b, kind)
       PROVE  Lawful
  BY <1>15 DEF WriteCancel, Orphans, Children
<1> QED
  BY <1>1, <1>2, <1>3, <1>4, <1>5, <1>6, <1>7, <1>8, <1>9, <1>10, <1>11, <1>12,
     <1>13, <1>14, <1>15 DEF Member

(* So is one of the admin's. *)
LEMMA AdminLawful ==
  ASSUME CInv, CapacityAssumption, NEW b \in Bookings, Admin(b)
  PROVE  Lawful
<1> USE JobFields DEF CInv, TypeOK, CapacityAssumption, AbsentUnpaid, AbsentIdle, Lawful, Overwriting,
        Running, Admit, Override, Put, SetDeadline, SetPayment, Start
<1>1. CASE HoldRequest(b)
  BY <1>1 DEF HoldRequest
<1>2. CASE ConvertRequest(b)
  BY <1>2 DEF ConvertRequest
<1>3. CASE ApproveReview(b)
  BY <1>3 DEF ApproveReview
<1>4. ASSUME NEW allow \in BOOLEAN, ConfirmPendingGuests(b, allow)
      PROVE  Lawful
  BY <1>4 DEF ConfirmPendingGuests
<1>5. ASSUME NEW allow \in BOOLEAN, ForceConfirm(b, allow)
      PROVE  Lawful
  BY <1>5 DEF ForceConfirm
<1> QED
  BY <1>1, <1>2, <1>3, <1>4, <1>5 DEF Admin

(* So is a payment callback. *)
LEMMA ProviderLawful ==
  ASSUME CInv, CapacityAssumption, NEW b \in Bookings, Provider(b)
  PROVE  Lawful
<1> USE JobFields DEF CInv, TypeOK, CapacityAssumption, AbsentUnpaid, AbsentIdle, Lawful, Overwriting,
        Running, Admit, Slip, Put, SetDeadline, SetPayment, SetIntent, Start
<1>1. CASE Capture(b)
  BY <1>1 DEF Capture
<1>2. CASE MarkPaid(b)
  BY <1>2 DEF MarkPaid, PayableStatus
<1>3. CASE InvoicePaid(b)
  BY <1>3 DEF InvoicePaid
<1>4. CASE ChargeSucceeds(b)
  BY <1>4 DEF ChargeSucceeds, ChargeJobs
<1>5. CASE ChargeFails(b)
  BY <1>5 DEF ChargeFails, ChargeJobs
<1> QED
  BY <1>1, <1>2, <1>3, <1>4, <1>5 DEF Provider

(* So is a scheduled job. *)
LEMMA CronLawful ==
  ASSUME CInv, CapacityAssumption, NEW b \in Bookings, Cron(b)
  PROVE  Lawful
<1> USE JobFields DEF CInv, TypeOK, CapacityAssumption, AbsentUnpaid, AbsentIdle, Lawful, Overwriting,
        Running, Admit, Put, SetDeadline, SetPayment, Start
<1>1. CASE ExpireDraft(b)
  BY <1>1 DEF ExpireDraft
<1>2. CASE ReleaseBankHold(b)
  BY <1>2 DEF ReleaseBankHold
<1>3. CASE ResolveHold(b)
  BY <1>3 DEF ResolveHold
<1>4. CASE ProcessLine(b)
  BY <1>4 DEF ProcessLine, Candidate
<1> QED
  BY <1>1, <1>2, <1>3, <1>4 DEF Cron

(* So are the remaining steps. *)
LEMMA RestLawful ==
  ASSUME CInv, CapacityAssumption,
         \/ ExpireOffers \/ ReadSweep \/ WriteSweep \/ ReadComplete \/ WriteComplete
         \/ Tick \/ Crash
         \/ \E b \in Bookings : PassDeadline(b)
         \/ \E c \in 0 .. MaxBeds : SetCapacity(c)
         \/ UNCHANGED vars
  PROVE  Lawful
<1> USE JobFields DEF CInv, TypeOK, CapacityAssumption, AbsentUnpaid, AbsentIdle, Lawful, Overwriting,
        Running, Start, rows
<1>1. CASE ExpireOffers
  BY <1>1 DEF ExpireOffers
<1>2. CASE ReadSweep
  BY <1>2 DEF ReadSweep
<1>3. CASE WriteSweep
  BY <1>3 DEF WriteSweep
<1>4. CASE ReadComplete
  BY <1>4 DEF ReadComplete
<1>5. CASE WriteComplete
  BY <1>5 DEF WriteComplete
<1>6. CASE Tick \/ Crash
  BY <1>6 DEF Tick, Crash
<1>7. ASSUME NEW b \in Bookings, PassDeadline(b)
      PROVE  Lawful
  BY <1>7 DEF PassDeadline
<1>8. ASSUME NEW c \in 0 .. MaxBeds, SetCapacity(c)
      PROVE  Lawful
  BY <1>8 DEF SetCapacity
<1>9. CASE UNCHANGED vars
  BY <1>9 DEF vars
<1> QED
  BY <1>1, <1>2, <1>3, <1>4, <1>5, <1>6, <1>7, <1>8, <1>9

(* Every step is lawful. *)
LEMMA StepLawful ==
  ASSUME CInv, [Next]_vars
  PROVE  Lawful
BY MemberLawful, AdminLawful, ProviderLawful, CronLawful, RestLawful, CapacityAssumption DEF Next

(* Lawful steps keep the invariant. *)
LEMMA Existence == Spec => []CInv
<1>1. Init => AbsentUnpaid /\ AbsentIdle /\ AbsentChildless
  BY CapacityAssumption DEF Init, AbsentUnpaid, AbsentIdle, AbsentChildless
<1>2. CInv /\ [Next]_vars => AbsentUnpaid' /\ AbsentIdle' /\ AbsentChildless'
  <2> SUFFICES ASSUME CInv, [Next]_vars
               PROVE  AbsentUnpaid' /\ AbsentIdle' /\ AbsentChildless'
    OBVIOUS
  <2>1. Lawful
    BY StepLawful
  <2>2. AbsentUnpaid' /\ AbsentIdle'
    BY <2>1 DEF Lawful, AbsentUnpaid, AbsentIdle
  <2>3. AbsentChildless'
    BY <2>1 DEF Lawful, AbsentChildless, CInv
  <2> QED BY <2>2, <2>3
<1> QED BY <1>1, <1>2, TypeCorrect, PTL DEF Spec, CInv

(* A cancelled booking comes back only through the three handlers that      *)
(* write by id what they decided before it was cancelled.                   *)
THEOREM OnlyThreeRevive == Spec => CancelledStaysCancelled
<1>1. CInv /\ [Next]_vars =>
        \A b \in Bookings \ Overwriting :
          status[b] = "CANCELLED" => status'[b] = "CANCELLED"
  BY StepLawful DEF Lawful
<1> QED BY <1>1, Existence, PTL DEF Spec, CancelledStaysCancelled, Overwriting
=============================================================================
