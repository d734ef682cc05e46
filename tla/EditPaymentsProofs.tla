------------------------- MODULE EditPaymentsProofs -------------------------
(***************************************************************************)
(* What TLAPS proves of EditPayments, for any price, edits, shares and     *)
(* faults: no increase goes missing, money that nobody wants any more is   *)
(* on its way back, and a reduction returns what it owes.  The first two   *)
(* are about where an intent is, and leave the amounts as they are; the    *)
(* last is about how the cents of a divided refund add up.                 *)
(***************************************************************************)
EXTENDS EditPayments, SumTheorems

(* The functions of the state are functions, and their records have fields. *)
RowForms ==
  row = [x \in Intents |-> [status |-> row[x].status, amount |-> row[x].amount,
                            refunded |-> row[x].refunded, rank |-> row[x].rank]]
EditForms ==
  edit = [e \in Refunders |-> [kind |-> edit[e].kind, add |-> edit[e].add,
                               due |-> edit[e].due]]
DebtForms ==
  debt = [a \in Refunders |-> [op |-> debt[a].op, cents |-> debt[a].cents]]
PlanForms ==
  plan = [a \in Refunders |-> plan[a]] /\ togo \in [Refunders -> SUBSET Intents]

Forms == RowForms /\ EditForms /\ DebtForms /\ PlanForms

(* The places, operations and histories are what TypeOK says.               *)
Shapes == PlaceShapes /\ OperationShapes /\ PastShapes /\ status \in {"PAID", "CANCELLED"}

Billing == {"mint", "supersede", "register"}

(* What is known of an edit before its row is written, and after.           *)
Unbilled(e) ==
  /\ row[e].status = "none" /\ row[e].rank = 0 /\ voidOp[e] = "none"
  /\ stripe[e] \in {"none", "open"}

Billed(e) ==
  /\ edit[e].kind = "up" /\ row[e].status # "none" /\ row[e].rank \in Nat \ {0}
  /\ row[e].rank <= Cardinality(Registered)
  /\ at[e] = "done" /\ createOp[e].op # "due" /\ stripe[e] \in {"open", "captured", "void"}

Traced(e) ==
  /\ Unbilled(e) \/ Billed(e)
  /\ at[e] \in Billing =>
       edit[e].kind = "up" /\ row[e].status = "none" /\ createOp[e].op \in {"none", "due"}
  /\ at[e] \in {"supersede", "register"} => stripe[e] = "open"
  /\ at[e] \in {"read", "send", "record"} => edit[e].kind = "card"
  /\ createOp[e].op # "none" => edit[e].kind = "up"
  /\ createOp[e].op = "due" => row[e].status = "none"
  /\ debt[e].op # "none" => edit[e].kind = "card"
  /\ edit[e].kind = "none" => at[e] = "done"
  /\ edit[e].kind = "up" => edit[e].add \in Nat \ {0}

(* Another increase has taken the place of e, and always will have.         *)
Outranks(f, e) ==
  /\ edit[f].kind = "up"
  /\ \/ row[f].rank > row[e].rank \/ at[f] = "register" \/ f \in crashed
     \/ createOp[f].op = "due" /\ createOp[f].since >= row[e].rank

Replaced(e) == \E f \in Edits \ {e} : Outranks(f, e)

(* A bill is withdrawn for another one only.                                *)
Kept(e) ==
  status = "PAID" =>
    /\ voidOp[e] # "none" => Replaced(e)
    /\ stripe[e] = "void" => voidOp[e] # "none"
    /\ edit[e].kind = "up" =>
         at[e] # "done" \/ createOp[e].op = "due" \/ e \in crashed
         \/ row[e].status # "none" \/ Replaced(e)

(* The cancellation's request is never at a bill.                           *)
Desk ==
  /\ at[0] \notin Billing
  /\ at[0] = "teardown" => status = "CANCELLED" /\ \A x \in togo[0] : row[x].status # "none"
  /\ \A e \in Edits : at[e] # "teardown"

(* An event, and what its handler is about to do, follows a payment.        *)
Posted ==
  \A x \in Edits : x \in mail \/ hook[x] # "idle" => x \in mail /\ stripe[x] = "captured"

AllTraced == \A e \in Edits : Traced(e) /\ Kept(e)
BInv == Forms /\ Shapes /\ Desk /\ Posted /\ AllTraced

----------------------------------------------------------------------------
LEMMA RegisteredFinite ==
  IsFiniteSet(Registered) /\ Cardinality(Registered) \in Nat
<1>1. MaxEdits \in Int
  BY EditAssumption
<1>2. IsFiniteSet(Edits)
  BY <1>1, FS_Interval DEF Edits
<1>3. IsFiniteSet(Registered)
  BY <1>2, FS_Subset DEF Registered
<1> QED BY <1>3, FS_CardinalityType

(* A step that bills nothing: no edit is made, no row is begun, no bill is  *)
(* owed or given up, and an intent dies only if it was withdrawn.           *)
Quiet ==
  /\ edit' = edit /\ createOp' = createOp /\ status' = status /\ crashed' = crashed
  /\ \A e \in Edits :
       /\ row'[e].rank = row[e].rank /\ (row'[e].status = "none" <=> row[e].status = "none")
       /\ voidOp'[e] = "none" <=> voidOp[e] = "none"
       /\ stripe'[e] # stripe[e] =>
            /\ row[e].status # "none" /\ stripe'[e] \in {"captured", "void"}
            /\ stripe'[e] = "void" => voidOp[e] # "none" \/ status = "CANCELLED"
       /\ at'[e] = at[e] \/ (at'[e] \notin Billing /\ edit[e].kind = "card")
       /\ debt[e].op = "none" /\ edit[e].kind # "card" => debt'[e].op = "none"

LEMMA QuietKeeps ==
  ASSUME BInv, Quiet, Shapes', Desk'
  PROVE  AllTraced'
<1>1. Registered' = Registered
  BY DEF Quiet, Registered
<1>2. ASSUME NEW e \in Edits, NEW f \in Edits, Outranks(f, e)
      PROVE  Outranks(f, e)'
  BY <1>2 DEF Quiet, Outranks, BInv, Shapes, OperationShapes, PlaceShapes, Billing
<1>3. ASSUME NEW e \in Edits
      PROVE  Traced(e)'
  <2>1. Traced(e)
    BY DEF BInv, AllTraced
  <2> QED BY <1>1, <2>1 DEF Quiet, Traced, Unbilled, Billed, Billing, Shapes, PlaceShapes
<1>4. ASSUME NEW e \in Edits
      PROVE  Kept(e)'
  <2>1. Kept(e) /\ Traced(e)
    BY DEF BInv, AllTraced
  <2>2. Replaced(e) => Replaced(e)'
    BY <1>2 DEF Replaced
  <2> QED BY <2>1, <2>2 DEF Quiet, Kept, Traced, Unbilled, Billed
<1> QED BY <1>3, <1>4 DEF AllTraced

----------------------------------------------------------------------------
(* What the changes of a row do to it.                                      *)
Same(y) ==
  /\ row'[y].status = row[y].status /\ row'[y].amount = row[y].amount
  /\ row'[y].refunded = row[y].refunded /\ row'[y].rank = row[y].rank

LEMMA StatusSet ==
  ASSUME RowForms, NEW x \in Intents, NEW s, row' = [row EXCEPT ![x].status = s]
  PROVE  /\ RowForms' /\ \A y \in Intents \ {x} : Same(y)
         /\ row'[x].status = s /\ row'[x].amount = row[x].amount
         /\ row'[x].refunded = row[x].refunded /\ row'[x].rank = row[x].rank
<1>1. \A y \in Intents : row'[y] = IF y = x THEN [row[x] EXCEPT !.status = s] ELSE row[y]
  BY DEF RowForms
<1>2. row' = [y \in Intents |-> row'[y]]
  BY DEF RowForms
<1>3. [row[x] EXCEPT !.status = s] = [status |-> s, amount |-> row[x].amount,
         refunded |-> row[x].refunded, rank |-> row[x].rank]
  BY DEF RowForms
<1> QED BY <1>1, <1>2, <1>3 DEF RowForms, Same

LEMMA RefundedSet ==
  ASSUME RowForms, NEW x \in Intents, NEW v, row' = [row EXCEPT ![x].refunded = v]
  PROVE  /\ RowForms' /\ \A y \in Intents \ {x} : Same(y)
         /\ row'[x].status = row[x].status /\ row'[x].amount = row[x].amount
         /\ row'[x].refunded = v /\ row'[x].rank = row[x].rank
<1>1. \A y \in Intents : row'[y] = IF y = x THEN [row[x] EXCEPT !.refunded = v] ELSE row[y]
  BY DEF RowForms
<1>2. row' = [y \in Intents |-> row'[y]]
  BY DEF RowForms
<1>3. [row[x] EXCEPT !.refunded = v] = [status |-> row[x].status, amount |-> row[x].amount,
         refunded |-> v, rank |-> row[x].rank]
  BY DEF RowForms
<1> QED BY <1>1, <1>2, <1>3 DEF RowForms, Same

LEMMA Settled ==
  ASSUME RowForms, NEW x \in Intents, NEW v, SettleRow(x, v)
  PROVE  /\ RowForms' /\ \A y \in Intents \ {x} : Same(y)
         /\ row'[x].status = "SUCCEEDED" /\ row'[x].amount = row[x].amount
         /\ row'[x].refunded = v /\ row'[x].rank = row[x].rank
<1>1. \A y \in Intents : row'[y] = IF y = x THEN With(x, "SUCCEEDED", v) ELSE row[y]
  BY DEF RowForms, SettleRow
<1>2. row' = [y \in Intents |-> row'[y]]
  BY DEF RowForms, SettleRow
<1> QED BY <1>1, <1>2 DEF RowForms, Same, With

LEMMA RowsUnchanged ==
  ASSUME RowForms, row' = row
  PROVE  RowForms' /\ \A y \in Intents : Same(y)
BY DEF RowForms, Same

----------------------------------------------------------------------------
(* Every step keeps the shapes.                                             *)

RefundStep(a) ==
  \/ ReadRows(a) \/ FinishRefund(a) \/ Replay(a)
  \/ \E x \in Intents : SendSlice(a, x) \/ RecordSlice(a, x)

LEMMA CommitShapes ==
  ASSUME Shapes, NEW e \in Edits, NEW cents, NEW s,
         \/ CommitIncrease(e, cents) \/ CommitCardReduction(e, cents, s)
         \/ CommitCreditReduction(e, cents, s)
  PROVE  Shapes'
<1>1. PICK kind, c : \E place \in {"mint", "read", "done"} : Commit(e, kind, c, place)
  BY DEF CommitIncrease, CommitCardReduction, CommitCreditReduction
<1>2. PlaceShapes'
  BY <1>1 DEF Commit, Goto, events, Shapes, PlaceShapes, Edits, Refunders
<1>3. OperationShapes' /\ status' = status
  BY <1>1 DEF Commit, ops, Shapes, OperationShapes
<1>4. borrowed' \subseteq Intents
  BY DEF CommitIncrease, CommitCardReduction, CommitCreditReduction, AllocateLocally, Borrows,
         Planned, Shapes, PastShapes
<1>5. PastShapes'
  BY <1>1, <1>4 DEF Commit, events, Shapes, PastShapes
<1> QED BY <1>2, <1>3, <1>5 DEF Shapes

LEMMA RefundShapes ==
  ASSUME Shapes, NEW a \in Refunders,
         RefundStep(a)
  PROVE  Shapes'
<1>1. at' \in [Refunders -> {"done", "mint", "supersede", "register", "read", "send",
                            "record", "teardown"}]
  BY DEF RefundStep, ReadRows, SendSlice, RecordSlice, FinishRefund, Replay, BeginRefund, Owe, FailSend, Goto,
         Shapes, PlaceShapes
<1>2. UNCHANGED <<ops, events, status, stripe>>
  BY DEF RefundStep, ReadRows, SendSlice, RecordSlice, FinishRefund, Replay, booking
<1>3. PlaceShapes' /\ OperationShapes' /\ status' = status
  BY <1>1, <1>2 DEF ops, events, Shapes, PlaceShapes, OperationShapes
<1>4. borrowed' \subseteq Intents
  BY DEF RefundStep, ReadRows, SendSlice, RecordSlice, FinishRefund, Replay, BeginRefund, Borrows, Planned,
         past, Shapes, PastShapes
<1>5. unheard' \subseteq Refunders
  BY DEF RefundStep, ReadRows, SendSlice, RecordSlice, FinishRefund, Replay, past, Shapes, PastShapes
<1>6. faults' \in 0..MaxFaults
  BY EditAssumption
     DEF RefundStep, ReadRows, SendSlice, RecordSlice, FinishRefund, Replay, Fault, Shapes, PastShapes
<1>7. UNCHANGED <<mail, counted, crashed, reminted, short, repeated, raced>>
  BY <1>2 DEF RefundStep, ReadRows, SendSlice, RecordSlice, FinishRefund, Replay, past, events
<1>8. PastShapes'
  BY <1>4, <1>5, <1>6, <1>7 DEF Shapes, PastShapes
<1> QED BY <1>3, <1>8 DEF Shapes

LEMMA PlanShapes ==
  ASSUME Shapes, NEW e \in Edits, FreezePlan(e)
  PROVE  Shapes'
<1>1. e \in Refunders
  BY DEF Edits, Refunders
<1>2. PlaceShapes'
  BY <1>1 DEF FreezePlan, Goto, events, Shapes, PlaceShapes
<1>3. OperationShapes' /\ status' = status
  BY DEF FreezePlan, ops, booking, Shapes, OperationShapes
<1>4. PastShapes'
  BY DEF FreezePlan, events, Shapes, PastShapes
<1> QED BY <1>2, <1>3, <1>4 DEF Shapes

LEMMA BillShapes ==
  ASSUME Shapes, NEW e \in Edits,
         MintIntent(e) \/ Supersede(e) \/ Register(e) \/ ResumeIntent(e)
  PROVE  Shapes'
<1>0. e \in Refunders /\ e \in Intents
  BY DEF Edits, Refunders, Intents
<1>1. Cardinality(Registered) \in Nat
  BY RegisteredFinite
<1>2. PlaceShapes'
  BY <1>0 DEF MintIntent, Supersede, Register, ResumeIntent, Postpone, Goto, events, Shapes,
     PlaceShapes
<1>3. createOp' \in [Edits -> [op : Operations, since : Nat]]
  <2>1. \A v \in Operations : [createOp EXCEPT ![e].op = v] \in [Edits -> [op : Operations, since : Nat]]
    BY DEF Shapes, OperationShapes
  <2>2. [createOp EXCEPT ![e] = [op |-> "due", since |-> Cardinality(Registered)]]
           \in [Edits -> [op : Operations, since : Nat]]
    BY <1>1 DEF Shapes, OperationShapes, Operations
  <2>3. createOp \in [Edits -> [op : Operations, since : Nat]]
    BY DEF Shapes, OperationShapes
  <2>4. createOp' \in {createOp, [createOp EXCEPT ![e].op = "done"],
                      [createOp EXCEPT ![e] = [op |-> "due", since |-> Cardinality(Registered)]]}
    BY DEF MintIntent, Supersede, Register, ResumeIntent, Postpone
  <2> QED BY <2>1, <2>2, <2>3, <2>4 DEF Operations
<1>4. OperationShapes' /\ status' = status
  BY <1>0, <1>3 DEF MintIntent, Supersede, Register, ResumeIntent, Operations, ops, booking, Shapes,
     OperationShapes
<1>5. faults' \in 0..MaxFaults
  BY EditAssumption DEF MintIntent, Supersede, Register, ResumeIntent, Fault, Shapes, PastShapes
<1>6. crashed' \subseteq Edits
  BY DEF MintIntent, Supersede, Register, ResumeIntent, past, Shapes, PastShapes
<1>7. PastShapes'
  BY <1>5, <1>6 DEF MintIntent, Supersede, Register, ResumeIntent, events, past, Shapes, PastShapes
<1> QED BY <1>2, <1>4, <1>7 DEF Shapes

LEMMA CrashShapes ==
  ASSUME Shapes, NEW a \in Refunders, Crash(a)
  PROVE  Shapes'
<1>1. PlaceShapes'
  BY DEF Crash, Goto, events, Shapes, PlaceShapes
<1>2. OperationShapes' /\ status' = status
  BY DEF Crash, ops, booking, Shapes, OperationShapes
<1>3. PastShapes'
  BY EditAssumption DEF Crash, Fault, events, Shapes, PastShapes
<1> QED BY <1>1, <1>2, <1>3 DEF Shapes

LEMMA PaymentShapes ==
  ASSUME Shapes, NEW x \in Edits,
         \/ Pay(x) \/ Decline(x) \/ Confirm(x) \/ ReadEvent(x) \/ MarkPaid(x)
         \/ ReturnLate(x) \/ VoidIntent(x) \/ ReturnWithdrawn(x)
  PROVE  Shapes'
<1>0. x \in Intents
  BY DEF Edits, Intents
<1>1. stripe' \in [Intents -> {"none", "open", "captured", "void"}]
  BY <1>0 DEF Pay, Decline, Confirm, ReadEvent, MarkPaid, ReturnLate, VoidIntent, ReturnWithdrawn,
     Shapes, PlaceShapes
<1>2. hook' \in [Intents -> {"idle", "mark", "late"}]
  BY <1>0 DEF Pay, Decline, Confirm, ReadEvent, MarkPaid, ReturnLate, VoidIntent, ReturnWithdrawn,
     Handled, events, Shapes, PlaceShapes
<1>3. PlaceShapes'
  BY <1>1, <1>2 DEF Pay, Decline, Confirm, ReadEvent, MarkPaid, ReturnLate, VoidIntent,
     ReturnWithdrawn, Shapes, PlaceShapes
<1>4. voidOp' \in [Intents -> Operations] /\ backOp' \in [Intents -> Operations]
  BY <1>0 DEF Pay, Decline, Confirm, ReadEvent, MarkPaid, ReturnLate, VoidIntent, ReturnWithdrawn,
     HandOff, ops, Operations, Shapes, OperationShapes
<1>5. OperationShapes' /\ status' = status
  BY <1>4 DEF Pay, Decline, Confirm, ReadEvent, MarkPaid, ReturnLate, VoidIntent,
     ReturnWithdrawn, ops, booking, Shapes, OperationShapes
<1>6. mail' \subseteq Edits /\ raced' \subseteq Edits
  BY DEF Pay, Decline, Confirm, ReadEvent, MarkPaid, ReturnLate, VoidIntent, ReturnWithdrawn,
     Handled, events, past, Shapes, PastShapes
<1>7. faults' \in 0..MaxFaults
  BY EditAssumption DEF Pay, Decline, Confirm, ReadEvent, MarkPaid, ReturnLate, VoidIntent,
     ReturnWithdrawn, Fault, Shapes, PastShapes
<1>8. PastShapes'
  BY <1>6, <1>7 DEF Pay, Decline, Confirm, ReadEvent, MarkPaid, ReturnLate, VoidIntent,
     ReturnWithdrawn, past, Shapes, PastShapes
<1> QED BY <1>3, <1>5, <1>8 DEF Shapes

LEMMA OtherShapes ==
  ASSUME Shapes,
         \/ \E way \in {"card", "credit"}, s \in Shares : Cancel(way, s)
         \/ TearDown
         \/ \E x \in Intents : SyncRefunds(x)
         \/ UNCHANGED vars
  PROVE  Shapes'
<1>0. 0 \in Refunders
  BY EditAssumption DEF Refunders
<1>1. CASE \E way \in {"card", "credit"}, s \in Shares : Cancel(way, s)
  <2>1. PICK way \in {"card", "credit"}, s \in Shares : Cancel(way, s)
    BY <1>1
  <2>2. PlaceShapes'
    BY <1>0, <2>1 DEF Cancel, Goto, events, Shapes, PlaceShapes
  <2>3. OperationShapes' /\ status' = "CANCELLED"
    BY <2>1 DEF Cancel, Operations, Shapes, OperationShapes
  <2>4. PastShapes'
    BY <2>1 DEF Cancel, Captured, Borrows, Planned, events, Shapes, PastShapes
  <2> QED BY <2>2, <2>3, <2>4 DEF Shapes
<1>2. CASE TearDown
  <2>1. PlaceShapes'
    BY <1>0, <1>2 DEF TearDown, Goto, events, Shapes, PlaceShapes
  <2>2. OperationShapes' /\ status' = status
    BY <1>2 DEF TearDown, ops, booking, Shapes, OperationShapes
  <2>3. PastShapes'
    BY <1>2, EditAssumption DEF TearDown, Fault, past, events, Shapes, PastShapes
  <2> QED BY <2>1, <2>2, <2>3 DEF Shapes
<1>3. CASE (\E x \in Intents : SyncRefunds(x)) \/ UNCHANGED vars
  <2>1. UNCHANGED <<booking, at, stripe, ops, events, past, faults>>
    BY <1>3 DEF SyncRefunds, vars
  <2>2. PlaceShapes'
    BY <2>1 DEF events, Shapes, PlaceShapes
  <2>3. OperationShapes' /\ status' = status
    BY <2>1 DEF ops, booking, Shapes, OperationShapes
  <2>4. PastShapes'
    BY <2>1 DEF past, events, Shapes, PastShapes
  <2> QED BY <2>2, <2>3, <2>4 DEF Shapes
<1> QED BY <1>1, <1>2, <1>3

LEMMA StepShapes ==
  ASSUME Shapes, [Next]_vars
  PROVE  Shapes'
BY CommitShapes, RefundShapes, PlanShapes, BillShapes, CrashShapes, PaymentShapes, OtherShapes,
   ZenonT(60) DEF Next, RefundStep

----------------------------------------------------------------------------
(* Every step keeps the forms.                                              *)

LEMMA EditFormsKept ==
  ASSUME EditForms, [Next]_vars
  PROVE  EditForms'
<1>1. CASE \E e \in Edits : \E kind, add, due :
             edit' = [edit EXCEPT ![e] = [kind |-> kind, add |-> add, due |-> due]]
  <2>0. PICK e \in Edits : \E kind, add, due :
          edit' = [edit EXCEPT ![e] = [kind |-> kind, add |-> add, due |-> due]]
    BY <1>1
  <2>1. PICK kind, add, due :
          edit' = [edit EXCEPT ![e] = [kind |-> kind, add |-> add, due |-> due]]
    BY <2>0
  <2>2. \A f \in Refunders : edit'[f] = IF f = e THEN [kind |-> kind, add |-> add, due |-> due]
                                        ELSE edit[f]
    BY <2>1 DEF EditForms
  <2>3. edit' = [f \in Refunders |-> edit'[f]]
    BY <2>1 DEF EditForms
  <2> QED BY <2>2, <2>3 DEF EditForms
<1>2. CASE edit' = edit
  BY <1>2 DEF EditForms
<1>3. ASSUME NEW e \in Edits, NEW cents, NEW s,
             \/ CommitIncrease(e, cents) \/ CommitCardReduction(e, cents, s)
             \/ CommitCreditReduction(e, cents, s)
      PROVE  \E kind, add, due :
               edit' = [edit EXCEPT ![e] = [kind |-> kind, add |-> add, due |-> due]]
  BY <1>3 DEF CommitIncrease, CommitCardReduction, CommitCreditReduction
<1>4. \/ \E e \in Edits, cents \in Ups : CommitIncrease(e, cents)
      \/ \E e \in Edits, cents \in Downs, s \in Shares :
           CommitCardReduction(e, cents, s) \/ CommitCreditReduction(e, cents, s)
      \/ edit' = edit
  BY ZenonT(60) DEF Next, Cancel, TearDown, ReadRows, SendSlice, RecordSlice, FinishRefund, Replay, Crash,
     FreezePlan, MintIntent, Supersede, Register, ResumeIntent, Pay, Decline, Confirm, ReadEvent,
     MarkPaid, ReturnLate, VoidIntent, ReturnWithdrawn, SyncRefunds, booking, vars
<1> QED BY <1>1, <1>2, <1>3, <1>4

LEMMA DebtSet ==
  ASSUME DebtForms, NEW a \in Refunders, NEW v, debt' = [debt EXCEPT ![a].op = v]
  PROVE  /\ DebtForms' /\ debt'[a].op = v
         /\ \A b \in Refunders \ {a} : debt'[b] = debt[b]
<1>1. \A b \in Refunders : debt'[b] = IF b = a THEN [debt[a] EXCEPT !.op = v] ELSE debt[b]
  BY DEF DebtForms
<1>2. debt' = [b \in Refunders |-> debt'[b]]
  BY DEF DebtForms
<1>3. [debt[a] EXCEPT !.op = v] = [op |-> v, cents |-> debt[a].cents]
  BY DEF DebtForms
<1> QED BY <1>1, <1>2, <1>3 DEF DebtForms

LEMMA DebtWritten ==
  ASSUME DebtForms, NEW a \in Refunders, NEW v, NEW c,
         debt' = [debt EXCEPT ![a] = [op |-> v, cents |-> c]]
  PROVE  /\ DebtForms' /\ debt'[a].op = v
         /\ \A b \in Refunders \ {a} : debt'[b] = debt[b]
<1>1. \A b \in Refunders : debt'[b] = IF b = a THEN [op |-> v, cents |-> c] ELSE debt[b]
  BY DEF DebtForms
<1>2. debt' = [b \in Refunders |-> debt'[b]]
  BY DEF DebtForms
<1> QED BY <1>1, <1>2 DEF DebtForms

LEMMA OweEffect ==
  ASSUME DebtForms, NEW a \in Refunders, NEW c, Owe(a, c)
  PROVE  /\ DebtForms' /\ \A b \in Refunders \ {a} : debt'[b] = debt[b]
         /\ debt[a].op # "none" => debt'[a] = debt[a]
         /\ debt'[a].op \in {debt[a].op, "due"}
<1>1. CASE debt[a].op = "none" /\ c > 0
  BY <1>1, DebtWritten DEF Owe
<1>2. CASE ~(debt[a].op = "none" /\ c > 0)
  BY <1>2 DEF Owe, DebtForms
<1> QED BY <1>1, <1>2

(* What the refund steps of a do to its own debt, and to no other.          *)
LEMMA RefundDebts ==
  ASSUME DebtForms, NEW a \in Refunders,
         RefundStep(a) \/ FreezePlan(a)
  PROVE  DebtForms' /\ \A b \in Refunders \ {a} : debt'[b] = debt[b]
<1>1. CASE debt' = debt
  BY <1>1 DEF DebtForms
<1>2. CASE \E v : debt' = [debt EXCEPT ![a].op = v]
  BY <1>2, DebtSet
<1>3. CASE \E c : Owe(a, c)
  BY <1>3, OweEffect
<1>4. debt' = debt \/ (\E v : debt' = [debt EXCEPT ![a].op = v]) \/ (\E c : Owe(a, c))
  BY DEF RefundStep, ReadRows, SendSlice, RecordSlice, FinishRefund, Replay, FreezePlan, FailSend
<1> QED BY <1>1, <1>2, <1>3, <1>4

LEMMA DebtFormsKept ==
  ASSUME DebtForms, [Next]_vars
  PROVE  DebtForms'
<1>1. CASE \E a \in Refunders : RefundStep(a) \/ FreezePlan(a)
  BY <1>1, RefundDebts
<1>2. CASE \E way \in {"card", "credit"}, s \in Shares : Cancel(way, s)
  <2>1. 0 \in Refunders
    BY EditAssumption DEF Refunders
  <2>2. debt' = debt \/ \E c : debt' = [debt EXCEPT ![0] = [op |-> "frozen", cents |-> c]]
    BY <1>2 DEF Cancel
  <2> QED BY <2>1, <2>2, DebtWritten DEF DebtForms
<1>3. CASE debt' = debt
  BY <1>3 DEF DebtForms
<1>4. Edits \subseteq Refunders
  BY DEF Edits, Refunders
<1>5. \/ \E a \in Refunders : RefundStep(a) \/ FreezePlan(a)
      \/ \E way \in {"card", "credit"}, s \in Shares : Cancel(way, s)
      \/ debt' = debt
  BY <1>4, ZenonT(60) DEF Next, RefundStep, CommitIncrease, CommitCardReduction,
     CommitCreditReduction, Commit, TearDown, Crash, MintIntent, Supersede, Register, ResumeIntent, Pay, Decline, Confirm,
     ReadEvent, MarkPaid, ReturnLate, VoidIntent, ReturnWithdrawn, SyncRefunds, vars
<1> QED BY <1>1, <1>2, <1>3, <1>5

LEMMA PlanFormsKept ==
  ASSUME PlanForms, [Next]_vars
  PROVE  PlanForms'
<1>0. 0 \in Refunders /\ Edits \subseteq Refunders /\ Edits \subseteq Intents
  BY EditAssumption DEF Refunders, Edits, Intents
<1>1. CASE \E a \in Refunders : ReadRows(a) \/ \E x \in Intents : RecordSlice(a, x)
  BY <1>1 DEF ReadRows, RecordSlice, BeginRefund, Planned, work, PlanForms
<1>2. CASE \E e \in Edits : FreezePlan(e)
  BY <1>0, <1>2 DEF FreezePlan, PlanForms
<1>3. CASE \E way \in {"card", "credit"}, s \in Shares : Cancel(way, s)
  <2>1. Outstanding \subseteq Intents
    BY <1>0 DEF Outstanding, Newest, Registered
  <2> QED BY <1>0, <1>3, <2>1 DEF Cancel, PlanForms
<1>4. CASE UNCHANGED work
  BY <1>4 DEF work, PlanForms
<1>5. \/ \E a \in Refunders : ReadRows(a) \/ \E x \in Intents : RecordSlice(a, x)
      \/ \E e \in Edits : FreezePlan(e)
      \/ \E way \in {"card", "credit"}, s \in Shares : Cancel(way, s)
      \/ UNCHANGED work
  BY ZenonT(60) DEF Next, CommitIncrease, CommitCardReduction, CommitCreditReduction, Commit,
     TearDown, Crash, SendSlice, FinishRefund, Replay, MintIntent, Supersede, Register, ResumeIntent,
     Pay, Decline, Confirm, ReadEvent, MarkPaid, ReturnLate, VoidIntent, ReturnWithdrawn,
     SyncRefunds, vars
<1> QED BY <1>1, <1>2, <1>3, <1>4, <1>5

----------------------------------------------------------------------------
(* The quiet steps.                                                         *)
RowQuiet ==
  /\ RowForms'
  /\ \A y \in Intents :
       row'[y].rank = row[y].rank /\ (row'[y].status = "none" <=> row[y].status = "none")

LEMMA RowQuietSteps ==
  ASSUME RowForms,
         \/ row' = row
         \/ \E x \in Intents : \E s : row[x].status # "none" /\ s # "none" /\ SetRow(x, s)
         \/ \E x \in Intents : \E c : row[x].status # "none" /\ SettleRow(x, c)
         \/ \E r, c : r.of \in Intents /\ Record(r, c)
  PROVE  RowQuiet
<1>1. CASE row' = row
  BY <1>1, RowsUnchanged DEF RowQuiet, Same
<1>2. CASE \E x \in Intents : \E s : row[x].status # "none" /\ s # "none" /\ SetRow(x, s)
  <2>0. PICK x \in Intents : \E s : row[x].status # "none" /\ s # "none" /\ SetRow(x, s)
    BY <1>2
  <2>1. PICK s : row[x].status # "none" /\ s # "none" /\ SetRow(x, s)
    BY <2>0
  <2>2. RowForms' /\ \A y \in Intents \ {x} : Same(y)
    BY <2>1, StatusSet DEF SetRow
  <2>3. row'[x].status = s /\ row'[x].rank = row[x].rank
    BY <2>1, StatusSet DEF SetRow
  <2> QED BY <2>1, <2>2, <2>3 DEF RowQuiet, Same
<1>3. CASE \E x \in Intents : \E c : row[x].status # "none" /\ SettleRow(x, c)
  BY <1>3, Settled DEF RowQuiet, Same
<1>4. CASE \E r, c : r.of \in Intents /\ Record(r, c)
  <2>1. PICK r, c : r.of \in Intents /\ Record(r, c)
    BY <1>4
  <2>2. PICK v : row' = [row EXCEPT ![r.of].refunded = v]
    BY <2>1 DEF Record
  <2>3. RowForms' /\ \A y \in Intents \ {r.of} : Same(y)
    BY <2>1, <2>2, RefundedSet
  <2>4. row'[r.of].status = row[r.of].status /\ row'[r.of].rank = row[r.of].rank
    BY <2>1, <2>2, RefundedSet
  <2> QED BY <2>3, <2>4 DEF RowQuiet, Same
<1> QED BY <1>1, <1>2, <1>3, <1>4

LEMMA RefundQuiet ==
  ASSUME BInv, NEW a \in Refunders,
         RefundStep(a) \/ (a \in Edits /\ FreezePlan(a))
  PROVE  RowQuiet /\ Quiet /\ Desk'
<1>1. UNCHANGED <<edit, createOp, status, crashed, voidOp, stripe>>
  BY DEF RefundStep, ReadRows, SendSlice, RecordSlice, FinishRefund, Replay, FreezePlan, booking, ops, past
<1>2. RowQuiet
  <2>1. CASE row' = row
    BY <2>1, RowQuietSteps DEF BInv, Forms
  <2>2. CASE \E x \in Intents : RecordSlice(a, x) /\ row' # row
    <3>1. PICK x \in Intents : RecordSlice(a, x) /\ row' # row
      BY <2>2
    <3>2. Record(Key(a, x), seen[a][x]) /\ Key(a, x).of \in Intents
      BY <3>1 DEF RecordSlice, Key
    <3> QED BY <3>2, RowQuietSteps DEF BInv, Forms
  <2> QED BY <2>1, <2>2 DEF RefundStep, ReadRows, SendSlice, RecordSlice, FinishRefund, Replay, FreezePlan
<1>3. DebtForms' /\ \A b \in Refunders \ {a} : debt'[b] = debt[b]
  BY RefundDebts DEF BInv, Forms
<1>4. at[a] \in {"read", "send", "record"} \/ (at[a] = "done" /\ debt[a].op # "none")
  BY DEF RefundStep, ReadRows, SendSlice, RecordSlice, FinishRefund, Replay, FreezePlan
<1>5. /\ \A b \in Refunders \ {a} : at'[b] = at[b]
      /\ at'[a] \in {"read", "send", "record", "done"}
  BY DEF RefundStep, ReadRows, SendSlice, RecordSlice, FinishRefund, Replay, FreezePlan, BeginRefund, Owe,
     FailSend, Goto, BInv, Shapes, PlaceShapes
<1>6. \A b \in Refunders \ {a} : togo'[b] = togo[b]
  BY DEF RefundStep, ReadRows, SendSlice, RecordSlice, FinishRefund, Replay, FreezePlan, BeginRefund, work, BInv,
     Forms, PlanForms
<1>7. Edits \subseteq Refunders /\ Edits \subseteq Intents /\ 0 \in Refunders /\ 0 \notin Edits
  BY EditAssumption DEF Edits, Refunders, Intents
<1>8. a \in Edits => edit[a].kind = "card"
  BY <1>4 DEF BInv, AllTraced, Traced
<1>9. Quiet
  BY <1>1, <1>2, <1>3, <1>5, <1>7, <1>8 DEF Quiet, RowQuiet, Billing
<1>10. Desk'
  <2>1. \A x \in togo[0] : x \in Intents
    BY <1>7 DEF BInv, Forms, PlanForms
  <2> QED BY <1>1, <1>2, <1>5, <1>6, <1>7, <2>1 DEF BInv, Desk, RowQuiet, Billing
<1> QED BY <1>2, <1>9, <1>10

LEMMA PaymentRows ==
  ASSUME BInv, NEW x \in Edits,
         \/ Pay(x) \/ Decline(x) \/ Confirm(x) \/ ReadEvent(x) \/ MarkPaid(x)
         \/ ReturnLate(x) \/ VoidIntent(x) \/ ReturnWithdrawn(x)
  PROVE  RowQuiet
<1>0. x \in Intents
  BY DEF Edits, Intents
<1>1. Traced(x)
  BY DEF BInv, AllTraced
<1>2. (x \in mail \/ hook[x] # "idle" \/ voidOp[x] # "none") => row[x].status # "none"
  BY <1>1 DEF BInv, Posted, Traced, Unbilled, Billed
<1>3. CASE Pay(x)
  BY <1>3, RowQuietSteps DEF Pay, BInv, Forms
<1>4. CASE Decline(x)
  <2>1. row[x].status # "none" /\ SetRow(x, "FAILED")
    BY <1>4 DEF Decline
  <2> QED BY <1>0, <2>1, RowQuietSteps DEF BInv, Forms
<1>5. CASE Confirm(x)
  <2>1. row[x].status # "none" /\ SetRow(x, "SUCCEEDED")
    BY <1>5 DEF Confirm, Newest, Registered
  <2> QED BY <1>0, <2>1, RowQuietSteps DEF BInv, Forms
<1>6. CASE ReadEvent(x)
  <2>1. row[x].status # "none" /\ (row' = row \/ SetRow(x, "SUCCEEDED"))
    BY <1>2, <1>6 DEF ReadEvent, HandOff
  <2> QED BY <1>0, <2>1, RowQuietSteps DEF BInv, Forms
<1>7. CASE MarkPaid(x)
  <2>1. row[x].status # "none" /\ SetRow(x, "SUCCEEDED")
    BY <1>2, <1>7 DEF MarkPaid
  <2> QED BY <1>0, <2>1, RowQuietSteps DEF BInv, Forms
<1>8. CASE ReturnLate(x)
  <2>1. row[x].status # "none" /\ (SettleRow(x, row[x].amount) \/ SetRow(x, "SUCCEEDED"))
    BY <1>2, <1>8 DEF ReturnLate
  <2> QED BY <1>0, <2>1, RowQuietSteps DEF BInv, Forms
<1>9. CASE VoidIntent(x)
  <2>1. row[x].status # "none" /\ (row' = row \/ SetRow(x, "FAILED") \/ SetRow(x, "SUCCEEDED"))
    BY <1>2, <1>9 DEF VoidIntent, HandOff, SetRow
  <2> QED BY <1>0, <2>1, RowQuietSteps DEF BInv, Forms
<1>10. CASE ReturnWithdrawn(x)
  <2>1. row' = row \/ (Back(x).of \in Intents /\ Record(Back(x), row[x].refunded))
    BY <1>0, <1>10 DEF ReturnWithdrawn, Back
  <2> QED BY <2>1, RowQuietSteps DEF BInv, Forms
<1> QED BY <1>3, <1>4, <1>5, <1>6, <1>7, <1>8, <1>9, <1>10

LEMMA OtherRows ==
  ASSUME BInv, TearDown \/ (\E x \in Intents : SyncRefunds(x)) \/ UNCHANGED vars
  PROVE  RowQuiet
<1>1. row' = row \/ \E x \in Intents : \E c : row[x].status # "none" /\ SettleRow(x, c)
  BY DEF TearDown, SyncRefunds, vars
<1> QED BY <1>1, RowQuietSteps DEF BInv, Forms

LEMMA PaymentQuiet ==
  ASSUME BInv, NEW x \in Edits,
         \/ Pay(x) \/ Decline(x) \/ Confirm(x) \/ ReadEvent(x) \/ MarkPaid(x)
         \/ ReturnLate(x) \/ VoidIntent(x) \/ ReturnWithdrawn(x)
  PROVE  Quiet /\ Desk'
<1>0. x \in Intents /\ Edits \subseteq Intents /\ 0 \in Intents /\ 0 \in Refunders
  BY EditAssumption DEF Edits, Intents, Refunders
<1>1. RowQuiet
  BY PaymentRows
<1>2. UNCHANGED <<edit, createOp, status, crashed, at, debt, togo>>
  BY DEF Pay, Decline, Confirm, ReadEvent, MarkPaid, ReturnLate, VoidIntent, ReturnWithdrawn,
     booking, ops, past, work
<1>3. \A e \in Edits : voidOp'[e] = "none" <=> voidOp[e] = "none"
  BY <1>0 DEF Pay, Decline, Confirm, ReadEvent, MarkPaid, ReturnLate, VoidIntent, ReturnWithdrawn,
     HandOff, ops, BInv, Shapes, OperationShapes
<1>4. Traced(x)
  BY DEF BInv, AllTraced
<1>5. \A e \in Edits : stripe'[e] # stripe[e] =>
        /\ row[e].status # "none" /\ stripe'[e] \in {"captured", "void"}
        /\ stripe'[e] = "void" => voidOp[e] # "none"
  BY <1>0, <1>4 DEF Pay, Decline, Confirm, ReadEvent, MarkPaid, ReturnLate, VoidIntent,
     ReturnWithdrawn, Traced, Unbilled, Billed, BInv, Shapes, PlaceShapes
<1>6. Quiet
  BY <1>0, <1>1, <1>2, <1>3, <1>5 DEF Quiet, RowQuiet
<1>7. togo[0] \subseteq Intents
  BY <1>0 DEF BInv, Forms, PlanForms
<1>8. Desk'
  BY <1>1, <1>2, <1>7 DEF BInv, Desk, RowQuiet
<1> QED BY <1>6, <1>8

LEMMA OtherQuiet ==
  ASSUME BInv, TearDown \/ (\E x \in Intents : SyncRefunds(x)) \/ UNCHANGED vars
  PROVE  Quiet /\ Desk'
<1>0. Edits \subseteq Intents /\ Edits \subseteq Refunders /\ 0 \in Refunders /\ 0 \notin Edits
  BY EditAssumption DEF Edits, Intents, Refunders
<1>1. RowQuiet
  BY OtherRows
<1>2. UNCHANGED <<edit, createOp, status, crashed, voidOp, debt, togo>>
  BY DEF TearDown, SyncRefunds, vars, booking, ops, past, work
<1>3. /\ \A e \in Edits : at'[e] = at[e]
      /\ at'[0] = at[0] \/ at'[0] \in {"read", "done"}
  BY <1>0 DEF TearDown, SyncRefunds, vars, Goto, BInv, Shapes, PlaceShapes
<1>4. \A e \in Edits : stripe'[e] # stripe[e] =>
        /\ row[e].status # "none" /\ stripe'[e] = "void" /\ status = "CANCELLED"
  BY <1>0 DEF TearDown, SyncRefunds, vars, BInv, Desk
<1>5. Quiet
  BY <1>0, <1>1, <1>2, <1>3, <1>4 DEF Quiet, RowQuiet
<1>6. togo[0] \subseteq Intents
  BY <1>0 DEF BInv, Forms, PlanForms
<1>7. Desk'
  BY <1>0, <1>1, <1>2, <1>3, <1>6 DEF BInv, Desk, RowQuiet, Billing
<1> QED BY <1>5, <1>7

----------------------------------------------------------------------------
(* The steps that bill: an edit, and what becomes of its intent.            *)

(* Nothing changes but at one edit, and ranks and statuses stay.            *)
Elsewhere(e) ==
  /\ RowQuiet /\ UNCHANGED <<status, voidOp, togo>> /\ at'[0] = at[0]
  /\ at'[e] # "teardown"
  /\ \A f \in Edits \ {e} :
       /\ edit'[f] = edit[f] /\ at'[f] = at[f] /\ createOp'[f] = createOp[f]
       /\ stripe'[f] = stripe[f] /\ debt'[f] = debt[f]
       /\ f \in crashed' <=> f \in crashed

LEMMA ElsewhereKeeps ==
  ASSUME BInv, NEW e \in Edits, Elsewhere(e), Traced(e)', Kept(e)',
         \A f \in Edits \ {e} : Outranks(e, f) => Outranks(e, f)'
  PROVE  Desk' /\ AllTraced'
<1>0. Edits \subseteq Intents /\ Edits \subseteq Refunders /\ 0 \notin Edits /\ 0 \in Refunders
  BY EditAssumption DEF Edits, Intents, Refunders
<1>1. Registered' = Registered
  BY <1>0 DEF Elsewhere, RowQuiet, Registered
<1>2. ASSUME NEW f \in Edits, NEW g \in Edits, g # f, Outranks(g, f)
      PROVE  Outranks(g, f)'
  BY <1>0, <1>2 DEF Elsewhere, RowQuiet, Outranks
<1>3. ASSUME NEW f \in Edits \ {e}
      PROVE  Traced(f)' /\ Kept(f)'
  <2>1. Traced(f) /\ Kept(f)
    BY DEF BInv, AllTraced
  <2>2. Replaced(f) => Replaced(f)'
    BY <1>2 DEF Replaced
  <2>3. Traced(f)'
    BY <1>0, <1>1, <1>3, <2>1 DEF Elsewhere, RowQuiet, Traced, Unbilled, Billed
  <2>4. Kept(f)'
    BY <1>0, <1>3, <2>1, <2>2 DEF Elsewhere, RowQuiet, Kept
  <2> QED BY <2>3, <2>4
<1>4. AllTraced'
  BY <1>3 DEF AllTraced
<1>5. togo[0] \subseteq Intents
  BY <1>0 DEF BInv, Forms, PlanForms
<1>6. Desk'
  BY <1>0, <1>5 DEF Elsewhere, RowQuiet, BInv, Desk
<1> QED BY <1>4, <1>6

LEMMA LocalRows ==
  ASSUME RowForms, NEW p, AllocateLocally(p)
  PROVE  RowQuiet
<1>1. \A y \in Intents : row'[y] = With(y, row[y].status, row[y].refunded + p[y])
  BY DEF AllocateLocally
<1>2. row' = [y \in Intents |-> row'[y]]
  BY DEF AllocateLocally
<1> QED BY <1>1, <1>2, SMTT(30) DEF RowQuiet, RowForms, With

LEMMA CommitKeeps ==
  ASSUME BInv, NEW e \in Edits, NEW cents, NEW s,
         \/ cents \in Ups /\ CommitIncrease(e, cents)
         \/ CommitCardReduction(e, cents, s) \/ CommitCreditReduction(e, cents, s)
  PROVE  Desk' /\ AllTraced'
<1>0. e \in Refunders /\ e \in Intents /\ 0 \in Refunders /\ e # 0 /\ Edits \subseteq Refunders
  BY EditAssumption DEF Edits, Refunders, Intents
<1>1. PICK place \in {"mint", "read", "done"} : \E kind, c : Commit(e, kind, c, place)
  BY DEF CommitIncrease, CommitCardReduction, CommitCreditReduction
<1>2. /\ UNCHANGED <<status, togo, createOp, voidOp, stripe, debt, crashed>>
      /\ edit[e] = NoEdit
  BY <1>1 DEF Commit, work, ops
<1>3. \A a \in Refunders : at'[a] = IF a = e THEN place ELSE at[a]
  BY <1>1 DEF Commit, Goto, BInv, Shapes, PlaceShapes
<1>4. \A f \in Edits \ {e} : edit'[f] = edit[f]
  <2>1. PICK v : edit' = [edit EXCEPT ![e] = v]
    BY DEF CommitIncrease, CommitCardReduction, CommitCreditReduction
  <2> QED BY <1>0, <2>1 DEF BInv, Forms, EditForms
<1>5. RowQuiet
  <2>1. CASE row' = row
    BY <2>1, RowQuietSteps DEF BInv, Forms
  <2>2. CASE CommitCreditReduction(e, cents, s)
    BY <2>2, LocalRows DEF CommitCreditReduction, BInv, Forms
  <2> QED BY <2>1, <2>2 DEF CommitIncrease, CommitCardReduction
<1>6. Traced(e) /\ edit[e].kind = "none"
  BY <1>2 DEF BInv, AllTraced, NoEdit
<1>7. Unbilled(e) /\ at[e] = "done" /\ createOp[e].op = "none" /\ debt[e].op = "none"
  BY <1>6 DEF Traced, Billed
<1>8. ASSUME cents \in Ups, CommitIncrease(e, cents)
      PROVE  Traced(e)'
  <2>1. edit'[e].kind = "up" /\ edit'[e].add = cents
    BY <1>0, <1>8 DEF CommitIncrease, BInv, Forms, EditForms
  <2>2. at'[e] = "mint"
    BY <1>0, <1>8 DEF CommitIncrease, Commit, Goto, BInv, Shapes, PlaceShapes
  <2>3. cents \in Nat \ {0}
    BY <1>8, EditAssumption
  <2>4. Traced(e)'
    BY <1>0, <1>2, <1>5, <1>7, <2>1, <2>2, <2>3 DEF RowQuiet, Traced, Unbilled, Billing
  <2> QED BY <2>4
<1>9. ASSUME CommitCardReduction(e, cents, s) \/ CommitCreditReduction(e, cents, s)
      PROVE  Traced(e)'
  <2>1. \/ edit'[e].kind = "card" /\ at'[e] \in {"read", "done"}
        \/ edit'[e].kind = "credit" /\ at'[e] = "done"
    BY <1>0, <1>9 DEF CommitCardReduction, CommitCreditReduction, Commit, Goto, BInv, Shapes,
       PlaceShapes, Forms, EditForms
  <2>2. Traced(e)'
    BY <1>0, <1>2, <1>5, <1>7, <2>1 DEF RowQuiet, Traced, Unbilled, Billing
  <2> QED BY <2>2
<1>10. Traced(e)'
  BY <1>8, <1>9
<1>11. Kept(e)'
  <2>1. voidOp'[e] = "none" /\ stripe'[e] # "void"
    BY <1>2, <1>7 DEF Unbilled
  <2>2. edit'[e].kind = "up" => at'[e] # "done"
    <3>1. CASE cents \in Ups /\ CommitIncrease(e, cents)
      BY <1>0, <3>1 DEF CommitIncrease, Commit, Goto, BInv, Shapes, PlaceShapes
    <3>2. CASE CommitCardReduction(e, cents, s) \/ CommitCreditReduction(e, cents, s)
      BY <1>0, <3>2 DEF CommitCardReduction, CommitCreditReduction, BInv, Forms, EditForms
    <3> QED BY <3>1, <3>2
  <2> QED BY <2>1, <2>2 DEF Kept
<1>12. \A f \in Edits \ {e} : ~Outranks(e, f)
  BY <1>6 DEF Outranks
<1>13. Elsewhere(e)
  BY <1>0, <1>2, <1>3, <1>4, <1>5 DEF Elsewhere
<1> QED BY <1>10, <1>11, <1>12, <1>13, ElsewhereKeeps

(* What is owed from now on, or was before.                                 *)
LEMMA PostponeEffect ==
  ASSUME Shapes, NEW e \in Edits, Postpone(e)
  PROVE  /\ \A f \in Edits \ {e} : createOp'[f] = createOp[f]
         /\ \A a \in Refunders : at'[a] = IF a = e THEN "done" ELSE at[a]
         /\ createOp[e].op # "none" => createOp'[e] = createOp[e]
         /\ createOp[e].op = "none" =>
              createOp'[e].op = "due" /\ createOp'[e].since = Cardinality(Registered)
<1>1. \A a \in Refunders : at'[a] = IF a = e THEN "done" ELSE at[a]
  BY DEF Postpone, Goto, Shapes, PlaceShapes
<1>2. CASE createOp[e].op = "none"
  BY <1>1, <1>2 DEF Postpone, Shapes, OperationShapes
<1>3. CASE createOp[e].op # "none"
  BY <1>1, <1>3 DEF Postpone
<1> QED BY <1>2, <1>3

LEMMA MintKeeps ==
  ASSUME BInv, NEW e \in Edits, MintIntent(e)
  PROVE  Desk' /\ AllTraced'
<1>0. e \in Refunders /\ e \in Intents /\ 0 \in Refunders /\ e # 0 /\ Edits \subseteq Refunders
      /\ Edits \subseteq Intents
  BY EditAssumption DEF Edits, Refunders, Intents
<1>1. /\ UNCHANGED <<edit, status, togo, voidOp, debt, crashed, row>> /\ at[e] = "mint"
  BY DEF MintIntent, booking, work, past
<1>2. Traced(e)
  BY DEF BInv, AllTraced
<1>3. Unbilled(e) /\ edit[e].kind = "up" /\ createOp[e].op \in {"none", "due"}
  BY <1>1, <1>2 DEF Traced, Billed, Billing
<1>4. \A f \in Edits : stripe'[f] = IF f = e /\ stripe' # stripe THEN "open" ELSE stripe[f]
  BY <1>0 DEF MintIntent, BInv, Shapes, PlaceShapes
<1>5. \/ createOp' = createOp /\ Goto(e, "supersede") /\ stripe'[e] = "open"
      \/ Postpone(e)
  BY <1>0 DEF MintIntent, BInv, Shapes, PlaceShapes
<1>6. \A a \in Refunders \ {e} : at'[a] = at[a]
  BY <1>5, PostponeEffect DEF Goto, BInv, Shapes, PlaceShapes
<1>7. /\ \A f \in Edits \ {e} : createOp'[f] = createOp[f]
      /\ createOp[e].op = "due" => createOp'[e] = createOp[e]
      /\ createOp'[e].op \in {"none", "due"}
  BY <1>3, <1>5, PostponeEffect DEF BInv
<1>8. at'[e] = "supersede" \/ (at'[e] = "done" /\ createOp'[e].op = "due")
  <2>1. CASE Goto(e, "supersede")
    BY <1>0, <2>1 DEF Goto, BInv, Shapes, PlaceShapes
  <2>2. CASE Postpone(e)
    BY <1>0, <1>3, <2>2, PostponeEffect DEF BInv
  <2> QED BY <1>5, <2>1, <2>2
<1>9. at'[e] = "supersede" => stripe'[e] = "open"
  <2>1. CASE Postpone(e)
    BY <1>0, <2>1, PostponeEffect DEF BInv
  <2> QED BY <1>5, <2>1
<1>10. Traced(e)'
  BY <1>0, <1>1, <1>2, <1>3, <1>4, <1>7, <1>8, <1>9 DEF Traced, Unbilled, Billing
<1>11. Kept(e)'
  BY <1>0, <1>1, <1>3, <1>4, <1>8 DEF Kept, Unbilled
<1>12. \A f \in Edits \ {e} : Outranks(e, f) => Outranks(e, f)'
  BY <1>1, <1>7 DEF Outranks
<1>13. RowQuiet
  BY <1>1, RowQuietSteps DEF BInv, Forms
<1>14. Elsewhere(e)
  BY <1>0, <1>1, <1>4, <1>6, <1>7, <1>8, <1>13 DEF Elsewhere
<1> QED BY <1>10, <1>11, <1>12, <1>14, ElsewhereKeeps

LEMMA Ranked ==
  ASSUME BInv, NEW e \in Edits
  PROVE  row[e].rank \in Nat /\ row[e].rank <= Cardinality(Registered)
<1>1. Traced(e)
  BY DEF BInv, AllTraced
<1>2. Cardinality(Registered) \in Nat
  BY RegisteredFinite
<1> QED BY <1>1, <1>2 DEF Traced, Unbilled, Billed

LEMMA ResumeKeeps ==
  ASSUME BInv, NEW e \in Edits, ResumeIntent(e)
  PROVE  Desk' /\ AllTraced'
<1>0. e \in Refunders /\ e \in Intents /\ 0 \in Refunders /\ e # 0 /\ Edits \subseteq Refunders
      /\ Edits \subseteq Intents
  BY EditAssumption DEF Edits, Refunders, Intents
<1>1. /\ UNCHANGED <<edit, status, togo, voidOp, stripe, debt, crashed, row>>
      /\ at[e] = "done" /\ createOp[e].op = "due"
  BY DEF ResumeIntent, booking, work, past, ops
<1>2. Traced(e)
  BY DEF BInv, AllTraced
<1>3. Unbilled(e) /\ edit[e].kind = "up"
  BY <1>1, <1>2 DEF Traced, Billed
<1>4. RowQuiet
  BY <1>1, RowQuietSteps DEF BInv, Forms
<1>5. CASE Outdated(e) /\ createOp' = [createOp EXCEPT ![e].op = "done"] /\ UNCHANGED at
  <2>1. /\ createOp'[e].op = "done" /\ \A f \in Edits \ {e} : createOp'[f] = createOp[f]
    BY <1>5 DEF BInv, Shapes, OperationShapes
  <2>2. createOp[e].since \in Nat
    BY DEF BInv, Shapes, OperationShapes
  <2>3. Registered' = Registered
    BY <1>1 DEF Registered
  <2>4. Traced(e)'
    BY <1>1, <1>2, <1>3, <1>5, <2>1 DEF Traced, Unbilled, Billing
  <2>5. CASE status = "CANCELLED"
    <3>1. \A f \in Edits : Kept(f)'
      BY <1>1, <2>5 DEF Kept
    <3>2. \A f \in Edits \ {e} : Traced(f)'
      <4>1. ASSUME NEW f \in Edits \ {e} PROVE Traced(f)'
        <5>1. Traced(f)
          BY DEF BInv, AllTraced
        <5> QED BY <1>1, <1>5, <2>1, <2>3, <5>1 DEF Traced, Unbilled, Billed
      <4> QED BY <4>1
    <3>3. Desk'
      BY <1>1, <1>5 DEF BInv, Desk
    <3> QED BY <2>4, <3>1, <3>2, <3>3 DEF AllTraced
  <2>6. CASE status = "PAID"
    <3>1. PICK g \in Registered : row[g].rank > createOp[e].since
      BY <1>5, <2>6 DEF Outdated
    <3>2. g \in Edits /\ g # e /\ edit[g].kind = "up" /\ row[g].rank \in Nat
      <4>1. g \in Edits /\ Traced(g) /\ row[g].status # "none" /\ row[g].rank \in Nat
        BY <3>1, Ranked DEF BInv, AllTraced, Registered
      <4> QED BY <1>3, <4>1 DEF Traced, Unbilled, Billed
    <3>3. ASSUME NEW f \in Edits, NEW h \in Edits, h # f, Outranks(h, f)
          PROVE  Replaced(f)'
      <4>1. CASE Outranks(h, f)'
        BY <3>3, <4>1 DEF Replaced
      <4>2. CASE ~Outranks(h, f)'
        <5>1. h = e /\ createOp[e].since >= row[f].rank /\ row[f].rank \in Nat
          BY <1>1, <1>5, <2>1, <3>3, <4>2, Ranked DEF Outranks
        <5>2. row[g].rank > row[f].rank
          BY <2>2, <3>1, <3>2, <5>1
        <5>3. g # f /\ Outranks(g, f)'
          BY <1>1, <3>2, <5>1, <5>2 DEF Outranks
        <5> QED BY <3>2, <5>3 DEF Replaced
      <4> QED BY <4>1, <4>2
    <3>4. ASSUME NEW f \in Edits \ {e}
          PROVE  Traced(f)' /\ Kept(f)'
      <4>1. Traced(f) /\ Kept(f)
        BY DEF BInv, AllTraced
      <4>2. Replaced(f) => Replaced(f)'
        BY <3>3 DEF Replaced
      <4> QED BY <1>1, <1>5, <2>1, <2>3, <4>1, <4>2 DEF Traced, Unbilled, Billed, Kept
    <3>5. Outranks(g, e)'
      BY <1>1, <1>3, <2>2, <3>1, <3>2 DEF Outranks, Unbilled
    <3>6. Kept(e)'
      BY <1>1, <1>3, <3>2, <3>5 DEF Kept, Replaced, Unbilled
    <3>7. Desk'
      BY <1>1, <1>5 DEF BInv, Desk
    <3> QED BY <2>4, <3>4, <3>6, <3>7 DEF AllTraced
  <2> QED BY <2>5, <2>6 DEF BInv, Shapes
<1>6. CASE ~Outdated(e) /\ Goto(e, "mint") /\ UNCHANGED createOp
  <2>1. \A a \in Refunders : at'[a] = IF a = e THEN "mint" ELSE at[a]
    BY <1>6 DEF Goto, BInv, Shapes, PlaceShapes
  <2>2. Traced(e)'
    BY <1>0, <1>1, <1>2, <1>3, <1>6, <2>1 DEF Traced, Unbilled, Billing
  <2>3. Kept(e)'
    BY <1>0, <1>1, <1>3, <2>1 DEF Kept, Unbilled
  <2>4. \A f \in Edits \ {e} : Outranks(e, f) => Outranks(e, f)'
    BY <1>1, <1>6 DEF Outranks
  <2>5. Elsewhere(e)
    BY <1>0, <1>1, <1>4, <1>6, <2>1 DEF Elsewhere
  <2> QED BY <2>2, <2>3, <2>4, <2>5, ElsewhereKeeps
<1> QED BY <1>5, <1>6 DEF ResumeIntent

(* A bill that failed at its last step still holds the place it took.       *)
LEMMA GivingUp ==
  ASSUME BInv, NEW e \in Edits, NEW f \in Edits \ {e}, createOp[e].op = "due",
         status = "PAID", ~Outdated(e)
  PROVE  createOp[e].since >= row[f].rank
<1>1. row[f].rank \in Nat /\ createOp[e].since \in Nat
  BY Ranked DEF BInv, Shapes, OperationShapes
<1>2. CASE f \in Registered
  BY <1>1, <1>2 DEF Outdated
<1>3. CASE f \notin Registered
  <2>1. Traced(f) /\ row[f].status = "none"
    BY <1>3 DEF BInv, AllTraced, Registered
  <2>2. row[f].rank = 0
    BY <2>1 DEF Traced, Unbilled, Billed
  <2> QED BY <1>1, <2>2
<1> QED BY <1>2, <1>3

LEMMA CrashKeeps ==
  ASSUME BInv, NEW a \in Refunders, Crash(a)
  PROVE  Desk' /\ AllTraced'
<1>0. Edits \subseteq Refunders /\ Edits \subseteq Intents /\ 0 \in Refunders
      /\ Refunders = Edits \union {0} /\ 0 \notin Edits
  BY EditAssumption DEF Edits, Refunders, Intents
<1>1. UNCHANGED <<edit, status, togo, voidOp, stripe, debt, row, createOp>>
  BY DEF Crash, booking, work, ops
<1>2. \A b \in Refunders : at'[b] = IF b = a THEN "done" ELSE at[b]
  BY DEF Crash, Goto, BInv, Shapes, PlaceShapes
<1>3. RowQuiet
  BY <1>1, RowQuietSteps DEF BInv, Forms
<1>4. CASE a = 0
  <2>1. crashed' = crashed
    BY <1>0, <1>4 DEF Crash
  <2>2. Desk'
    BY <1>0, <1>1, <1>2, <1>4 DEF BInv, Desk, Billing
  <2>3. Quiet
    BY <1>0, <1>1, <1>2, <1>3, <1>4, <2>1 DEF Quiet, RowQuiet
  <2>4. \A e \in Edits : Traced(e) /\ Kept(e) => Traced(e)' /\ Kept(e)'
    <3>1. \A e \in Edits : at'[e] = at[e]
      BY <1>0, <1>2, <1>4
    <3>2. Registered' = Registered
      BY <1>1 DEF Registered
    <3>3. \A e \in Edits : Traced(e) => Traced(e)'
      BY <1>1, <3>1, <3>2 DEF Traced, Unbilled, Billed
    <3>4. \A e \in Edits, f \in Edits : Outranks(f, e) => Outranks(f, e)'
      BY <1>1, <2>1, <3>1 DEF Outranks
    <3>5. \A e \in Edits : Replaced(e) => Replaced(e)'
      BY <3>4 DEF Replaced
    <3>6. \A e \in Edits : Kept(e) => Kept(e)'
      BY <1>1, <2>1, <3>1, <3>5 DEF Kept
    <3> QED BY <3>3, <3>6
  <2> QED BY <2>2, <2>4 DEF BInv, AllTraced
<1>5. ASSUME a \in Edits
      PROVE  Desk' /\ AllTraced'
  <2>1. Traced(a) /\ Kept(a)
    BY <1>5 DEF BInv, AllTraced
  <2>2. \A f \in Edits \ {a} : f \in crashed' <=> f \in crashed
    BY DEF Crash
  <2>3. Registered' = Registered
    BY <1>1 DEF Registered
  <2>4. Traced(a)'
    BY <1>0, <1>1, <1>2, <1>5, <2>1, <2>3 DEF Traced, Unbilled, Billed, Billing
  <2>5. edit[a].kind = "up" => createOp[a].op = "due" \/ a \in crashed'
    BY <1>5, <2>1 DEF Traced, Crash, GivesUp
  <2>6. at[a] # "done"
    BY DEF Crash
  <2>7. Unbilled(a)
    BY <2>1, <2>6 DEF Traced, Billed
  <2>8. Kept(a)'
    BY <1>1, <2>5, <2>7 DEF Kept, Unbilled
  <2>9. ASSUME NEW f \in Edits \ {a}, Outranks(a, f), status = "PAID"
        PROVE  Outranks(a, f)'
    <3>1. CASE at[a] = "register" /\ a \notin crashed'
      <4>1. createOp[a].op = "due" /\ ~Outdated(a)
        BY <1>5, <2>1, <2>9, <3>1 DEF Traced, Crash, GivesUp, Outranks
      <4> QED BY <1>1, <1>5, <2>9, <4>1, GivingUp DEF Outranks
    <3>2. CASE ~(at[a] = "register" /\ a \notin crashed')
      <4>1. a \in crashed => a \in crashed'
        BY DEF Crash
      <4> QED BY <1>1, <2>9, <3>2, <4>1 DEF Outranks
    <3> QED BY <3>1, <3>2
  <2>10. Elsewhere(a)
    BY <1>0, <1>1, <1>2, <1>3, <1>5, <2>2 DEF Elsewhere
  <2>11. CASE status = "PAID"
    BY <1>5, <2>4, <2>8, <2>9, <2>10, <2>11, ElsewhereKeeps
  <2>12. CASE status # "PAID"
    <3>1. \A f \in Edits : Kept(f)'
      BY <1>1, <2>12 DEF Kept
    <3>2. \A f \in Edits \ {a} : Traced(f) => Traced(f)'
      BY <1>0, <1>1, <1>2, <2>3 DEF Traced, Unbilled, Billed
    <3>3. Desk'
      BY <1>0, <1>1, <1>2, <1>5 DEF BInv, Desk
    <3> QED BY <2>4, <3>1, <3>2, <3>3 DEF BInv, AllTraced
  <2> QED BY <2>11, <2>12
<1> QED BY <1>0, <1>4, <1>5

LEMMA SupersedeKeeps ==
  ASSUME BInv, NEW e \in Edits, Supersede(e)
  PROVE  Desk' /\ AllTraced'
<1>0. e \in Refunders /\ e \in Intents /\ 0 \in Refunders /\ e # 0 /\ Edits \subseteq Refunders
      /\ Edits \subseteq Intents
  BY EditAssumption DEF Edits, Refunders, Intents
<1>1. /\ UNCHANGED <<edit, status, togo, stripe, debt, crashed, row, createOp>>
      /\ at[e] = "supersede"
  BY DEF Supersede, booking, work, past
<1>2. \A b \in Refunders : at'[b] = IF b = e THEN "register" ELSE at[b]
  BY DEF Supersede, Goto, BInv, Shapes, PlaceShapes
<1>3. Traced(e) /\ Registered' = Registered
  BY <1>1 DEF BInv, AllTraced, Registered
<1>4. \A f \in Edits : voidOp'[f] # voidOp[f] => f # e /\ row[f].status # "none" /\ voidOp'[f] = "due"
  BY <1>0 DEF Supersede, Superseded, Registered
<1>5. \A f \in Edits : voidOp[f] # "none" => voidOp'[f] = voidOp[f]
  BY <1>0 DEF Supersede
<1>6. edit[e].kind = "up" /\ stripe[e] = "open"
  BY <1>1, <1>3 DEF Traced, Billing
<1>7. \A f \in Edits \ {e} : Outranks(e, f)'
  BY <1>0, <1>1, <1>2, <1>6 DEF Outranks
<1>8. ASSUME NEW f \in Edits
      PROVE  Traced(f)'
  <2>1. Traced(f)
    BY DEF BInv, AllTraced
  <2> QED BY <1>0, <1>1, <1>2, <1>3, <1>4, <1>6, <2>1 DEF Traced, Unbilled, Billed, Billing
<1>9. ASSUME NEW f \in Edits \ {e}
      PROVE  Kept(f)'
  <2>1. Kept(f) /\ Replaced(f)'
    BY <1>7 DEF BInv, AllTraced, Replaced
  <2> QED BY <1>1, <1>5, <2>1 DEF Kept
<1>10. Kept(e)'
  <2>1. Unbilled(e)
    BY <1>1, <1>3 DEF Traced, Billed
  <2> QED BY <1>0, <1>1, <1>2, <1>4, <2>1 DEF Kept, Unbilled
<1>11. Desk'
  BY <1>0, <1>1, <1>2 DEF BInv, Desk
<1> QED BY <1>8, <1>9, <1>10, <1>11 DEF AllTraced

LEMMA RegisterFails ==
  ASSUME BInv, NEW e \in Edits, Register(e), Postpone(e), row' = row,
         crashed' = IF createOp[e].op = "due" /\ Outdated(e)
                    THEN crashed \union {e} ELSE crashed
  PROVE  Desk' /\ AllTraced'
<1>0. e \in Refunders /\ e \in Intents /\ 0 \in Refunders /\ e # 0 /\ Edits \subseteq Refunders
      /\ Edits \subseteq Intents
  BY EditAssumption DEF Edits, Refunders, Intents
<1>1. UNCHANGED <<edit, status, togo, voidOp, stripe, debt>> /\ at[e] = "register"
  BY DEF Register, booking, work
<1>2. Traced(e) /\ Registered' = Registered
  BY DEF BInv, AllTraced, Registered
<1>3. Unbilled(e) /\ edit[e].kind = "up" /\ createOp[e].op \in {"none", "due"}
  BY <1>1, <1>2 DEF Traced, Billed, Billing
<1>4. /\ \A f \in Edits \ {e} : createOp'[f] = createOp[f]
      /\ \A a \in Refunders : at'[a] = IF a = e THEN "done" ELSE at[a]
      /\ createOp[e].op # "none" => createOp'[e] = createOp[e]
      /\ createOp[e].op = "none" =>
           createOp'[e].op = "due" /\ createOp'[e].since = Cardinality(Registered)
  BY PostponeEffect DEF BInv
<1>5. createOp'[e].op = "due"
  BY <1>3, <1>4
<1>6. Traced(e)'
  BY <1>0, <1>1, <1>2, <1>3, <1>4, <1>5 DEF Traced, Unbilled, Billing
<1>7. Kept(e)'
  BY <1>1, <1>3, <1>5 DEF Kept, Unbilled
<1>8. RowQuiet
  BY RowQuietSteps DEF BInv, Forms
<1>9. Elsewhere(e)
  BY <1>0, <1>1, <1>4, <1>8 DEF Elsewhere
<1>10. ASSUME NEW f \in Edits \ {e}, status = "PAID"
       PROVE  Outranks(e, f)'
  <2>1. row[f].rank \in Nat /\ row[f].rank <= Cardinality(Registered) /\ Cardinality(Registered) \in Nat
    BY Ranked, RegisteredFinite
  <2>2. CASE createOp[e].op = "none"
    BY <1>1, <1>3, <1>4, <2>1, <2>2 DEF Outranks
  <2>3. CASE createOp[e].op = "due" /\ Outdated(e)
    BY <1>1, <1>3, <2>3 DEF Outranks
  <2>4. CASE createOp[e].op = "due" /\ ~Outdated(e)
    BY <1>1, <1>3, <1>4, <1>10, <2>4, GivingUp DEF Outranks
  <2> QED BY <1>3, <2>2, <2>3, <2>4
<1>11. CASE status = "PAID"
  BY <1>6, <1>7, <1>9, <1>10, <1>11, ElsewhereKeeps
<1>12. CASE status # "PAID"
  <2>1. \A f \in Edits : Kept(f)'
    BY <1>1, <1>12 DEF Kept
  <2>2. \A f \in Edits \ {e} : Traced(f) => Traced(f)'
    BY <1>0, <1>1, <1>2, <1>4 DEF Traced, Unbilled, Billed
  <2>3. Desk'
    BY <1>0, <1>1, <1>4 DEF BInv, Desk
  <2> QED BY <1>6, <2>1, <2>2, <2>3 DEF BInv, AllTraced
<1> QED BY <1>11, <1>12

LEMMA Begun ==
  ASSUME RowForms, NEW e \in Intents, NEW c, NEW n,
         row' = [row EXCEPT ![e] = [status |-> "PENDING", amount |-> c,
                                    refunded |-> 0, rank |-> n]]
  PROVE  /\ RowForms' /\ \A y \in Intents \ {e} : Same(y)
         /\ row'[e].status = "PENDING" /\ row'[e].rank = n /\ row'[e].amount = c
         /\ row'[e].refunded = 0
<1>1. \A y \in Intents : row'[y] = IF y = e THEN [status |-> "PENDING", amount |-> c,
                                                refunded |-> 0, rank |-> n] ELSE row[y]
  BY DEF RowForms
<1>2. row' = [y \in Intents |-> row'[y]]
  BY DEF RowForms
<1> QED BY <1>1, <1>2 DEF RowForms, Same

LEMMA RegisterWorks ==
  ASSUME BInv, NEW e \in Edits, Register(e), UNCHANGED crashed, Goto(e, "done"),
         row' = [row EXCEPT ![e] = [status |-> "PENDING", amount |-> edit[e].add,
                   refunded |-> 0, rank |-> Cardinality(Registered) + 1]],
         createOp' = IF createOp[e].op = "due"
                     THEN [createOp EXCEPT ![e].op = "done"] ELSE createOp
  PROVE  RowForms' /\ Desk' /\ AllTraced'
<1>0. e \in Refunders /\ e \in Intents /\ 0 \in Refunders /\ e # 0 /\ Edits \subseteq Refunders
      /\ Edits \subseteq Intents
  BY EditAssumption DEF Edits, Refunders, Intents
<1>1. UNCHANGED <<edit, status, togo, voidOp, stripe, debt>> /\ at[e] = "register"
  BY DEF Register, booking, work
<1>2. Traced(e)
  BY DEF BInv, AllTraced
<1>3. Unbilled(e) /\ edit[e].kind = "up" /\ createOp[e].op \in {"none", "due"} /\ stripe[e] = "open"
  BY <1>1, <1>2 DEF Traced, Billed, Billing
<1>4. /\ RowForms' /\ \A y \in Intents \ {e} : Same(y)
      /\ row'[e].status = "PENDING" /\ row'[e].rank = Cardinality(Registered) + 1
  BY <1>0, Begun DEF BInv, Forms
<1>5. \A a \in Refunders : at'[a] = IF a = e THEN "done" ELSE at[a]
  BY DEF Goto, BInv, Shapes, PlaceShapes
<1>6. /\ \A f \in Edits \ {e} : createOp'[f] = createOp[f]
      /\ createOp'[e].op # "due"
  BY <1>3 DEF BInv, Shapes, OperationShapes
<1>7. Registered' = Registered \union {e}
  BY <1>0, <1>4 DEF Registered, Same
<1>8. /\ Cardinality(Registered) \in Nat
      /\ Cardinality(Registered') = Cardinality(Registered) + 1
  <2>1. e \notin Registered
    BY <1>3 DEF Registered, Unbilled
  <2> QED BY <1>7, <2>1, RegisteredFinite, FS_AddElement
<1>9. Traced(e)'
  BY <1>0, <1>1, <1>2, <1>3, <1>4, <1>5, <1>6, <1>8 DEF Traced, Billed, Billing
<1>10. Kept(e)'
  BY <1>0, <1>1, <1>3, <1>4 DEF Kept, Unbilled
<1>11. \A f \in Edits \ {e} : Outranks(e, f)'
  <2>1. ASSUME NEW f \in Edits \ {e}
        PROVE  Outranks(e, f)'
    <3>1. row'[f].rank = row[f].rank
      BY <1>0, <1>4 DEF Same
    <3>2. row'[e].rank > row'[f].rank
      BY <1>4, <1>8, <3>1, Ranked
    <3> QED BY <1>1, <1>3, <3>2 DEF Outranks
  <2> QED BY <2>1
<1>12. ASSUME NEW f \in Edits \ {e}
       PROVE  Traced(f)' /\ Kept(f)'
  <2>1. Traced(f) /\ Kept(f)
    BY DEF BInv, AllTraced
  <2>2. row'[f].rank = row[f].rank /\ row'[f].status = row[f].status
    BY <1>0, <1>4 DEF Same
  <2>3. Traced(f)'
    BY <1>0, <1>1, <1>5, <1>6, <1>8, <2>1, <2>2 DEF Traced, Unbilled, Billed, Billing
  <2>4. Replaced(f)'
    BY <1>11 DEF Replaced
  <2>5. Kept(f)'
    BY <1>1, <2>1, <2>4 DEF Kept
  <2> QED BY <2>3, <2>5
<1>13. Desk'
  <2>1. togo[0] \subseteq Intents
    BY <1>0 DEF BInv, Forms, PlanForms
  <2> QED BY <1>0, <1>1, <1>4, <1>5, <2>1 DEF BInv, Desk, Same
<1> QED BY <1>4, <1>9, <1>10, <1>12, <1>13 DEF AllTraced

LEMMA RegisterKeeps ==
  ASSUME BInv, NEW e \in Edits, Register(e)
  PROVE  RowForms' /\ Desk' /\ AllTraced'
<1>1. CASE row' = row /\ Postpone(e)
           /\ crashed' = IF createOp[e].op = "due" /\ Outdated(e)
                         THEN crashed \union {e} ELSE crashed
  BY <1>1, RegisterFails, RowsUnchanged DEF BInv, Forms
<1>2. CASE UNCHANGED crashed /\ Goto(e, "done")
           /\ row' = [row EXCEPT ![e] = [status |-> "PENDING", amount |-> edit[e].add,
                   refunded |-> 0, rank |-> Cardinality(Registered) + 1]]
           /\ createOp' = IF createOp[e].op = "due"
                          THEN [createOp EXCEPT ![e].op = "done"] ELSE createOp
  BY <1>2, RegisterWorks
<1> QED BY <1>1, <1>2 DEF Register

LEMMA CancelKeeps ==
  ASSUME BInv, NEW way, NEW s, Cancel(way, s)
  PROVE  RowForms' /\ Desk' /\ AllTraced'
<1>0. 0 \in Refunders /\ 0 \notin Edits /\ Edits \subseteq Refunders /\ Edits \subseteq Intents
  BY EditAssumption DEF Edits, Refunders, Intents
<1>1. /\ UNCHANGED <<edit, stripe, createOp, crashed>> /\ status' = "CANCELLED"
  BY DEF Cancel
<1>2. PICK p : \A y \in Intents :
        row'[y] = With(y, IF y \in Outstanding THEN "FAILED" ELSE row[y].status,
                       IF way = "credit" THEN row[y].refunded + p[y] ELSE row[y].refunded)
  BY DEF Cancel
<1>3. row' = [y \in Intents |-> row'[y]]
  BY DEF Cancel
<1>4. RowForms' /\ \A y \in Intents : row'[y].rank = row[y].rank
  BY <1>2, <1>3 DEF RowForms, With
<1>5. \A y \in Intents : row'[y].status = "none" <=> row[y].status = "none"
  <2>1. \A y \in Outstanding : row[y].status = "PENDING"
    BY DEF Outstanding
  <2>2. \A y \in Intents : row'[y].status = IF y \in Outstanding THEN "FAILED" ELSE row[y].status
    <3>1. \A y, state, cents : With(y, state, cents).status = state
      BY DEF With
    <3> QED BY <1>2, <3>1
  <2> QED BY <2>1, <2>2
<1>6. Outstanding \subseteq Registered
  BY DEF Outstanding, Newest
<1>7. \A a \in Edits : at'[a] = at[a]
  BY <1>0 DEF Cancel, Goto, BInv, Shapes, PlaceShapes
<1>8. at'[0] \in {"teardown", "read", "done"} /\ togo'[0] = Outstanding
  BY <1>0 DEF Cancel, Goto, BInv, Shapes, PlaceShapes, Forms, PlanForms
<1>9. \A a \in Edits : debt'[a] = debt[a]
  BY <1>0 DEF Cancel, BInv, Forms, DebtForms
<1>10. \A f \in Edits : voidOp'[f] # voidOp[f] => row[f].status # "none"
  BY <1>0, <1>6 DEF Cancel, Registered
<1>11. Registered' = Registered
  BY <1>0, <1>5 DEF Registered
<1>12. ASSUME NEW f \in Edits
       PROVE  Traced(f)'
  <2>1. Traced(f)
    BY DEF BInv, AllTraced
  <2> QED BY <1>0, <1>1, <1>4, <1>5, <1>7, <1>9, <1>10, <1>11, <2>1
          DEF Traced, Unbilled, Billed
<1>13. \A f \in Edits : Kept(f)'
  BY <1>1 DEF Kept
<1>14. Desk'
  <2>1. \A y \in Outstanding : row'[y].status # "none"
    BY <1>0, <1>5, <1>6 DEF Registered
  <2> QED BY <1>0, <1>1, <1>7, <1>8, <2>1 DEF BInv, Desk, Billing
<1> QED BY <1>4, <1>12, <1>13, <1>14 DEF AllTraced

----------------------------------------------------------------------------
LEMMA PostedKept ==
  ASSUME BInv, [Next]_vars
  PROVE  Posted'
<1>0. Edits \subseteq Intents
  BY DEF Edits, Intents
<1>1. \A x \in Edits : stripe[x] = "captured" => stripe'[x] = "captured"
  <2>1. CASE \E x \in Edits : Pay(x) \/ VoidIntent(x)
    BY <1>0, <2>1 DEF Pay, VoidIntent, BInv, Shapes, PlaceShapes
  <2>2. CASE \E e \in Edits : MintIntent(e)
    <3>1. PICK e \in Edits : MintIntent(e)
      BY <2>2
    <3>2. at[e] = "mint" /\ Traced(e)
      BY <3>1 DEF MintIntent, BInv, AllTraced
    <3>3. stripe[e] # "captured"
      BY <3>2 DEF Traced, Unbilled, Billed
    <3>4. \A x \in Edits : x # e => stripe'[x] = stripe[x]
      BY <1>0, <3>1 DEF MintIntent, BInv, Shapes, PlaceShapes
    <3> QED BY <3>3, <3>4
  <2>3. CASE TearDown
    BY <1>0, <2>3 DEF TearDown
  <2>4. CASE stripe' = stripe
    BY <2>4
  <2>5. \/ \E x \in Edits : Pay(x) \/ VoidIntent(x)
        \/ \E e \in Edits : MintIntent(e)
        \/ TearDown \/ stripe' = stripe
    BY ZenonT(60) DEF Next, CommitIncrease, CommitCardReduction, CommitCreditReduction, Commit, Cancel,
       ReadRows, SendSlice, RecordSlice, FinishRefund, Replay, Crash, FreezePlan, Supersede,
       Register, ResumeIntent, Decline, Confirm, ReadEvent, MarkPaid, ReturnLate, ReturnWithdrawn,
       SyncRefunds, vars
  <2> QED BY <2>1, <2>2, <2>3, <2>4, <2>5
<1>2. CASE UNCHANGED events
  BY <1>1, <1>2 DEF events, BInv, Posted
<1>3. CASE \E x \in Edits : Pay(x)
  BY <1>0, <1>1, <1>3 DEF Pay, BInv, Posted, Shapes, PlaceShapes
<1>4. CASE \E x \in Edits : ReadEvent(x) \/ MarkPaid(x) \/ ReturnLate(x)
  <2>1. PICK x \in Edits : ReadEvent(x) \/ MarkPaid(x) \/ ReturnLate(x)
    BY <1>4
  <2>2. \/ Handled(x) \/ UNCHANGED events
        \/ mail' = mail /\ hook' = [hook EXCEPT ![x] = "idle"]
        \/ mail' = mail /\ x \in mail /\ \E h : hook' = [hook EXCEPT ![x] = h]
    BY <2>1 DEF ReadEvent, MarkPaid, ReturnLate, events
  <2>3. \A y \in Edits : /\ y # x => hook'[y] = hook[y] /\ (y \in mail' <=> y \in mail)
                         /\ hook'[x] # "idle" => x \in mail'
                         /\ x \in mail' => x \in mail
    BY <1>0, <2>2 DEF Handled, events, BInv, Shapes, PlaceShapes, Posted
  <2> QED BY <1>1, <2>1, <2>3 DEF BInv, Posted
<1>5. \/ \E x \in Edits : Pay(x)
      \/ \E x \in Edits : ReadEvent(x) \/ MarkPaid(x) \/ ReturnLate(x)
      \/ UNCHANGED events
  BY ZenonT(60) DEF Next, CommitIncrease, CommitCardReduction, CommitCreditReduction, Commit, Cancel,
     ReadRows, SendSlice, RecordSlice, FinishRefund, Replay, Crash, FreezePlan, MintIntent,
     Supersede, Register, ResumeIntent, TearDown, Decline, Confirm, VoidIntent, ReturnWithdrawn,
     SyncRefunds, vars
<1> QED BY <1>2, <1>3, <1>4, <1>5

LEMMA CommitRows ==
  ASSUME RowForms, NEW e \in Edits, NEW cents, NEW s,
         \/ CommitIncrease(e, cents) \/ CommitCardReduction(e, cents, s)
         \/ CommitCreditReduction(e, cents, s)
  PROVE  RowForms'
<1>1. CASE row' = row
  BY <1>1 DEF RowForms
<1>2. CASE CommitCreditReduction(e, cents, s)
  BY <1>2, LocalRows DEF CommitCreditReduction, RowQuiet
<1> QED BY <1>1, <1>2 DEF CommitIncrease, CommitCardReduction

LEMMA InitBilled == Init => BInv
<1> SUFFICES ASSUME Init PROVE BInv
  OBVIOUS
<1>0. 0 \in Refunders /\ 0 \notin Edits /\ Edits \subseteq Refunders /\ Edits \subseteq Intents
  BY EditAssumption DEF Edits, Refunders, Intents
<1>1. RowForms
  BY DEF Init, RowForms, NoRow
<1>2. EditForms /\ DebtForms /\ PlanForms
  BY DEF Init, EditForms, DebtForms, PlanForms, NoEdit, NoDebt
<1>3. PlaceShapes
  BY DEF Init, PlaceShapes
<1>4. OperationShapes
  BY DEF Init, OperationShapes, Operations
<1>5. PastShapes /\ status \in {"PAID", "CANCELLED"}
  BY EditAssumption DEF Init, PastShapes
<1>6. Desk /\ Posted
  BY <1>0 DEF Init, Desk, Billing, Posted
<1>7. ASSUME NEW e \in Edits
      PROVE  Traced(e) /\ Kept(e)
  <2>1. /\ row[e].status = "none" /\ row[e].rank = 0 /\ voidOp[e] = "none" /\ stripe[e] = "none"
        /\ edit[e].kind = "none" /\ at[e] = "done" /\ createOp[e].op = "none" /\ debt[e].op = "none"
    BY <1>0 DEF Init, NoRow, NoEdit, NoDebt
  <2> QED BY <2>1 DEF Traced, Unbilled, Billing, Kept
<1> QED BY <1>1, <1>2, <1>3, <1>4, <1>5, <1>6, <1>7 DEF BInv, Forms, Shapes, AllTraced

LEMMA StepBilled == BInv /\ [Next]_vars => BInv'
<1> SUFFICES ASSUME BInv, [Next]_vars PROVE BInv'
  OBVIOUS
<1>1. EditForms' /\ DebtForms' /\ PlanForms'
  BY EditFormsKept, DebtFormsKept, PlanFormsKept DEF BInv, Forms
<1>2. Shapes' /\ Posted'
  BY StepShapes, PostedKept DEF BInv
<1>3. RowForms' /\ Desk' /\ AllTraced'
  <2>1. ASSUME RowQuiet, Quiet, Desk'
        PROVE  RowForms' /\ Desk' /\ AllTraced'
    BY <1>2, <2>1, QuietKeeps DEF RowQuiet
  <2>2. ASSUME NEW e \in Edits, NEW cents, NEW s,
               \/ cents \in Ups /\ CommitIncrease(e, cents)
               \/ CommitCardReduction(e, cents, s) \/ CommitCreditReduction(e, cents, s)
        PROVE  RowForms' /\ Desk' /\ AllTraced'
    BY <2>2, CommitKeeps, CommitRows DEF BInv, Forms
  <2>3. CASE \E way \in {"card", "credit"}, s \in Shares : Cancel(way, s)
    BY <2>3, CancelKeeps
  <2>4. CASE TearDown \/ (\E x \in Intents : SyncRefunds(x)) \/ UNCHANGED vars
    BY <2>1, <2>4, OtherRows, OtherQuiet
  <2>5. ASSUME NEW a \in Refunders, RefundStep(a) \/ (a \in Edits /\ FreezePlan(a))
        PROVE  RowForms' /\ Desk' /\ AllTraced'
    BY <2>1, <2>5, RefundQuiet
  <2>6. ASSUME NEW a \in Refunders, Crash(a)
        PROVE  RowForms' /\ Desk' /\ AllTraced'
    <3>1. row' = row
      BY <2>6 DEF Crash
    <3> QED BY <2>6, <3>1, CrashKeeps, RowsUnchanged DEF BInv, Forms
  <2>7. ASSUME NEW e \in Edits, MintIntent(e) \/ Supersede(e) \/ ResumeIntent(e)
        PROVE  RowForms' /\ Desk' /\ AllTraced'
    <3>1. row' = row
      BY <2>7 DEF MintIntent, Supersede, ResumeIntent
    <3> QED BY <2>7, <3>1, MintKeeps, SupersedeKeeps, ResumeKeeps, RowsUnchanged DEF BInv, Forms
  <2>8. ASSUME NEW e \in Edits, Register(e)
        PROVE  RowForms' /\ Desk' /\ AllTraced'
    BY <2>8, RegisterKeeps
  <2>9. ASSUME NEW x \in Edits,
               \/ Pay(x) \/ Decline(x) \/ Confirm(x) \/ ReadEvent(x) \/ MarkPaid(x)
               \/ ReturnLate(x) \/ VoidIntent(x) \/ ReturnWithdrawn(x)
        PROVE  RowForms' /\ Desk' /\ AllTraced'
    BY <2>1, <2>9, PaymentRows, PaymentQuiet
  <2>10. Edits \subseteq Refunders
    BY DEF Edits, Refunders
  <2> QED BY <2>2, <2>3, <2>4, <2>5, <2>6, <2>7, <2>8, <2>9, <2>10, ZenonT(60) DEF Next, RefundStep
<1> QED BY <1>1, <1>2, <1>3 DEF BInv, Forms

----------------------------------------------------------------------------
LEMMA AlwaysBilled == Spec => []BInv
BY InitBilled, StepBilled, PTL DEF Spec

(* No increase goes missing: as long as the booking stands, its bill is at  *)
(* work, owed, to be paid or paid, or a newer one has taken its place, in   *)
(* spite of recovery runs, failed calls and any number of edits.            *)
THEOREM BillsAreCollectable == Spec => []IncreasesAreCollectable
<1>1. BInv => IncreasesAreCollectable
  <2> SUFFICES ASSUME BInv, NEW e \in Edits, edit[e].kind = "up", status = "PAID"
               PROVE  \/ at[e] # "done" \/ createOp[e].op = "due" \/ e \in crashed
                      \/ /\ row[e].status # "none" /\ voidOp[e] = "none"
                         /\ stripe[e] \in {"open", "captured"}
                      \/ \E f \in Edits \ {e} : Replaces(f, e)
    BY DEF IncreasesAreCollectable
  <2>1. Traced(e) /\ Kept(e)
    BY DEF BInv, AllTraced
  <2>2. Replaced(e) => \E f \in Edits \ {e} : Replaces(f, e)
    BY DEF Replaced, Outranks, Replaces
  <2> QED BY <2>1, <2>2 DEF Traced, Unbilled, Billed, Kept
<1> QED BY <1>1, AlwaysBilled, PTL

----------------------------------------------------------------------------
(* Where the money of an intent is.                                         *)

Paid(x) == row[x].status = "SUCCEEDED"
Untouched(x) == row[x].refunded = 0 /\ \A r \in sent : r.of # x

(* What holds of an intent's money, its withdrawal and its return.          *)
Whereabouts(x) ==
  /\ stripe[x] = "captured" => x \in mail \/ Paid(x)
  /\ voidOp[x] = "done" => stripe[x] = "void" \/ (stripe[x] = "captured" /\ backOp[x] # "none")
  /\ backOp[x] # "none" => Paid(x) /\ voidOp[x] = "done"
  /\ backOp[x] = "done" => x \in borrowed \/ CameBack(x)
  /\ row[x].status # "none" => row[x].amount \in Nat \ {0}
  /\ ~Paid(x) => Untouched(x)
  /\ voidOp[x] # "none" => x \in borrowed \/ CameBack(x) \/ Untouched(x)
  /\ status = "CANCELLED" /\ stripe[x] = "captured" /\ x \notin counted =>
       voidOp[x] # "none" \/ x \in mail \/ CameBack(x) \/ x \in raced

(* What a refund takes from was paid, and withdrawn only if it borrows.     *)
Aimed(a, x) ==
  /\ at[a] \in {"send", "record"} /\ x \in togo[a] =>
       Paid(x) /\ (voidOp[x] = "none" \/ x \in borrowed)
  /\ debt[a].op = "frozen" /\ plan[a][x] > 0 => Paid(x)

MInv ==
  /\ BInv
  /\ \A x \in Edits : Whereabouts(x)
  /\ \A a \in Refunders, x \in Edits : Aimed(a, x)

(* Nothing that is known of the intent changes.                             *)
Alone(x) ==
  /\ Same(x) /\ stripe'[x] = stripe[x] /\ voidOp'[x] = voidOp[x] /\ backOp'[x] = backOp[x]
  /\ x \in mail' <=> x \in mail
  /\ x \in borrowed => x \in borrowed'
  /\ x \in raced => x \in raced'
  /\ status' = status /\ counted' = counted /\ sent \subseteq sent'
  /\ \A r \in sent' : r.of = x => r \in sent

LEMMA AloneKeeps ==
  ASSUME NEW x \in Edits, Whereabouts(x), Alone(x)
  PROVE  Whereabouts(x)'
<1>1. CameBack(x) => CameBack(x)'
  BY DEF CameBack, Alone, Same
<1>2. Untouched(x) => Untouched(x)'
  BY DEF Untouched, Alone, Same
<1>3. Paid(x) <=> Paid(x)'
  BY DEF Paid, Alone, Same
<1> QED BY <1>1, <1>2, <1>3 DEF Whereabouts, Alone, Same

LEMMA AllocationForm ==
  ASSUME NEW c, NEW x \in Intents
  PROVE  /\ ~Paid(x) => Allocation(c)[x] = 0
         /\ Paid(x) /\ row[x].amount \in Nat /\ row[x].refunded = 0 =>
              Allocation(c)[x] = 0 \/ Allocation(c)[x] > 0
<1>1. Room[x] = IF Paid(x) THEN row[x].amount - row[x].refunded ELSE 0
  BY DEF Room, Captured, Paid
<1>2. PICK z : Allocation(c)[x] = IF z > 0 THEN Lesser(Room[x], z) ELSE 0
  BY DEF Allocation
<1>3. CASE ~(z > 0)
  BY <1>2, <1>3
<1>4. CASE z > 0
  <2>1. Allocation(c)[x] = IF Room[x] < z THEN Room[x] ELSE z
    BY <1>2, <1>4 DEF Lesser
  <2>2. ~Paid(x) => Room[x] = 0
    BY <1>1
  <2>3. Paid(x) /\ row[x].amount \in Nat /\ row[x].refunded = 0 => Room[x] \in Nat
    BY <1>1
  <2> QED BY <1>4, <2>1, <2>2, <2>3
<1> QED BY <1>3, <1>4

(* A step never takes back that an intent was paid, nor withdraws it then.  *)
Steady(x) ==
  /\ Paid(x) => Paid(x)' /\ (voidOp[x] = "none" => voidOp'[x] = "none")
  /\ x \in borrowed => x \in borrowed'

Moves(x) == Whereabouts(x)' /\ Steady(x)

LEMMA AloneMoves ==
  ASSUME NEW x \in Edits, Whereabouts(x), Alone(x)
  PROVE  Moves(x)
<1>1. Steady(x)
  BY DEF Steady, Paid, Alone, Same
<1> QED BY <1>1, AloneKeeps DEF Moves

LEMMA IdleMoves ==
  ASSUME MInv, NEW x \in Edits, borrowed \subseteq borrowed',
         UNCHANGED <<row, stripe, sent, voidOp, backOp, mail, status, counted, raced>>
  PROVE  Moves(x)
<1>1. Alone(x)
  BY DEF Alone, Same
<1> QED BY <1>1, AloneMoves DEF MInv

(* What a division of money given as credit takes from an intent.           *)
LEMMA TakenLocally ==
  ASSUME NEW x \in Edits, Whereabouts(x), NEW c
  PROVE  /\ ~Paid(x) => Allocation(c)[x] = 0
         /\ voidOp[x] # "none" /\ Untouched(x) =>
              Allocation(c)[x] = 0 \/ x \in Borrows(Allocation(c))
<1>0. x \in Intents
  BY DEF Edits, Intents
<1>1. Paid(x) => row[x].amount \in Nat
  BY DEF Whereabouts, Paid
<1>2. Allocation(c)[x] > 0 /\ voidOp[x] # "none" => x \in Borrows(Allocation(c))
  BY <1>0 DEF Borrows, Planned
<1> QED BY <1>0, <1>1, <1>2, AllocationForm DEF Untouched

LEMMA CreditMoves ==
  ASSUME MInv, NEW x \in Edits, NEW e \in Edits, NEW cents, NEW s,
         CommitCreditReduction(e, cents, s)
  PROVE  Moves(x)
<1>0. x \in Intents
  BY DEF Edits, Intents
<1>1. PICK c : AllocateLocally(Allocation(c))
  BY DEF CommitCreditReduction
<1>2. /\ row'[x].status = row[x].status /\ row'[x].amount = row[x].amount
      /\ row'[x].refunded = row[x].refunded + Allocation(c)[x]
  BY <1>0, <1>1 DEF AllocateLocally, With
<1>3. UNCHANGED <<stripe, sent, voidOp, backOp, mail, status, counted, raced>>
  BY DEF CommitCreditReduction, Commit, ops, events
<1>4. borrowed' = Borrows(Allocation(c)) /\ (x \in borrowed => x \in borrowed')
  BY <1>1 DEF AllocateLocally, Borrows
<1>5. Whereabouts(x)
  BY DEF MInv
<1>6. CameBack(x) => CameBack(x)'
  BY <1>2, <1>3 DEF CameBack
<1>7. Paid(x) <=> Paid(x)'
  BY <1>2 DEF Paid
<1>8. /\ ~Paid(x) => Allocation(c)[x] = 0
      /\ voidOp[x] # "none" /\ Untouched(x) => Allocation(c)[x] = 0 \/ x \in borrowed'
  BY <1>4, <1>5, TakenLocally
<1>9. Untouched(x) /\ Allocation(c)[x] = 0 => Untouched(x)'
  BY <1>2, <1>3 DEF Untouched
<1>10. Whereabouts(x)'
  BY <1>2, <1>3, <1>4, <1>5, <1>6, <1>7, <1>8, <1>9 DEF Whereabouts
<1> QED BY <1>3, <1>4, <1>7, <1>10 DEF Moves, Steady

LEMMA SliceMoves ==
  ASSUME MInv, NEW x \in Edits, NEW a \in Refunders, NEW y \in Intents,
         SendSlice(a, y) \/ RecordSlice(a, y)
  PROVE  Moves(x)
<1>0. x \in Intents
  BY DEF Edits, Intents
<1>1. UNCHANGED <<stripe, voidOp, backOp, mail, status, counted, raced, borrowed>>
  BY DEF SendSlice, RecordSlice, ops, events, booking
<1>2. /\ sent \subseteq sent' /\ \A r \in sent' : r.of = y \/ r \in sent
  BY DEF SendSlice, RecordSlice, Key
<1>3. row' = row \/ \E v : row' = [row EXCEPT ![y].refunded = v]
  <2>1. Key(a, y).of = y
    BY DEF Key
  <2> QED BY <2>1 DEF SendSlice, RecordSlice, Record
<1>4. /\ row'[x].status = row[x].status /\ row'[x].amount = row[x].amount
      /\ row'[x].rank = row[x].rank /\ (x # y => row'[x].refunded = row[x].refunded)
  BY <1>0, <1>3, RefundedSet DEF MInv, BInv, Forms, Same
<1>5. Whereabouts(x)
  BY DEF MInv
<1>6. CASE x # y
  <2>1. Alone(x)
    <3>1. Same(x)
      BY <1>4, <1>6 DEF Same
    <3>2. \A r \in sent' : r.of = x => r \in sent
      BY <1>2, <1>6
    <3> QED BY <1>1, <1>2, <3>1, <3>2 DEF Alone
  <2> QED BY <1>5, <2>1, AloneMoves
<1>7. CASE x = y
  <2>1. at[a] \in {"send", "record"} /\ x \in togo[a]
    BY <1>7 DEF SendSlice, RecordSlice, IsNext
  <2>2. Paid(x) /\ (voidOp[x] = "none" \/ x \in borrowed)
    BY <2>1 DEF MInv, Aimed
  <2>3. Paid(x)'
    BY <1>4, <2>2 DEF Paid
  <2>4. CameBack(x) => CameBack(x)'
    BY <1>2, <1>4 DEF CameBack
  <2>5. Whereabouts(x)'
    BY <1>1, <1>4, <1>5, <2>2, <2>3, <2>4 DEF Whereabouts
  <2> QED BY <1>1, <2>3, <2>5 DEF Moves, Steady
<1> QED BY <1>6, <1>7

LEMMA SyncMoves ==
  ASSUME MInv, NEW x \in Edits, NEW y \in Intents, SyncRefunds(y)
  PROVE  Moves(x)
<1>0. x \in Intents
  BY DEF Edits, Intents
<1>1. UNCHANGED <<stripe, sent, voidOp, backOp, mail, status, counted, raced, borrowed>>
  BY DEF SyncRefunds, ops, events, booking, past
<1>2. PICK v : SettleRow(y, v)
  BY DEF SyncRefunds
<1>3. Whereabouts(x)
  BY DEF MInv
<1>4. CASE x # y
  <2>1. Alone(x)
    BY <1>0, <1>1, <1>2, <1>4, Settled DEF Alone, MInv, BInv, Forms
  <2> QED BY <1>3, <2>1, AloneMoves
<1>5. CASE x = y
  <2>1. row'[x].status = "SUCCEEDED" /\ row'[x].amount = row[x].amount
    BY <1>0, <1>2, <1>5, Settled DEF MInv, BInv, Forms
  <2>2. ~Untouched(x) /\ row[x].status # "none"
    BY <1>5 DEF SyncRefunds, Untouched
  <2>3. CameBack(x) => CameBack(x)'
    BY <1>1, <2>1 DEF CameBack
  <2>4. Whereabouts(x)'
    BY <1>1, <1>3, <2>1, <2>2, <2>3 DEF Whereabouts, Paid
  <2> QED BY <1>1, <2>1, <2>4 DEF Moves, Steady, Paid
<1> QED BY <1>4, <1>5

LEMMA SupersedeMoves ==
  ASSUME MInv, NEW x \in Edits, NEW e \in Edits, Supersede(e)
  PROVE  Moves(x)
<1>0. x \in Intents
  BY DEF Edits, Intents
<1>1. UNCHANGED <<row, stripe, sent, backOp, mail, status, counted, raced, borrowed>>
  BY DEF Supersede, booking, refunds, events, past
<1>2. voidOp'[x] = voidOp[x] \/ (~Paid(x) /\ voidOp[x] = "none" /\ voidOp'[x] = "due")
  BY <1>0 DEF Supersede, Superseded, Paid
<1>3. Whereabouts(x)
  BY DEF MInv
<1>4. CameBack(x)' <=> CameBack(x)
  BY <1>1 DEF CameBack
<1>5. (Untouched(x)' <=> Untouched(x)) /\ (Paid(x)' <=> Paid(x))
  BY <1>1 DEF Untouched, Paid
<1>6. Whereabouts(x)'
  BY <1>1, <1>2, <1>3, <1>4, <1>5 DEF Whereabouts
<1> QED BY <1>1, <1>2, <1>5, <1>6 DEF Moves, Steady

LEMMA MintMoves ==
  ASSUME MInv, NEW x \in Edits, NEW e \in Edits, MintIntent(e)
  PROVE  Moves(x)
<1>0. x \in Intents /\ e \in Intents /\ Edits \subseteq Intents
  BY DEF Edits, Intents
<1>1. UNCHANGED <<row, sent, voidOp, backOp, mail, status, counted, raced, borrowed>>
  BY DEF MintIntent, booking, refunds, events, past
<1>2. \A y \in Edits : stripe'[y] = IF y = e /\ stripe' # stripe THEN "open" ELSE stripe[y]
  BY <1>0 DEF MintIntent, MInv, BInv, Shapes, PlaceShapes
<1>3. Whereabouts(x) /\ Traced(x)
  BY DEF MInv, BInv, AllTraced
<1>4. CASE x # e
  <2>1. Alone(x)
    BY <1>1, <1>2, <1>4 DEF Alone, Same
  <2> QED BY <1>3, <2>1, AloneMoves
<1>5. CASE x = e
  <2>1. Unbilled(x)
    BY <1>3, <1>5 DEF MintIntent, Traced, Billed
  <2>2. stripe[x] # "captured" /\ stripe'[x] # "captured" /\ voidOp[x] = "none"
    BY <1>2, <2>1 DEF Unbilled
  <2>3. CameBack(x)' <=> CameBack(x)
    BY <1>1 DEF CameBack
  <2>4. (Untouched(x)' <=> Untouched(x)) /\ (Paid(x)' <=> Paid(x))
    BY <1>1 DEF Untouched, Paid
  <2>5. Whereabouts(x)'
    BY <1>1, <1>3, <2>2, <2>3, <2>4 DEF Whereabouts
  <2> QED BY <1>1, <2>4, <2>5 DEF Moves, Steady
<1> QED BY <1>4, <1>5

LEMMA RegisterMoves ==
  ASSUME MInv, NEW x \in Edits, NEW e \in Edits, Register(e)
  PROVE  Moves(x)
<1>0. x \in Intents /\ e \in Intents
  BY DEF Edits, Intents
<1>1. UNCHANGED <<stripe, sent, voidOp, backOp, mail, status, counted, raced, borrowed>>
  BY DEF Register, booking, refunds, events
<1>2. Whereabouts(x) /\ Traced(x)
  BY DEF MInv, BInv, AllTraced
<1>3. CASE row' = row
  BY <1>1, <1>3, IdleMoves
<1>4. CASE row' = [row EXCEPT ![e] = [status |-> "PENDING", amount |-> edit[e].add,
                     refunded |-> 0, rank |-> Cardinality(Registered) + 1]]
  <2>1. /\ \A y \in Intents \ {e} : Same(y)
        /\ row'[e].status = "PENDING" /\ row'[e].amount = edit[e].add /\ row'[e].refunded = 0
    BY <1>0, <1>4, Begun DEF MInv, BInv, Forms
  <2>2. CASE x # e
    <3>1. Alone(x)
      BY <1>0, <1>1, <2>1, <2>2 DEF Alone
    <3> QED BY <1>2, <3>1, AloneMoves
  <2>3. CASE x = e
    <3>1. Unbilled(x) /\ edit[x].add \in Nat \ {0}
      BY <1>2, <2>3 DEF Register, Traced, Billed, Billing
    <3>2. ~Paid(x) /\ Untouched(x)
      BY <1>2, <3>1 DEF Unbilled, Paid, Whereabouts
    <3>3. ~Paid(x)' /\ Untouched(x)'
      BY <1>1, <2>1, <2>3, <3>2 DEF Paid, Untouched
    <3>4. Whereabouts(x)'
      BY <1>1, <1>2, <2>1, <2>3, <3>1, <3>2, <3>3 DEF Whereabouts, Unbilled
    <3> QED BY <1>1, <3>2, <3>4 DEF Moves, Steady
  <2> QED BY <2>2, <2>3
<1> QED BY <1>3, <1>4 DEF Register

LEMMA PayMoves ==
  ASSUME MInv, NEW x \in Edits, NEW y \in Edits, Pay(y)
  PROVE  Moves(x)
<1>0. x \in Intents /\ y \in Intents
  BY DEF Edits, Intents
<1>1. UNCHANGED <<row, sent, voidOp, backOp, status, counted, raced, borrowed>>
  BY DEF Pay, booking, refunds, ops, past
<1>2. /\ x # y => (stripe'[x] = stripe[x] /\ (x \in mail' <=> x \in mail))
      /\ stripe[y] = "open" /\ stripe'[y] = "captured" /\ y \in mail'
  BY <1>0 DEF Pay, MInv, BInv, Shapes, PlaceShapes
<1>3. Whereabouts(x)
  BY DEF MInv
<1>4. CASE x # y
  <2>1. Alone(x)
    BY <1>1, <1>2, <1>4 DEF Alone, Same
  <2> QED BY <1>3, <2>1, AloneMoves
<1>5. CASE x = y
  <2>1. (CameBack(x)' <=> CameBack(x)) /\ (Untouched(x)' <=> Untouched(x)) /\ (Paid(x)' <=> Paid(x))
    BY <1>1 DEF CameBack, Untouched, Paid
  <2>2. Whereabouts(x)'
    BY <1>1, <1>2, <1>3, <1>5, <2>1 DEF Whereabouts
  <2> QED BY <1>1, <2>1, <2>2 DEF Moves, Steady
<1> QED BY <1>4, <1>5

(* A status is set, the money stays where it is.                            *)
LEMMA StatusMoves ==
  ASSUME MInv, NEW x \in Edits, NEW y \in Edits,
         Decline(y) \/ Confirm(y) \/ MarkPaid(y)
  PROVE  Moves(x)
<1>0. x \in Intents /\ y \in Intents
  BY DEF Edits, Intents
<1>1. UNCHANGED <<stripe, sent, voidOp, backOp, status, counted, borrowed>>
  BY DEF Decline, Confirm, MarkPaid, booking, refunds, ops, past
<1>2. PICK st : SetRow(y, st) /\ (st = "SUCCEEDED" \/ (st = "FAILED" /\ Decline(y)))
  BY DEF Decline, Confirm, MarkPaid
<1>3. /\ \A z \in Intents \ {y} : Same(z)
      /\ row'[y].status = st /\ row'[y].amount = row[y].amount
      /\ row'[y].refunded = row[y].refunded
  BY <1>0, <1>2, StatusSet DEF SetRow, MInv, BInv, Forms
<1>4. /\ x # y => (x \in mail' <=> x \in mail)
      /\ x \in raced => x \in raced'
  BY DEF Decline, Confirm, MarkPaid, Handled, events, past
<1>5. Whereabouts(x)
  BY DEF MInv
<1>6. CASE x # y
  <2>1. Alone(x)
    BY <1>0, <1>1, <1>3, <1>4, <1>6 DEF Alone
  <2> QED BY <1>5, <2>1, AloneMoves
<1>7. CASE x = y /\ Decline(y)
  <2>1. mail' = mail /\ raced' = raced /\ stripe[x] = "open" /\ row[x].status = "PENDING"
    BY <1>7 DEF Decline, events, past
  <2>2. (CameBack(x)' <=> CameBack(x)) /\ (Untouched(x)' <=> Untouched(x))
    BY <1>1, <1>3, <1>7 DEF CameBack, Untouched
  <2>3. ~Paid(x) /\ Untouched(x)
    BY <1>5, <2>1 DEF Paid, Whereabouts
  <2>4. Whereabouts(x)'
    BY <1>1, <1>3, <1>5, <1>7, <2>1, <2>2, <2>3 DEF Whereabouts, Paid
  <2> QED BY <1>1, <2>3, <2>4 DEF Moves, Steady
<1>8. CASE x = y /\ ~Decline(y)
  <2>1. Paid(x)'
    BY <1>2, <1>3, <1>8 DEF Paid
  <2>2. row[x].status # "none"
    <3>1. Confirm(x) => row[x].status # "none"
      BY DEF Confirm, Newest, Registered
    <3>2. MarkPaid(x) => stripe[x] = "captured" /\ Traced(x)
      BY DEF MarkPaid, MInv, BInv, Posted, AllTraced
    <3> QED BY <1>8, <3>1, <3>2 DEF Traced, Unbilled, Billed
  <2>3. (CameBack(x)' <=> CameBack(x)) /\ (Untouched(x)' <=> Untouched(x))
    BY <1>1, <1>3, <1>8 DEF CameBack, Untouched
  <2>4. status = "CANCELLED" /\ x \in mail => x \in mail' \/ x \in raced'
    BY <1>8 DEF Confirm, MarkPaid, events
  <2>5. Whereabouts(x)'
    BY <1>1, <1>3, <1>4, <1>5, <1>8, <2>1, <2>2, <2>3, <2>4 DEF Whereabouts
  <2> QED BY <1>1, <2>1, <2>5 DEF Moves, Steady
<1> QED BY <1>6, <1>7, <1>8

LEMMA HandOffEffect ==
  ASSUME RowForms, Shapes, NEW y \in Intents, HandOff(y)
  PROVE  /\ \A z \in Intents \ {y} : Same(z) /\ voidOp'[z] = voidOp[z] /\ backOp'[z] = backOp[z]
         /\ row'[y].status = "SUCCEEDED" /\ row'[y].amount = row[y].amount
         /\ row'[y].refunded = row[y].refunded
         /\ voidOp'[y] = "done" /\ backOp'[y] # "none"
         /\ backOp[y] # "none" => backOp'[y] = backOp[y]
         /\ backOp'[y] = "done" => backOp[y] = "done"
<1>1. /\ \A z \in Intents \ {y} : Same(z)
      /\ row'[y].status = "SUCCEEDED" /\ row'[y].amount = row[y].amount
      /\ row'[y].refunded = row[y].refunded
  BY StatusSet DEF HandOff, SetRow
<1>2. \A z \in Intents : voidOp'[z] = IF z = y THEN "done" ELSE voidOp[z]
  BY DEF HandOff, Shapes, OperationShapes
<1>3. \A z \in Intents : backOp'[z] = IF z = y /\ backOp[z] = "none" THEN "due" ELSE backOp[z]
  BY DEF HandOff, Shapes, OperationShapes
<1> QED BY <1>1, <1>2, <1>3

LEMMA HandOffMoves ==
  ASSUME MInv, NEW x \in Edits, NEW y \in Edits, HandOff(y), voidOp[y] = "due",
         stripe[y] = "captured", UNCHANGED <<stripe, sent, status, counted, raced, borrowed>>,
         \A z \in Edits \ {y} : z \in mail' <=> z \in mail
  PROVE  Moves(x)
<1>0. x \in Intents /\ y \in Intents
  BY DEF Edits, Intents
<1>1. /\ \A z \in Intents \ {y} : Same(z) /\ voidOp'[z] = voidOp[z] /\ backOp'[z] = backOp[z]
      /\ row'[y].status = "SUCCEEDED" /\ row'[y].amount = row[y].amount
      /\ row'[y].refunded = row[y].refunded
      /\ voidOp'[y] = "done" /\ backOp'[y] # "none"
      /\ backOp'[y] = "done" => backOp[y] = "done"
  BY <1>0, HandOffEffect DEF MInv, BInv, Forms
<1>2. Whereabouts(x) /\ Traced(y)
  BY DEF MInv, BInv, AllTraced
<1>3. CASE x # y
  <2>1. Alone(x)
    BY <1>0, <1>1, <1>3 DEF Alone
  <2> QED BY <1>2, <2>1, AloneMoves
<1>4. CASE x = y
  <2>1. row[x].status # "none"
    BY <1>2, <1>4 DEF Traced, Unbilled, Billed
  <2>2. (CameBack(x)' <=> CameBack(x)) /\ (Untouched(x)' <=> Untouched(x)) /\ Paid(x)'
    BY <1>1, <1>4 DEF CameBack, Untouched, Paid
  <2>3. Whereabouts(x)'
    BY <1>1, <1>2, <1>4, <2>1, <2>2 DEF Whereabouts
  <2> QED BY <1>4, <2>2, <2>3 DEF Moves, Steady
<1> QED BY <1>3, <1>4

LEMMA EventMoves ==
  ASSUME MInv, NEW x \in Edits, NEW y \in Edits, ReadEvent(y)
  PROVE  Moves(x)
<1>1. UNCHANGED <<stripe, sent, status, counted, raced, borrowed>>
  BY DEF ReadEvent, booking, refunds, past
<1>2. \A z \in Edits \ {y} : z \in mail' <=> z \in mail
  BY DEF ReadEvent, Handled
<1>3. stripe[y] = "captured"
  BY DEF ReadEvent, MInv, BInv, Posted
<1>4. CASE voidOp[y] = "due" /\ HandOff(y)
  BY <1>1, <1>2, <1>3, <1>4, HandOffMoves
<1>5. CASE UNCHANGED <<row, voidOp, backOp, mail>>
  BY <1>1, <1>5, IdleMoves
<1>6. CASE status = "PAID" /\ row[y].status = "SUCCEEDED" /\ UNCHANGED <<row, voidOp, backOp>>
  <2>1. Whereabouts(x)
    BY DEF MInv
  <2>2. CASE x # y
    <3>1. Alone(x)
      BY <1>1, <1>2, <1>6, <2>2 DEF Alone, Same
    <3> QED BY <2>1, <3>1, AloneMoves
  <2>3. CASE x = y
    <3>1. (CameBack(x)' <=> CameBack(x)) /\ (Untouched(x)' <=> Untouched(x)) /\ Paid(x)' /\ Paid(x)
      BY <1>1, <1>6, <2>3 DEF CameBack, Untouched, Paid
    <3>2. Whereabouts(x)'
      BY <1>1, <1>6, <2>1, <3>1 DEF Whereabouts
    <3> QED BY <1>1, <1>6, <3>1, <3>2 DEF Moves, Steady
  <2> QED BY <2>2, <2>3
<1> QED BY <1>4, <1>5, <1>6 DEF ReadEvent

LEMMA LateMoves ==
  ASSUME MInv, NEW x \in Edits, NEW y \in Edits, ReturnLate(y)
  PROVE  Moves(x)
<1>0. x \in Intents /\ y \in Intents
  BY DEF Edits, Intents
<1>1. UNCHANGED <<stripe, voidOp, backOp, status, counted, raced, borrowed>>
  BY DEF ReturnLate, booking, ops, past
<1>2. \/ /\ sent' = sent \union {Late(y)} /\ SettleRow(y, row[y].amount)
      \/ sent' = sent /\ mail' = mail /\ SetRow(y, "SUCCEEDED")
  BY DEF ReturnLate
<1>3. /\ \A z \in Intents \ {y} : Same(z)
      /\ row'[y].status = "SUCCEEDED" /\ row'[y].amount = row[y].amount
  BY <1>0, <1>2, StatusSet, Settled DEF SetRow, MInv, BInv, Forms
<1>4. sent \subseteq sent' /\ \A r \in sent' : r.of = y \/ r \in sent
  BY <1>2 DEF Late
<1>5. \A z \in Edits \ {y} : z \in mail' <=> z \in mail
  BY DEF ReturnLate, Handled
<1>6. Whereabouts(x)
  BY DEF MInv
<1>7. CASE x # y
  <2>1. \A r \in sent' : r.of = x => r \in sent
    BY <1>4, <1>7
  <2>2. Alone(x)
    BY <1>0, <1>1, <1>3, <1>4, <1>5, <1>7, <2>1 DEF Alone
  <2> QED BY <1>6, <2>2, AloneMoves
<1>8. CASE x = y
  <2>1. stripe[x] = "captured" /\ Traced(x)
    BY <1>8 DEF ReturnLate, MInv, BInv, Posted, AllTraced
  <2>2. row[x].status # "none"
    BY <2>1 DEF Traced, Unbilled, Billed
  <2>3. Paid(x)' /\ (CameBack(x) => CameBack(x)')
    BY <1>3, <1>4, <1>8 DEF Paid, CameBack
  <2>4. CASE sent' = sent \union {Late(y)}
    <3>1. Late(x) \in sent' /\ Late(x).of = x /\ Late(x).by # "edit" /\ Late(x).cents = row'[x].amount
      BY <1>3, <1>8, <2>4 DEF Late
    <3>2. CameBack(x)'
      BY <3>1 DEF CameBack
    <3>3. Whereabouts(x)'
      BY <1>1, <1>3, <1>6, <1>8, <2>2, <2>3, <3>2 DEF Whereabouts
    <3> QED BY <1>1, <2>3, <3>3 DEF Moves, Steady
  <2>5. CASE sent' = sent /\ mail' = mail /\ SetRow(y, "SUCCEEDED")
    <3>1. row'[x].refunded = row[x].refunded
      BY <1>0, <1>8, <2>5, StatusSet DEF SetRow, MInv, BInv, Forms
    <3>2. Untouched(x)' <=> Untouched(x)
      BY <2>5, <3>1 DEF Untouched
    <3>3. Whereabouts(x)'
      BY <1>1, <1>3, <1>6, <1>8, <2>2, <2>3, <2>5, <3>2 DEF Whereabouts
    <3> QED BY <1>1, <2>3, <3>3 DEF Moves, Steady
  <2> QED BY <1>2, <2>4, <2>5
<1> QED BY <1>7, <1>8

LEMMA VoidMoves ==
  ASSUME MInv, NEW x \in Edits, NEW y \in Edits, VoidIntent(y)
  PROVE  Moves(x)
<1>0. x \in Intents /\ y \in Intents
  BY DEF Edits, Intents
<1>1. UNCHANGED <<sent, mail, status, counted, raced, borrowed>>
  BY DEF VoidIntent, booking, refunds, events, past
<1>2. Whereabouts(x)
  BY DEF MInv
<1>3. CASE stripe[y] = "captured" /\ HandOff(y) /\ UNCHANGED stripe
  <2>1. voidOp[y] = "due"
    BY DEF VoidIntent
  <2> QED BY <1>1, <1>3, <2>1, HandOffMoves
<1>4. CASE /\ stripe[y] \in {"open", "void"} /\ stripe' = [stripe EXCEPT ![y] = "void"]
           /\ row' = IF row[y].status = "PENDING" THEN [row EXCEPT ![y].status = "FAILED"] ELSE row
           /\ voidOp' = [voidOp EXCEPT ![y] = "done"] /\ UNCHANGED backOp
  <2>1. /\ \A z \in Intents \ {y} : Same(z)
        /\ row'[y].amount = row[y].amount /\ row'[y].refunded = row[y].refunded
        /\ row'[y].status = IF row[y].status = "PENDING" THEN "FAILED" ELSE row[y].status
    BY <1>0, <1>4, StatusSet DEF MInv, BInv, Forms, Same
  <2>2. /\ \A z \in Intents \ {y} : stripe'[z] = stripe[z] /\ voidOp'[z] = voidOp[z]
        /\ stripe'[y] = "void" /\ voidOp'[y] = "done" /\ voidOp[y] = "due"
    BY <1>0, <1>4 DEF VoidIntent, MInv, BInv, Shapes, PlaceShapes, OperationShapes
  <2>3. CASE x # y
    <3>1. Alone(x)
      BY <1>0, <1>1, <1>4, <2>1, <2>2, <2>3 DEF Alone
    <3> QED BY <1>2, <3>1, AloneMoves
  <2>4. CASE x = y
    <3>1. (CameBack(x)' <=> CameBack(x)) /\ (Untouched(x)' <=> Untouched(x)) /\ (Paid(x)' <=> Paid(x))
      BY <1>1, <2>1, <2>4 DEF CameBack, Untouched, Paid
    <3>2. row[x].status = "none" <=> row'[x].status = "none"
      BY <2>1, <2>4
    <3>3. Whereabouts(x)'
      BY <1>1, <1>2, <1>4, <2>1, <2>2, <2>4, <3>1, <3>2 DEF Whereabouts
    <3> QED BY <1>1, <2>2, <2>4, <3>1, <3>3 DEF Moves, Steady
  <2> QED BY <2>3, <2>4
<1> QED BY <1>3, <1>4 DEF VoidIntent

LEMMA ReturnMoves ==
  ASSUME MInv, NEW x \in Edits, NEW y \in Edits, ReturnWithdrawn(y)
  PROVE  Moves(x)
<1>0. x \in Intents /\ y \in Intents
  BY DEF Edits, Intents
<1>1. UNCHANGED <<stripe, voidOp, mail, status, counted, raced, borrowed>>
  BY DEF ReturnWithdrawn, booking, events, past
<1>2. row' = row \/ \E v : row' = [row EXCEPT ![y].refunded = v]
  <2>1. Back(y).of = y
    BY DEF Back
  <2> QED BY <2>1 DEF ReturnWithdrawn, Record
<1>3. /\ row'[x].status = row[x].status /\ row'[x].amount = row[x].amount
      /\ row'[x].rank = row[x].rank /\ (x # y => row'[x].refunded = row[x].refunded)
  BY <1>0, <1>2, RefundedSet DEF MInv, BInv, Forms, Same
<1>4. /\ backOp[y] = "due" /\ backOp'[y] \in {"due", "done"}
      /\ x # y => backOp'[x] = backOp[x]
  BY <1>0 DEF ReturnWithdrawn, MInv, BInv, Shapes, OperationShapes
<1>5. sent' = sent \/ sent' = sent \union {Back(y)}
  BY DEF ReturnWithdrawn
<1>6. sent \subseteq sent' /\ \A r \in sent' : r.of = y \/ r \in sent
  BY <1>5 DEF Back
<1>7. Whereabouts(x)
  BY DEF MInv
<1>8. CASE x # y
  <2>1. \A r \in sent' : r.of = x => r \in sent
    BY <1>6, <1>8
  <2>2. Same(x)
    BY <1>3, <1>8 DEF Same
  <2>3. Alone(x)
    BY <1>1, <1>4, <1>6, <1>8, <2>1, <2>2 DEF Alone
  <2> QED BY <1>7, <2>3, AloneMoves
<1>9. CASE x = y
  <2>1. Paid(x) /\ Paid(x)'
    BY <1>3, <1>4, <1>7, <1>9 DEF Whereabouts, Paid
  <2>2. CameBack(x) => CameBack(x)'
    BY <1>3, <1>6 DEF CameBack
  <2>3. voidOp[x] # "none"
    BY <1>4, <1>7, <1>9 DEF Whereabouts
  <2>4. x \in borrowed \/ CameBack(x)'
    <3>1. CASE Untouched(x)
      <4>1. row[x].amount \in Nat \ {0} /\ row[x].refunded = 0
        BY <1>7, <2>1, <3>1 DEF Whereabouts, Paid, Untouched
      <4>2. Room[x] = row[x].amount - row[x].refunded
        BY <1>0, <2>1 DEF Room, Captured, Paid
      <4>3. Room[x] = row[x].amount /\ Room[x] # 0
        BY <4>1, <4>2
      <4>4. sent' = sent \union {Back(x)}
        BY <1>9, <4>3 DEF ReturnWithdrawn
      <4>5. Back(x) \in sent' /\ Back(x).of = x /\ Back(x).by # "edit" /\ Back(x).cents = row'[x].amount
        BY <1>3, <4>3, <4>4 DEF Back
      <4> QED BY <4>5 DEF CameBack
    <3>2. CASE ~Untouched(x)
      BY <1>7, <2>2, <2>3, <3>2 DEF Whereabouts
    <3> QED BY <3>1, <3>2
  <2>5. Whereabouts(x)'
    BY <1>1, <1>3, <1>4, <1>7, <1>9, <2>1, <2>2, <2>4 DEF Whereabouts
  <2> QED BY <1>1, <2>1, <2>5 DEF Moves, Steady
<1> QED BY <1>8, <1>9

LEMMA CancelMoves ==
  ASSUME MInv, NEW x \in Edits, NEW way \in {"card", "credit"}, NEW s, Cancel(way, s)
  PROVE  Moves(x)
<1>0. x \in Intents
  BY DEF Edits, Intents
<1>1. UNCHANGED <<stripe, sent, backOp, mail, raced>> /\ status' = "CANCELLED" /\ counted' = Captured
  BY DEF Cancel, events
<1>2. PICK c : /\ borrowed' = Borrows(Allocation(c))
               /\ row' = [z \in Intents |->
                    With(z, IF z \in Outstanding THEN "FAILED" ELSE row[z].status,
                         IF way = "credit" THEN row[z].refunded + Allocation(c)[z]
                         ELSE row[z].refunded)]
  BY DEF Cancel
<1>3. /\ row'[x].status = IF x \in Outstanding THEN "FAILED" ELSE row[x].status
      /\ row'[x].amount = row[x].amount
      /\ row'[x].refunded = row[x].refunded \/ row'[x].refunded = row[x].refunded + Allocation(c)[x]
  <2>1. \A st, v : /\ With(x, st, v).status = st /\ With(x, st, v).amount = row[x].amount
                  /\ With(x, st, v).refunded = v
    BY DEF With
  <2> QED BY <1>0, <1>2, <2>1
<1>4. x \in Outstanding => row[x].status = "PENDING"
  BY DEF Outstanding
<1>5. voidOp'[x] = voidOp[x] \/ (~Paid(x) /\ voidOp[x] = "none" /\ voidOp'[x] = "due")
  BY <1>0, <1>4 DEF Cancel, Paid
<1>6. Whereabouts(x)
  BY DEF MInv
<1>7. CameBack(x) => CameBack(x)'
  BY <1>1, <1>3 DEF CameBack
<1>8. Paid(x) <=> Paid(x)'
  BY <1>3, <1>4 DEF Paid
<1>9. /\ ~Paid(x) => Allocation(c)[x] = 0
      /\ voidOp[x] # "none" /\ Untouched(x) => Allocation(c)[x] = 0 \/ x \in borrowed'
  BY <1>2, <1>6, TakenLocally
<1>10. Untouched(x) /\ Allocation(c)[x] = 0 => Untouched(x)'
  BY <1>1, <1>3 DEF Untouched
<1>11. x \in borrowed => x \in borrowed'
  BY <1>2 DEF Borrows
<1>12. row[x].status = "none" => row'[x].status = "none"
  BY <1>3, <1>4
<1>13. ~Paid(x) <=> x \notin counted'
  BY <1>0, <1>1 DEF Captured, Paid
<1>14. Whereabouts(x)'
  BY <1>1, <1>3, <1>5, <1>6, <1>7, <1>8, <1>9, <1>10, <1>11, <1>12, <1>13 DEF Whereabouts
<1> QED BY <1>5, <1>8, <1>11, <1>14 DEF Moves, Steady

LEMMA TearMoves ==
  ASSUME MInv, NEW x \in Edits, TearDown
  PROVE  Moves(x)
<1>0. x \in Intents
  BY DEF Edits, Intents
<1>1. UNCHANGED <<row, sent, voidOp, backOp, mail, status, counted, raced, borrowed>>
  BY DEF TearDown, booking, refunds, ops, events, past
<1>2. stripe'[x] = stripe[x] \/ (stripe[x] = "open" /\ stripe'[x] = "void")
  BY <1>0 DEF TearDown
<1>3. Whereabouts(x)
  BY DEF MInv
<1>4. (CameBack(x)' <=> CameBack(x)) /\ (Untouched(x)' <=> Untouched(x)) /\ (Paid(x)' <=> Paid(x))
  BY <1>1 DEF CameBack, Untouched, Paid
<1>5. Whereabouts(x)'
  BY <1>1, <1>2, <1>3, <1>4 DEF Whereabouts
<1> QED BY <1>1, <1>4, <1>5 DEF Moves, Steady

LEMMA AllMove ==
  ASSUME MInv, [Next]_vars, NEW x \in Edits
  PROVE  Moves(x)
<1>1. ASSUME NEW e \in Edits, NEW cents, NEW s,
             CommitIncrease(e, cents) \/ CommitCardReduction(e, cents, s)
      PROVE  Moves(x)
  <2>1. UNCHANGED <<row, stripe, sent, voidOp, backOp, mail, status, counted, raced, borrowed>>
    BY <1>1 DEF CommitIncrease, CommitCardReduction, Commit, ops, events
  <2> QED BY <2>1, IdleMoves
<1>2. ASSUME NEW a \in Refunders, ReadRows(a) \/ FinishRefund(a) \/ Replay(a) \/ Crash(a)
      PROVE  Moves(x)
  <2>1. UNCHANGED <<row, stripe, sent, voidOp, backOp, mail, status, counted, raced>>
    BY <1>2 DEF ReadRows, FinishRefund, Replay, Crash, booking, refunds, ops, events, past
  <2>2. borrowed \subseteq borrowed'
    BY <1>2 DEF ReadRows, FinishRefund, Replay, Crash, BeginRefund, Borrows, past
  <2> QED BY <2>1, <2>2, IdleMoves
<1>3. ASSUME NEW e \in Edits, FreezePlan(e) \/ ResumeIntent(e)
      PROVE  Moves(x)
  <2>1. UNCHANGED <<row, stripe, sent, voidOp, backOp, mail, status, counted, raced, borrowed>>
    BY <1>3 DEF FreezePlan, ResumeIntent, booking, refunds, ops, events, past
  <2> QED BY <2>1, IdleMoves
<1>4. CASE UNCHANGED vars
  <2>1. UNCHANGED <<row, stripe, sent, voidOp, backOp, mail, status, counted, raced, borrowed>>
    BY <1>4 DEF vars, booking, refunds, ops, events, past
  <2> QED BY <2>1, IdleMoves
<1> QED BY <1>1, <1>2, <1>3, <1>4, CreditMoves, SliceMoves, SyncMoves, SupersedeMoves, MintMoves,
           RegisterMoves, PayMoves, StatusMoves, EventMoves, LateMoves, VoidMoves, ReturnMoves,
           CancelMoves, TearMoves, ZenonT(60) DEF Next

(* A step that gives a refunder nothing new to take.                        *)
Calm(b) ==
  /\ at'[b] \in {"send", "record"} => at[b] \in {"send", "record"} /\ togo'[b] \subseteq togo[b]
  /\ debt'[b].op = "frozen" => debt[b].op = "frozen" /\ plan'[b] = plan[b]

LEMMA CalmAims ==
  ASSUME MInv, NEW b \in Refunders, Calm(b), NEW x \in Edits, Steady(x)
  PROVE  Aimed(b, x)'
<1>1. Aimed(b, x)
  BY DEF MInv
<1> QED BY <1>1 DEF Aimed, Calm, Steady

LEMMA FreshAims ==
  ASSUME NEW c, NEW x \in Edits, Allocation(c)[x] > 0
  PROVE  Paid(x)
<1>1. x \in Intents
  BY DEF Edits, Intents
<1>2. ~(0 > 0)
  OBVIOUS
<1> QED BY <1>1, <1>2, AllocationForm

(* What begins a refund looks at is divided among rows that are paid.       *)
LEMMA BeginAims ==
  ASSUME MInv, NEW a \in Refunders, NEW p, BeginRefund(a, p), UNCHANGED <<debt, voidOp>>,
         NEW x \in Edits, Steady(x), p[x] > 0 => Paid(x)
  PROVE  Aimed(a, x)'
<1>1. togo'[a] = Planned(p) /\ plan'[a] = p /\ borrowed' = Borrows(p)
  BY DEF BeginRefund, MInv, BInv, Forms, PlanForms
<1>2. x \in togo'[a] => p[x] > 0 /\ (voidOp[x] = "none" \/ x \in borrowed')
  BY <1>1 DEF Planned, Borrows
<1> QED BY <1>1, <1>2 DEF Aimed, Steady

LEMMA RefundAims ==
  ASSUME MInv, NEW a \in Refunders, RefundStep(a), NEW b \in Refunders, NEW x \in Edits, Steady(x)
  PROVE  Aimed(b, x)'
<1>1. DebtForms' /\ \A d \in Refunders \ {a} : debt'[d] = debt[d]
  BY RefundDebts DEF MInv, BInv, Forms
<1>2. CASE b # a
  <2>1. at'[b] = at[b] /\ togo'[b] = togo[b] /\ plan'[b] = plan[b]
    BY <1>2 DEF RefundStep, ReadRows, SendSlice, RecordSlice, FinishRefund, Replay, BeginRefund, Owe,
       FailSend, Goto, work, MInv, BInv, Shapes, PlaceShapes, Forms, PlanForms
  <2> QED BY <1>1, <1>2, <2>1, CalmAims DEF Calm
<1>3. CASE b = a /\ \E c : Owe(a, c) /\ plan' = plan
  <2>1. PICK c : Owe(a, c) /\ plan' = plan
    BY <1>3
  <2>2. at'[a] = "done"
    BY <2>1 DEF Owe, Goto, MInv, BInv, Shapes, PlaceShapes
  <2>3. debt'[a].op = "frozen" => debt[a].op = "frozen"
    BY <2>1, OweEffect DEF MInv, BInv, Forms
  <2> QED BY <1>3, <2>1, <2>2, <2>3, CalmAims DEF Calm
<1>4. CASE b = a /\ ReadRows(a)
  <2>1. UNCHANGED voidOp
    BY <1>4 DEF ReadRows, ops
  <2>2. CASE debt[a].op = "frozen" /\ BeginRefund(a, plan[a]) /\ UNCHANGED debt
    <3>1. plan[a][x] > 0 => Paid(x)
      BY <2>2 DEF MInv, Aimed
    <3> QED BY <1>4, <2>1, <2>2, <3>1, BeginAims
  <2>3. CASE BeginRefund(a, Allocation(edit[a].due)) /\ UNCHANGED debt
    <3>1. Allocation(edit[a].due)[x] > 0 => Paid(x)
      BY FreshAims
    <3> QED BY <1>4, <2>1, <2>3, <3>1, BeginAims
  <2>4. CASE Owe(a, edit[a].due) /\ UNCHANGED work
    BY <1>3, <1>4, <2>4 DEF work
  <2> QED BY <1>4, <2>2, <2>3, <2>4 DEF ReadRows
<1>5. CASE b = a /\ \E y \in Intents : SendSlice(a, y)
  <2>1. UNCHANGED <<plan, togo>> /\ at[a] = "send"
    BY <1>5 DEF SendSlice, work
  <2>2. (\E c : Owe(a, c)) \/ debt' = debt
    BY <1>5 DEF SendSlice, FailSend
  <2>3. CASE debt' = debt
    BY <1>5, <2>1, <2>3, CalmAims DEF Calm
  <2> QED BY <1>3, <1>5, <2>1, <2>2, <2>3
<1>6. CASE b = a /\ \E y \in Intents : RecordSlice(a, y)
  <2>1. UNCHANGED plan /\ at[a] = "record" /\ togo'[a] \subseteq togo[a]
    BY <1>6 DEF RecordSlice, MInv, BInv, Forms, PlanForms
  <2>2. (\E c : Owe(a, c)) \/ debt' = debt
    BY <1>6 DEF RecordSlice
  <2>3. CASE debt' = debt
    BY <1>6, <2>1, <2>3, CalmAims DEF Calm
  <2> QED BY <1>3, <1>6, <2>1, <2>2, <2>3
<1>7. CASE b = a /\ FinishRefund(a)
  <2>1. UNCHANGED <<plan, togo>> /\ at'[a] = "done"
    BY <1>7 DEF FinishRefund, work, Goto, MInv, BInv, Shapes, PlaceShapes
  <2>2. debt'[a].op = "frozen" => debt[a].op = "frozen"
    BY <1>7, DebtSet DEF FinishRefund, MInv, BInv, Forms
  <2> QED BY <1>7, <2>1, <2>2, CalmAims DEF Calm
<1>8. CASE b = a /\ Replay(a)
  <2>1. UNCHANGED <<plan, togo, debt>> /\ at'[a] = "read"
    BY <1>8 DEF Replay, work, Goto, MInv, BInv, Shapes, PlaceShapes
  <2> QED BY <1>8, <2>1, CalmAims DEF Calm
<1> QED BY <1>2, <1>4, <1>5, <1>6, <1>7, <1>8 DEF RefundStep

LEMMA PlanAims ==
  ASSUME MInv, NEW e \in Edits, FreezePlan(e), NEW b \in Refunders, NEW x \in Edits, Steady(x)
  PROVE  Aimed(b, x)'
<1>0. e \in Refunders
  BY DEF Edits, Refunders
<1>1. \A d \in Refunders \ {e} : debt'[d] = debt[d]
  BY <1>0, RefundDebts DEF MInv, BInv, Forms
<1>2. UNCHANGED togo /\ \A d \in Refunders \ {e} : at'[d] = at[d] /\ plan'[d] = plan[d]
  BY DEF FreezePlan, Goto, MInv, BInv, Shapes, PlaceShapes, Forms, PlanForms
<1>3. CASE b # e
  BY <1>1, <1>2, <1>3, CalmAims DEF Calm
<1>4. CASE b = e
  <2>1. at'[e] \in {"done", "read"}
    BY <1>0 DEF FreezePlan, Goto, MInv, BInv, Shapes, PlaceShapes
  <2>2. \/ debt' = [debt EXCEPT ![e].op = "done"]
        \/ \E c : plan' = [plan EXCEPT ![e] = Allocation(c)]
    BY DEF FreezePlan
  <2>3. CASE debt' = [debt EXCEPT ![e].op = "done"]
    <3>1. debt'[e].op = "done"
      BY <1>0, <2>3, DebtSet DEF MInv, BInv, Forms
    <3> QED BY <1>4, <2>1, <3>1 DEF Aimed
  <2>4. CASE \E c : plan' = [plan EXCEPT ![e] = Allocation(c)]
    <3>1. PICK c : plan'[e] = Allocation(c)
      BY <1>0, <2>4 DEF MInv, BInv, Forms, PlanForms
    <3>2. plan'[e][x] > 0 => Paid(x)
      BY <3>1, FreshAims
    <3> QED BY <1>4, <2>1, <3>2 DEF Aimed, Steady
  <2> QED BY <2>2, <2>3, <2>4
<1> QED BY <1>3, <1>4

LEMMA CancelAims ==
  ASSUME MInv, NEW way \in {"card", "credit"}, NEW s, Cancel(way, s), NEW b \in Refunders,
         NEW x \in Edits, Steady(x)
  PROVE  Aimed(b, x)'
<1>0. 0 \in Refunders
  BY EditAssumption DEF Refunders
<1>1. at'[0] \in {"teardown", "read", "done"} /\ \A d \in Refunders \ {0} : at'[d] = at[d]
  BY <1>0 DEF Cancel, Goto, MInv, BInv, Shapes, PlaceShapes
<1>2. \A d \in Refunders \ {0} : togo'[d] = togo[d] /\ plan'[d] = plan[d] /\ debt'[d] = debt[d]
  BY <1>0 DEF Cancel, MInv, BInv, Forms, PlanForms, DebtForms
<1>3. CASE b # 0
  BY <1>1, <1>2, <1>3, CalmAims DEF Calm
<1>4. CASE b = 0
  <2>1. UNCHANGED <<debt, plan>> \/ \E c : plan' = [plan EXCEPT ![0] = Allocation(c)]
    BY DEF Cancel
  <2>2. CASE UNCHANGED <<debt, plan>>
    BY <1>1, <1>4, <2>2, CalmAims DEF Calm
  <2>3. CASE \E c : plan' = [plan EXCEPT ![0] = Allocation(c)]
    <3>1. PICK c : plan'[0] = Allocation(c)
      BY <1>0, <2>3 DEF MInv, BInv, Forms, PlanForms
    <3>2. plan'[0][x] > 0 => Paid(x)
      BY <3>1, FreshAims
    <3> QED BY <1>1, <1>4, <3>2 DEF Aimed, Steady
  <2> QED BY <2>1, <2>2, <2>3
<1> QED BY <1>3, <1>4

LEMMA OtherAims ==
  ASSUME MInv, NEW b \in Refunders, NEW x \in Edits, Steady(x), UNCHANGED <<work, debt>>,
         at'[b] = at[b] \/ at'[b] \notin {"send", "record"}
  PROVE  Aimed(b, x)'
BY CalmAims DEF Calm, work

LEMMA InitMoney == Init => MInv
<1> SUFFICES ASSUME Init PROVE MInv
  OBVIOUS
<1>1. BInv
  BY InitBilled
<1>2. ASSUME NEW x \in Edits PROVE Whereabouts(x)
  <2>1. x \in Intents /\ x # 0
    BY EditAssumption DEF Edits, Intents
  <2>2. /\ row[x].status = "none" /\ row[x].refunded = 0 /\ sent = {} /\ voidOp[x] = "none"
        /\ backOp[x] = "none" /\ stripe[x] = "none"
    BY <2>1 DEF Init, NoRow
  <2> QED BY <2>2 DEF Whereabouts, Untouched, Paid
<1>3. ASSUME NEW a \in Refunders, NEW x \in Edits PROVE Aimed(a, x)
  BY DEF Init, Aimed, NoDebt
<1> QED BY <1>1, <1>2, <1>3 DEF MInv

LEMMA StepMoney == MInv /\ [Next]_vars => MInv'
<1> SUFFICES ASSUME MInv, [Next]_vars PROVE MInv'
  OBVIOUS
<1>1. BInv'
  BY StepBilled DEF MInv
<1>2. \A x \in Edits : Whereabouts(x)' /\ Steady(x)
  BY AllMove DEF Moves
<1>3. ASSUME NEW b \in Refunders, NEW x \in Edits PROVE Aimed(b, x)'
  <2>1. Steady(x)
    BY <1>2
  <2>2. CASE \E a \in Refunders : RefundStep(a)
    BY <2>1, <2>2, RefundAims
  <2>3. CASE \E e \in Edits : FreezePlan(e)
    BY <2>1, <2>3, PlanAims
  <2>4. CASE \E way \in {"card", "credit"}, s \in Shares : Cancel(way, s)
    BY <2>1, <2>4, CancelAims
  <2>5. CASE UNCHANGED <<at, work, debt>>
    BY <2>1, <2>5, OtherAims
  <2>6. CASE UNCHANGED <<work, debt>> /\ \E a \in Refunders : \E place :
               Goto(a, place) /\ place \notin {"send", "record"}
    <3>1. at'[b] = at[b] \/ at'[b] \notin {"send", "record"}
      BY <2>6 DEF Goto, MInv, BInv, Shapes, PlaceShapes
    <3> QED BY <2>1, <2>6, <3>1, OtherAims
  <2>7. 0 \in Refunders /\ Edits \subseteq Refunders
    BY EditAssumption DEF Edits, Refunders
  <2>8. ASSUME NEW e \in Edits, NEW cents, NEW s,
               \/ CommitIncrease(e, cents) \/ CommitCardReduction(e, cents, s)
               \/ CommitCreditReduction(e, cents, s)
        PROVE  UNCHANGED <<work, debt>> /\ \E a \in Refunders : \E place :
                 Goto(a, place) /\ place \notin {"send", "record"}
    <3>1. PICK kind, c : \E place \in {"mint", "read", "done"} : Commit(e, kind, c, place)
      BY <2>8 DEF CommitIncrease, CommitCardReduction, CommitCreditReduction
    <3> QED BY <2>7, <3>1 DEF Commit
  <2>9. ASSUME NEW e \in Edits,
               MintIntent(e) \/ Supersede(e) \/ Register(e) \/ ResumeIntent(e)
        PROVE  UNCHANGED <<work, debt>> /\ (UNCHANGED at \/ \E a \in Refunders : \E place :
                 Goto(a, place) /\ place \notin {"send", "record"})
    BY <2>7, <2>9 DEF MintIntent, Supersede, Register, ResumeIntent, Postpone
  <2>10. ASSUME (\E a \in Refunders : Crash(a)) \/ TearDown
         PROVE  UNCHANGED <<work, debt>> /\ \E a \in Refunders : \E place :
                  Goto(a, place) /\ place \notin {"send", "record"}
    BY <2>7, <2>10 DEF Crash, TearDown
  <2>11. ASSUME \/ \E y \in Edits : \/ Pay(y) \/ Decline(y) \/ Confirm(y) \/ ReadEvent(y)
                                     \/ MarkPaid(y) \/ ReturnLate(y) \/ VoidIntent(y)
                                     \/ ReturnWithdrawn(y)
                \/ \E y \in Intents : SyncRefunds(y)
                \/ UNCHANGED vars
         PROVE  UNCHANGED <<at, work, debt>>
    BY <2>11 DEF Pay, Decline, Confirm, ReadEvent, MarkPaid, ReturnLate, VoidIntent, ReturnWithdrawn,
       SyncRefunds, vars
  <2> QED BY <2>2, <2>3, <2>4, <2>5, <2>6, <2>8, <2>9, <2>10, <2>11, ZenonT(60) DEF Next, RefundStep
<1> QED BY <1>1, <1>2, <1>3 DEF MInv

(* Money paid on an intent that was withdrawn, or too late for the          *)
(* cancellation to count it, is never left lying: its event has still to be *)
(* handled, or a refund of it is owed, or it went back in one piece, unless *)
(* another refund had taken from it or the event's handler was overtaken.   *)
THEOREM StrayMoneyComesBack == Spec => []MoneyComesBack
<1>1. MInv => MoneyComesBack
  <2> SUFFICES ASSUME MInv, NEW x \in Edits, ToComeBack(x)
               PROVE  \/ voidOp[x] = "due" \/ backOp[x] = "due" \/ x \in mail
                      \/ CameBack(x) \/ x \in borrowed \union raced
    BY DEF MoneyComesBack
  <2>1. Whereabouts(x)
    BY DEF MInv
  <2>2. voidOp[x] \in Operations /\ backOp[x] \in Operations
    BY DEF MInv, BInv, Shapes, OperationShapes, Edits, Intents
  <2> QED BY <2>1, <2>2 DEF Whereabouts, ToComeBack, Operations
<1> QED BY <1>1, InitMoney, StepMoney, PTL DEF Spec

----------------------------------------------------------------------------
(* Cents added up over refunds.                                             *)

LEMMA CentsSum ==
  ASSUME NEW S, IsFiniteSet(S), NEW R \in SUBSET S, \A q \in S : q.cents \in Nat
  PROVE  Cents(R) = Sum([q \in S |-> q.cents], R) /\ Cents(R) \in Nat
<1>1. IsFiniteSet(R)
  BY FS_Subset
<1> DEFINE f == [q \in R |-> q.cents]
           g == [q \in S |-> q.cents]
<1>2. \A q \in R : g[q] \in Int /\ f[q] \in Nat /\ f[q] = g[q]
  OBVIOUS
<1> HIDE DEF f, g
<1>3. Sum(f, R) = Sum(g, R) /\ Sum(f, R) \in Nat
  BY <1>1, <1>2, SumSame, SumNat
<1> QED BY <1>3 DEF f, g, Cents

(* Nothing is no cents, and one more refund adds its own. *)
LEMMA CentsEmpty == Cents({}) = 0
BY SumEmpty DEF Cents

LEMMA CentsAdd ==
  ASSUME NEW R, IsFiniteSet(R), NEW r, r \notin R, \A q \in R \union {r} : q.cents \in Nat
  PROVE  Cents(R \union {r}) = Cents(R) + r.cents
<1> DEFINE S == R \union {r}
           g == [q \in S |-> q.cents]
<1>1. IsFiniteSet(S)
  BY FS_AddElement
<1>2. Cents(S) = Sum(g, S) /\ Cents(R) = Sum(g, R) /\ Cents(R) \in Nat
  BY <1>1, CentsSum
<1>3. \A q \in S : g[q] \in Int
  OBVIOUS
<1>4. g[r] = r.cents
  OBVIOUS
<1> HIDE DEF g
<1>5. Sum(g, R \union {r}) = g[r] + Sum(g, R)
  BY <1>3, SumAdd
<1> QED BY <1>2, <1>4, <1>5

(* Fewer refunds are fewer cents; refunds of two sets are at most both's,   *)
(* and both's if none is in both.                                           *)
LEMMA CentsPart ==
  ASSUME NEW S, IsFiniteSet(S), NEW R \in SUBSET S, \A q \in S : q.cents \in Nat
  PROVE  Cents(R) <= Cents(S) /\ Cents(R) \in Nat /\ Cents(S) \in Nat
<1> DEFINE g == [q \in S |-> q.cents]
<1>1. Cents(S) = Sum(g, S) /\ Cents(R) = Sum(g, R)
  BY CentsSum
<1>2. \A q \in S : g[q] \in Nat
  OBVIOUS
<1> HIDE DEF g
<1>3. Sum(g, R) \in Nat /\ Sum(g, R) <= Sum(g, S)
  BY <1>2, SumPart
<1>4. Sum(g, S) \in Nat
  BY <1>2, SumNat
<1> QED BY <1>1, <1>3, <1>4

LEMMA CentsUnion ==
  ASSUME NEW R, NEW S, IsFiniteSet(R), IsFiniteSet(S), \A q \in R \union S : q.cents \in Nat
  PROVE  /\ Cents(R \union S) <= Cents(R) + Cents(S)
         /\ R \cap S = {} => Cents(R \union S) = Cents(R) + Cents(S)
<1> DEFINE U == R \union S
           T == S \ R
           g == [q \in U |-> q.cents]
<1>1. IsFiniteSet(U) /\ IsFiniteSet(T)
  BY FS_Union, FS_Subset
<1>2. Cents(U) = Sum(g, U) /\ Cents(R) = Sum(g, R) /\ Cents(T) = Sum(g, T) /\ Cents(R) \in Nat
  BY <1>1, CentsSum
<1>3. \A q \in R \union T : g[q] \in Int
  OBVIOUS
<1>4. R \union T = U /\ R \cap T = {}
  OBVIOUS
<1>5. Sum(g, R \union T) = Sum(g, R) + Sum(g, T)
  <2> HIDE DEF g, T, U
  <2> QED BY <1>1, <1>3, <1>4, SumUnion
<1>6. Cents(T) <= Cents(S) /\ Cents(T) \in Nat /\ Cents(S) \in Nat
  BY CentsPart
<1>7. R \cap S = {} => T = S
  OBVIOUS
<1> HIDE DEF g, T, U
<1>8. Cents(U) = Cents(R) + Cents(T)
  BY <1>2, <1>4, <1>5
<1> QED BY <1>2, <1>6, <1>7, <1>8 DEF U

----------------------------------------------------------------------------
(* What a refund is divided into.                                           *)

LEMMA IntentsFinite ==
  /\ IsFiniteSet(Intents) /\ 0 \in Intents /\ Edits \subseteq Intents
  /\ 0 \in Refunders /\ Edits \subseteq Refunders /\ 0 \notin Edits
<1>1. MaxEdits \in Int
  BY EditAssumption
<1>2. IsFiniteSet(Intents)
  BY <1>1, FS_Interval DEF Intents
<1> QED BY <1>2, EditAssumption DEF Intents, Edits, Refunders

(* No row has less than nothing left, nor more than it was paid.            *)
LEMMA RoomLeft ==
  ASSUME MoneyShapes, NEW x \in Intents
  PROVE  /\ Room[x] \in Nat /\ row[x].refunded + Room[x] <= row[x].amount
         /\ Room[x] > 0 => x \in Captured
         /\ row[x].amount \in Nat /\ row[x].refunded \in Nat
<1>1. row[x].amount \in Nat /\ row[x].refunded \in Nat /\ row[x].refunded <= row[x].amount
  BY DEF MoneyShapes, Rows
<1>2. Room[x] = IF x \in Captured THEN row[x].amount - row[x].refunded ELSE 0
  BY DEF Room
<1> QED BY <1>1, <1>2

LEMMA RoomSum ==
  ASSUME MoneyShapes, NEW T \in SUBSET Intents
  PROVE  IsFiniteSet(T) /\ Sum(Room, T) \in Nat
<1>1. IsFiniteSet(T)
  BY IntentsFinite, FS_Subset
<1>2. \A x \in T : Room[x] \in Nat
  BY RoomLeft
<1> QED BY <1>1, <1>2, SumNat

LEMMA RefundableNat ==
  ASSUME MoneyShapes
  PROVE  Refundable \in Nat
BY RoomSum DEF Refundable

(* The rows that come before x in a division. *)
NewerThan(x) == {y \in Intents : Room[y] > 0 /\ row[y].rank > row[x].rank}

LEMMA Slice ==
  ASSUME MoneyShapes, NEW c \in Int, NEW x \in Intents
  PROVE  /\ Allocation(c)[x] = IF c - Sum(Room, NewerThan(x)) > 0
                               THEN Lesser(Room[x], c - Sum(Room, NewerThan(x))) ELSE 0
         /\ Allocation(c)[x] \in Nat /\ Allocation(c)[x] <= Room[x]
<1>1. Allocation(c)[x] = IF c - Sum(Room, NewerThan(x)) > 0
                         THEN Lesser(Room[x], c - Sum(Room, NewerThan(x))) ELSE 0
  BY DEF Allocation, NewerThan
<1>2. NewerThan(x) \subseteq Intents
  BY DEF NewerThan
<1>3. Sum(Room, NewerThan(x)) \in Nat /\ Room[x] \in Nat
  BY <1>2, RoomSum, RoomLeft
<1> QED BY <1>1, <1>3 DEF Lesser

LEMMA AllocationType ==
  ASSUME MoneyShapes, NEW c \in Int
  PROVE  /\ Allocation(c) \in [Intents -> Nat]
         /\ \A x \in Intents : Allocation(c)[x] <= Room[x]
         /\ Planned(Allocation(c)) \subseteq Captured
<1>1. Allocation(c) = [x \in Intents |-> Allocation(c)[x]]
  BY DEF Allocation
<1>2. \A x \in Intents : Allocation(c)[x] \in Nat /\ Allocation(c)[x] <= Room[x]
  BY Slice
<1>3. ASSUME NEW x \in Intents, Allocation(c)[x] > 0
      PROVE  x \in Captured
  BY <1>2, <1>3, RoomLeft
<1> QED BY <1>1, <1>2, <1>3 DEF Planned

(* Of some rows, one is the oldest. *)
LEMMA Oldest ==
  ASSUME MoneyShapes, NEW T \in SUBSET Intents, T # {}
  PROVE  \E x \in T : \A y \in T : row[x].rank <= row[y].rank
<1> DEFINE Q == {{}} \union {S \in SUBSET T : \E x \in S : \A y \in S : row[x].rank <= row[y].rank}
<1>1. IsFiniteSet(T)
  BY RoomSum
<1>2. \A x \in T : row[x].rank \in Nat
  BY DEF MoneyShapes, Rows
<1>3. ASSUME NEW S \in SUBSET T, NEW z \in T, S \in Q, z \notin S
      PROVE  S \union {z} \in Q
  <2>1. CASE S = {}
    BY <1>2, <2>1
  <2>2. CASE S # {}
    <3>1. PICK x \in S : \A y \in S : row[x].rank <= row[y].rank
      BY <1>3, <2>2
    <3> DEFINE w == IF row[z].rank < row[x].rank THEN z ELSE x
    <3>2. w \in S \union {z} /\ \A y \in S \union {z} : row[w].rank <= row[y].rank
      BY <1>2, <3>1
    <3> QED BY <3>2
  <2> QED BY <2>1, <2>2
<1>4. {} \in Q
  OBVIOUS
<1>5. T \in Q
  <2> HIDE DEF Q
  <2> QED BY <1>1, <1>3, <1>4, FiniteSetInduction
<1> QED BY <1>5

(* No two rows that hold money have the same age. *)
Aged == \A x, y \in Captured : row[x].rank = row[y].rank => x = y

(* A division takes what it is to divide, or all there is. *)
LEMMA Divided ==
  ASSUME MoneyShapes, Aged, NEW c \in Nat, c <= Refundable
  PROVE  Sum(Allocation(c), Intents) = c
<1> DEFINE P == {x \in Intents : Room[x] > 0}
           Taken(T) == Sum(Allocation(c), T)
           Left(T) == Sum(Room, T)
           Q == {T \in SUBSET P :
                   /\ \A x \in T, y \in P : row[y].rank > row[x].rank => y \in T
                   /\ Sum(Allocation(c), T) # Lesser(c, Sum(Room, T))}
<1>1. P \subseteq Intents /\ IsFiniteSet(P)
  BY RoomSum
<1>2. \A x \in Intents : row[x].rank \in Nat /\ Room[x] \in Nat /\ Allocation(c)[x] \in Nat
  BY Slice, RoomLeft DEF MoneyShapes, Rows
<1>3. Q = {}
  <2> SUFFICES ASSUME Q # {} PROVE FALSE
    OBVIOUS
  <2>0. Q \in SUBSET (SUBSET P)
    OBVIOUS
  <2>1. PICK T \in Q : \A U \in SUBSET T : U # T => U \notin Q
    <3> HIDE DEF Q, P
    <3> QED BY <1>1, <2>0, SmallestSet, Zenon
  <2>2. T \in SUBSET P /\ T \in SUBSET Intents /\ IsFiniteSet(T)
    BY <1>1, FS_Subset
  <2>3. T # {}
    BY SumEmpty DEF Lesser
  <2>4. PICK x \in T : \A y \in T : row[x].rank <= row[y].rank
    BY <2>2, <2>3, Oldest
  <2>5. x \in Intents /\ x \in P /\ x \in Captured
    BY <2>2, RoomLeft
  <2>6. NewerThan(x) = T \ {x}
    <3>1. \A y \in P : row[y].rank > row[x].rank => y \in T
      BY <2>1
    <3>2. ASSUME NEW y \in T, y # x
          PROVE  y \in Intents /\ Room[y] > 0 /\ row[y].rank > row[x].rank
      <4>1. y \in Intents /\ Room[y] > 0 /\ y \in Captured
        BY <2>2, RoomLeft
      <4>2. row[y].rank # row[x].rank /\ row[x].rank <= row[y].rank
        BY <2>4, <2>5, <3>2, <4>1 DEF Aged
      <4> QED BY <1>2, <2>5, <4>1, <4>2
    <3>3. ~(row[x].rank > row[x].rank)
      BY <1>2, <2>5
    <3> QED BY <3>1, <3>2, <3>3 DEF NewerThan
  <2> DEFINE U == T \ {x}
  <2>7. U \in SUBSET P /\ \A z \in U, y \in P : row[y].rank > row[z].rank => y \in U
    <3>1. ASSUME NEW z \in U, NEW y \in P, row[y].rank > row[z].rank
          PROVE  y \in U
      <4>1. y \in T
        BY <2>1, <3>1
      <4>2. row[y].rank # row[x].rank
        BY <1>2, <2>2, <2>4, <2>5, <3>1, <4>1
      <4> QED BY <4>1, <4>2
    <3> QED BY <2>2, <3>1
  <2>8. U \notin Q
    BY <2>1, <2>4
  <2>9. Sum(Allocation(c), U) = Lesser(c, Sum(Room, U))
    BY <2>7, <2>8
  <2>10. /\ Sum(Allocation(c), T) = Allocation(c)[x] + Sum(Allocation(c), U)
         /\ Sum(Room, T) = Room[x] + Sum(Room, U)
    <3>1. \A y \in T : Allocation(c)[y] \in Int /\ Room[y] \in Int
      BY <1>2, <2>2
    <3> QED BY <2>2, <2>4, <3>1, SumRemove
  <2>11. /\ Allocation(c)[x] = IF c - Sum(Room, U) > 0
                               THEN Lesser(Room[x], c - Sum(Room, U)) ELSE 0
         /\ Sum(Room, U) \in Nat /\ Room[x] \in Nat
    <3>1. U \in SUBSET Intents /\ NewerThan(x) = U
      BY <2>2, <2>6
    <3> HIDE DEF U
    <3>2. Sum(Room, U) \in Nat
      BY <3>1, RoomSum
    <3>3. c \in Int
      OBVIOUS
    <3> QED BY <1>2, <2>5, <3>1, <3>2, <3>3, Slice
  <2>12. Sum(Allocation(c), T) # Lesser(c, Sum(Room, T))
    OBVIOUS
  <2> HIDE DEF U, Q
  <2> QED BY <2>9, <2>10, <2>11, <2>12 DEF Lesser
<1>4. Sum(Allocation(c), P) = Lesser(c, Sum(Room, P))
  BY <1>3
<1>5. \A x \in Intents \ P : Room[x] = 0 /\ Allocation(c)[x] = 0
  BY <1>2, Slice DEF Lesser
<1>6. Sum(Room, Intents \ P) = 0 /\ Sum(Allocation(c), Intents \ P) = 0
  <2>1. IsFiniteSet(Intents \ P)
    BY IntentsFinite, FS_Subset
  <2> HIDE DEF P
  <2> QED BY <1>5, <2>1, SumZero
<1>7. /\ Sum(Room, Intents) = Sum(Room, P) + Sum(Room, Intents \ P)
      /\ Sum(Allocation(c), Intents) = Sum(Allocation(c), P) + Sum(Allocation(c), Intents \ P)
  <2>1. \A x \in Intents : Room[x] \in Int /\ Allocation(c)[x] \in Int
    BY <1>2
  <2> HIDE DEF P
  <2> QED BY <1>1, <2>1, IntentsFinite, SumSplit
<1>8. Sum(Room, P) \in Nat
  BY <1>1, RoomSum
<1> HIDE DEF P
<1> QED BY <1>4, <1>6, <1>7, <1>8 DEF Lesser, Refundable

----------------------------------------------------------------------------
(* Rows keep their age.                                                     *)

(* The rows there are. *)
Booked == {0} \union Registered

(* No two rows were created at once, and the booking's own came first.      *)
Ages ==
  /\ row[0].rank = 0
  /\ \A x, y \in Registered : row[x].rank = row[y].rank => x = y

LEMMA BookedAges ==
  ASSUME BInv, Ages
  PROVE  /\ \A x, y \in Booked : row[x].rank = row[y].rank => x = y
         /\ Captured \subseteq Booked /\ Booked \subseteq Intents /\ Aged
<1>1. ASSUME NEW x \in Registered
      PROVE  row[x].rank \in Nat \ {0}
  <2>1. x \in Edits /\ Traced(x) /\ row[x].status # "none"
    BY <1>1 DEF Registered, BInv, AllTraced
  <2> QED BY <2>1 DEF Traced, Unbilled, Billed
<1>2. \A x, y \in Booked : row[x].rank = row[y].rank => x = y
  BY <1>1 DEF Booked, Ages
<1>3. Captured \subseteq Booked
  BY IntentsFinite DEF Captured, Booked, Registered, Intents, Edits
<1>4. Booked \subseteq Intents
  BY IntentsFinite DEF Booked, Registered
<1> QED BY <1>2, <1>3, <1>4 DEF Aged

LEMMA CancelQuiet ==
  ASSUME BInv, NEW way, NEW s, Cancel(way, s)
  PROVE  RowQuiet
<1> DEFINE c(x) == IF way = "credit" THEN row[x].refunded + Allocation(Share(s, Base))[x]
                   ELSE row[x].refunded
           t(x) == IF x \in Outstanding THEN "FAILED" ELSE row[x].status
<1>1. row' = [x \in Intents |-> With(x, t(x), c(x))]
  BY DEF Cancel
<1>2. \A x \in Intents : t(x) = "none" <=> row[x].status = "none"
  BY DEF Outstanding
<1> HIDE DEF c, t
<1>3. \A y \in Intents : row'[y] = With(y, t(y), c(y))
  BY <1>1
<1>4. row' = [y \in Intents |-> row'[y]]
  BY <1>1
<1> QED BY <1>2, <1>3, <1>4, SMTT(30) DEF RowQuiet, RowForms, With

(* The row of an increase. *)
NewRow(e) == [status |-> "PENDING", amount |-> edit[e].add, refunded |-> 0,
              rank |-> Cardinality(Registered) + 1]
Begins(e) == at[e] = "register" /\ row' = [row EXCEPT ![e] = NewRow(e)]

LEMMA RowsMove ==
  ASSUME BInv, [Next]_vars
  PROVE  RowQuiet \/ \E e \in Edits : Begins(e)
<1>1. ASSUME NEW e \in Edits, NEW cents, NEW s,
             \/ CommitIncrease(e, cents) \/ CommitCardReduction(e, cents, s)
             \/ CommitCreditReduction(e, cents, s)
      PROVE  RowQuiet
  <2>1. row' = row \/ \E p : AllocateLocally(p)
    BY <1>1 DEF CommitIncrease, CommitCardReduction, CommitCreditReduction
  <2> QED BY <2>1, LocalRows, RowQuietSteps DEF BInv, Forms
<1>2. ASSUME NEW e \in Edits, Register(e)
      PROVE  RowQuiet \/ Begins(e)
  <2>1. Begins(e) \/ row' = row
    BY <1>2 DEF Register, Begins, NewRow
  <2> QED BY <2>1, RowQuietSteps DEF BInv, Forms
<1>3. ASSUME row' = row
      PROVE  RowQuiet
  BY <1>3, RowQuietSteps DEF BInv, Forms
<1>4. ASSUME \/ \E a \in Refunders : Crash(a)
             \/ \E e \in Edits : MintIntent(e) \/ Supersede(e) \/ ResumeIntent(e)
      PROVE  row' = row
  BY <1>4 DEF Crash, MintIntent, Supersede, ResumeIntent
<1>5. Edits \subseteq Refunders
  BY IntentsFinite
<1> QED BY <1>1, <1>2, <1>3, <1>4, <1>5, CancelQuiet, RefundQuiet, PaymentRows, OtherRows, ZenonT(60)
        DEF Next, RefundStep

(* Rows stay, and keep their age. *)
Aging == \A y \in Booked : y \in Booked' /\ row'[y].rank = row[y].rank

LEMMA StepAges ==
  ASSUME BInv, Ages, [Next]_vars
  PROVE  Aging /\ Ages'
<1>1. 0 \in Intents /\ Edits \subseteq Intents /\ 0 \notin Edits
  BY IntentsFinite
<1>2. CASE RowQuiet
  <2>1. Registered' = Registered /\ \A y \in Intents : row'[y].rank = row[y].rank
    BY <1>1, <1>2 DEF RowQuiet, Registered
  <2> QED BY <1>1, <2>1 DEF Aging, Ages, Booked, Registered
<1>3. ASSUME NEW e \in Edits, Begins(e)
      PROVE  Aging /\ Ages'
  <2>1. Traced(e) /\ row[e].status = "none"
    BY <1>3 DEF BInv, AllTraced, Traced, Billing, Begins
  <2>2. \A y \in Intents : row'[y] = IF y = e THEN NewRow(e) ELSE row[y]
    BY <1>3 DEF Begins, BInv, Forms, RowForms
  <2>3. Cardinality(Registered) \in Nat
    BY RegisteredFinite
  <2>4. \A y \in Registered : row[y].rank \in Nat /\ row[y].rank <= Cardinality(Registered)
    BY Ranked DEF Registered
  <2>5. Registered' = Registered \union {e}
    <3>1. row'[e].status = "PENDING"
      BY <1>1, <2>2 DEF NewRow
    <3>2. \A y \in Edits \ {e} : row'[y].status = row[y].status
      BY <1>1, <2>2
    <3>3. \A y \in Edits : row'[y].status # "none" <=> y = e \/ row[y].status # "none"
      BY <3>1, <3>2
    <3> QED BY <3>3 DEF Registered
  <2>6. e \notin Registered
    BY <2>1 DEF Registered
  <2>7. \A y \in Booked : y \in Booked' /\ row'[y].rank = row[y].rank
    BY <1>1, <2>2, <2>5, <2>6 DEF Booked, Registered
  <2>8. row'[e].rank = Cardinality(Registered) + 1
    BY <1>1, <2>2 DEF NewRow
  <2>9. Ages'
    <3>1. \A y \in Registered : row'[y].rank = row[y].rank /\ row'[y].rank # row'[e].rank
      <4>1. Registered \subseteq Booked
        BY DEF Booked
      <4> QED BY <2>3, <2>4, <2>7, <2>8, <4>1
    <3>2. \A x, y \in Registered' : row'[x].rank = row'[y].rank => x = y
      BY <2>5, <3>1 DEF Ages
    <3>3. row'[0].rank = 0
      BY <2>7 DEF Booked, Ages
    <3> QED BY <3>2, <3>3 DEF Ages
  <2> QED BY <2>7, <2>9 DEF Aging
<1> QED BY <1>2, <1>3, RowsMove

----------------------------------------------------------------------------
(* The amounts.                                                             *)

RowShapes == row \in [Intents -> Rows] /\ \A x \in Intents : row[x].refunded <= row[x].amount
FlowShapes ==
  sent \subseteq Refunds /\ IsFiniteSet(sent) /\ ledger \subseteq sent /\ credit \in Nat
DebtShapes == debt \in [Refunders -> Debts]
Priced == BookingShapes /\ price > 0

Amounts == Priced /\ RowShapes /\ FlowShapes /\ DebtShapes /\ WorkShapes

(* What a refund that was answered and has still to be recorded asked for,  *)
(* Stripe has made; a plan takes from rows there are.                       *)
Known(a) ==
  /\ Planned(plan[a]) \subseteq Booked /\ togo[a] \subseteq Booked
  /\ at[a] = "record" => \A x \in Intents : IsNext(a, x) => Key(a, x) \in sent

AInv == BInv /\ Ages /\ Amounts /\ \A a \in Refunders : Known(a)

Statuses == {"none", "PENDING", "SUCCEEDED", "FAILED"}

LEMMA MoneyTyped == Amounts => MoneyShapes
BY DEF Amounts, MoneyShapes, RowShapes, FlowShapes, DebtShapes

(* Shares of cents are cents, and no more of them. *)
LEMMA ShareBound ==
  ASSUME NEW s \in Shares, NEW c \in Nat
  PROVE  Share(s, c) \in Nat /\ Share(s, c) <= c
<1>1. s \in {"full", "half", "none"}
  BY EditAssumption
<1>2. (c + 1) \div 2 \in Nat /\ (c > 0 => (c + 1) \div 2 <= c) /\ (c = 0 => (c + 1) \div 2 = 0)
  OBVIOUS
<1> QED BY <1>1, <1>2 DEF Share

LEMMA DueBound ==
  ASSUME Amounts, NEW s \in Shares, NEW c \in Nat
  PROVE  Due(c, s) \in Nat /\ Due(c, s) <= Refundable
<1>1. Refundable \in Nat
  BY MoneyTyped, RefundableNat
<1>2. Lesser(c, Refundable) \in Nat /\ Lesser(c, Refundable) <= Refundable
  BY <1>1 DEF Lesser
<1> QED BY <1>1, <1>2, ShareBound DEF Due

LEMMA BaseBound ==
  ASSUME Amounts, NEW s \in Shares
  PROVE  Share(s, Base) \in Nat /\ Share(s, Base) <= Refundable
<1>1. Refundable \in Nat /\ price \in Nat
  BY MoneyTyped, RefundableNat DEF Amounts, Priced, BookingShapes
<1>2. Base \in Nat /\ Base <= Refundable
  BY <1>1 DEF Lesser, Base
<1> QED BY <1>1, <1>2, ShareBound

(* The ways a row is written. *)
LEMMA RowPut ==
  ASSUME RowShapes, NEW x \in Intents, NEW r \in Rows, r.refunded <= r.amount,
         row' = [row EXCEPT ![x] = r]
  PROVE  RowShapes'
BY DEF RowShapes

LEMMA RowStatusPut ==
  ASSUME RowShapes, NEW x \in Intents, NEW s \in Statuses, row' = [row EXCEPT ![x].status = s]
  PROVE  RowShapes'
BY DEF RowShapes, Rows, Statuses

LEMMA RowRefundPut ==
  ASSUME RowShapes, NEW x \in Intents, NEW v \in Nat,
         row' = [row EXCEPT ![x].refunded = Lesser(row[x].amount, v)]
  PROVE  RowShapes'
<1>1. Lesser(row[x].amount, v) \in Nat /\ Lesser(row[x].amount, v) <= row[x].amount
  BY DEF RowShapes, Rows, Lesser
<1> DEFINE w == Lesser(row[x].amount, v)
<1>2. w \in Nat /\ w <= row[x].amount /\ row' = [row EXCEPT ![x].refunded = w]
  BY <1>1
<1> HIDE DEF w
<1> QED BY <1>2 DEF RowShapes, Rows

LEMMA RowSettled ==
  ASSUME RowShapes, NEW x \in Intents, NEW v \in Nat, v <= row[x].amount, SettleRow(x, v)
  PROVE  RowShapes'
<1>1. With(x, "SUCCEEDED", v) \in Rows
  BY DEF With, RowShapes, Rows
<1>2. With(x, "SUCCEEDED", v).refunded = v /\ With(x, "SUCCEEDED", v).amount = row[x].amount
  BY DEF With
<1> QED BY <1>1, <1>2, RowPut DEF SettleRow

LEMMA RowsWritten ==
  ASSUME RowShapes, NEW t \in [Intents -> Statuses], NEW c \in [Intents -> Nat],
         \A x \in Intents : c[x] <= row[x].amount,
         row' = [x \in Intents |-> With(x, t[x], c[x])]
  PROVE  RowShapes'
<1>1. \A x \in Intents : With(x, t[x], c[x]) \in Rows
  BY DEF With, RowShapes, Rows, Statuses
<1>2. \A x \in Intents : With(x, t[x], c[x]).refunded = c[x] /\ With(x, t[x], c[x]).amount = row[x].amount
  BY DEF With
<1> QED BY <1>1, <1>2 DEF RowShapes

(* What is refunded of a row besides, within what it has left. *)
LEMMA Taken ==
  ASSUME Amounts, NEW c \in Nat
  PROVE  /\ [x \in Intents |-> row[x].refunded + Allocation(c)[x]] \in [Intents -> Nat]
         /\ \A x \in Intents : row[x].refunded + Allocation(c)[x] <= row[x].amount
<1>1. MoneyShapes
  BY MoneyTyped
<1>2. ASSUME NEW x \in Intents
      PROVE  row[x].refunded + Allocation(c)[x] \in Nat
             /\ row[x].refunded + Allocation(c)[x] <= row[x].amount
  <2>1. Allocation(c)[x] \in Nat /\ Allocation(c)[x] <= Room[x]
    BY <1>1, Slice
  <2>2. Room[x] \in Nat /\ row[x].refunded + Room[x] <= row[x].amount
        /\ row[x].amount \in Nat /\ row[x].refunded \in Nat
    BY <1>1, RoomLeft
  <2> QED BY <2>1, <2>2
<1> QED BY <1>2

(* One more refund. *)
LEMMA SentMore ==
  ASSUME FlowShapes, NEW r \in Refunds, sent' = sent \union {r}, credit' = credit,
         ledger' = ledger \/ ledger' = ledger \union {r}
  PROVE  FlowShapes'
<1>1. IsFiniteSet(sent')
  BY FS_AddElement DEF FlowShapes
<1> QED BY <1>1 DEF FlowShapes

LEMMA RecordedMore ==
  ASSUME FlowShapes, NEW R \in SUBSET sent, sent' = sent, credit' = credit,
         ledger' = ledger \union R
  PROVE  FlowShapes'
BY DEF FlowShapes

LEMMA SentCents ==
  ASSUME FlowShapes, NEW R \in SUBSET sent
  PROVE  Cents(R) \in Nat /\ IsFiniteSet(R)
<1>1. \A q \in sent : q.cents \in Nat
  BY DEF FlowShapes, Refunds
<1> QED BY <1>1, CentsSum, FS_Subset DEF FlowShapes

LEMMA KeyType ==
  ASSUME WorkShapes, NEW a \in Refunders, NEW x \in Intents
  PROVE  Key(a, x) \in Refunds
BY DEF WorkShapes, Key, Refunds

LEMMA OweType ==
  ASSUME DebtShapes, NEW a \in Refunders, NEW c \in Int, Owe(a, c)
  PROVE  DebtShapes'
BY DEF DebtShapes, Debts, Owe

LEMMA RecordType ==
  ASSUME Amounts, NEW r \in Refunds, NEW v \in Nat, Record(r, v), r \in sent', sent \subseteq sent',
         sent' \subseteq Refunds, IsFiniteSet(sent')
  PROVE  RowShapes' /\ ledger' \subseteq sent'
<1> DEFINE recorded == {q \in ledger \union {r} : q.of = r.of}
<1>1. recorded \subseteq sent' /\ ledger' \subseteq sent'
  BY DEF Amounts, FlowShapes, Record
<1>2. \A q \in sent' : q.cents \in Nat
  BY DEF Refunds
<1>3. Cents(recorded) \in Nat
  <2> HIDE DEF recorded
  <2> QED BY <1>1, <1>2, CentsSum
<1>4. row' = [row EXCEPT ![r.of].refunded = Lesser(row[r.of].amount, Greater(v, Cents(recorded)))]
  BY DEF Record
<1> HIDE DEF recorded
<1>5. Greater(v, Cents(recorded)) \in Nat
  BY <1>3 DEF Greater
<1>6. r.of \in Intents
  BY DEF Refunds
<1> QED BY <1>1, <1>4, <1>5, <1>6, RowRefundPut DEF Amounts

----------------------------------------------------------------------------
(* Every step keeps the amounts.                                            *)

LEMMA CommitAmounts ==
  ASSUME AInv, NEW e \in Edits, NEW cents, NEW s,
         \/ cents \in Ups /\ CommitIncrease(e, cents)
         \/ cents \in Downs /\ s \in Shares /\ CommitCardReduction(e, cents, s)
         \/ cents \in Downs /\ s \in Shares /\ CommitCreditReduction(e, cents, s)
  PROVE  Amounts'
<1>0. Amounts /\ cents \in Nat \ {0} /\ e \in Refunders /\ MoneyShapes
  BY EditAssumption, IntentsFinite, MoneyTyped DEF AInv
<1>1. UNCHANGED <<status, sent, ledger, debt, work>>
  BY DEF CommitIncrease, CommitCardReduction, CommitCreditReduction, Commit
<1>2. price' = price + cents \/ (cents < price /\ price' = price + (0 - cents))
  BY DEF CommitIncrease, CommitCardReduction, CommitCreditReduction, Commit
<1>3. price' \in Int /\ price' > 0
  BY <1>0, <1>2 DEF Amounts, Priced, BookingShapes
<1>4. CASE cents \in Ups /\ CommitIncrease(e, cents)
  <2>1. edit' \in [Refunders -> Bills]
    BY <1>0, <1>4 DEF CommitIncrease, Bills, Amounts, Priced, BookingShapes
  <2>2. row' = row /\ credit' = credit
    BY <1>4 DEF CommitIncrease
  <2> QED BY <1>0, <1>1, <1>3, <2>1, <2>2 DEF Amounts, Priced, BookingShapes, RowShapes, FlowShapes, DebtShapes,
             WorkShapes, work
<1>5. CASE cents \in Downs /\ s \in Shares /\ CommitCardReduction(e, cents, s)
  <2>1. Due(cents, s) \in Nat
    BY <1>0, <1>5, DueBound
  <2>2. edit' \in [Refunders -> Bills]
    BY <1>0, <1>5, <2>1 DEF CommitCardReduction, Bills, Amounts, Priced, BookingShapes
  <2>3. row' = row /\ credit' = credit
    BY <1>5 DEF CommitCardReduction
  <2> QED BY <1>0, <1>1, <1>3, <2>2, <2>3 DEF Amounts, Priced, BookingShapes, RowShapes, FlowShapes, DebtShapes,
             WorkShapes, work
<1>6. CASE cents \in Downs /\ s \in Shares /\ CommitCreditReduction(e, cents, s)
  <2> DEFINE c == Due(cents, s)
             t == [x \in Intents |-> row[x].status]
             f == [x \in Intents |-> row[x].refunded + Allocation(c)[x]]
  <2>1. c \in Nat
    BY <1>0, <1>6, DueBound
  <2>2. edit' \in [Refunders -> Bills]
    BY <1>0, <1>6 DEF CommitCreditReduction, Bills, Amounts, Priced, BookingShapes
  <2>3. row' = [x \in Intents |-> With(x, row[x].status, row[x].refunded + Allocation(c)[x])]
        /\ credit' = credit + c
    BY <1>6 DEF CommitCreditReduction, AllocateLocally
  <2>4. row' = [x \in Intents |-> With(x, t[x], f[x])]
    BY <2>3
  <2>5. t \in [Intents -> Statuses]
    BY <1>0 DEF Amounts, RowShapes, Rows, Statuses
  <2> HIDE DEF c
  <2>6. f \in [Intents -> Nat] /\ \A x \in Intents : f[x] <= row[x].amount
    BY <1>0, <2>1, Taken
  <2> HIDE DEF t, f
  <2>7. RowShapes'
    BY <1>0, <2>4, <2>5, <2>6, RowsWritten DEF Amounts
  <2> QED BY <1>0, <1>1, <1>3, <2>1, <2>2, <2>3, <2>7 DEF Amounts, Priced, BookingShapes, FlowShapes, DebtShapes,
             WorkShapes, work
<1> QED BY <1>4, <1>5, <1>6

LEMMA CancelAmounts ==
  ASSUME AInv, NEW way \in {"card", "credit"}, NEW s \in Shares, Cancel(way, s)
  PROVE  Amounts'
<1> DEFINE c == Share(s, Base)
           t == [x \in Intents |-> IF x \in Outstanding THEN "FAILED" ELSE row[x].status]
           f == [x \in Intents |-> IF way = "credit" THEN row[x].refunded + Allocation(c)[x]
                                   ELSE row[x].refunded]
<1>0. Amounts /\ MoneyShapes /\ 0 \in Refunders
  BY MoneyTyped, IntentsFinite DEF AInv
<1>1. c \in Nat
  BY <1>0, BaseBound
<1>2. row' = [x \in Intents |-> With(x, t[x], f[x])]
  BY DEF Cancel
<1>3. t \in [Intents -> Statuses]
  BY <1>0 DEF Amounts, RowShapes, Rows, Statuses
<1>4. f \in [Intents -> Nat] /\ \A x \in Intents : f[x] <= row[x].amount
  <2> HIDE DEF c
  <2>1. \A x \in Intents : row[x].refunded + Allocation(c)[x] \in Nat
                           /\ row[x].refunded + Allocation(c)[x] <= row[x].amount
    BY <1>0, <1>1, Taken
  <2>2. \A x \in Intents : row[x].refunded \in Nat /\ row[x].refunded <= row[x].amount
    BY <1>0 DEF Amounts, RowShapes, Rows
  <2> QED BY <2>1, <2>2
<1>5. RowShapes'
  <2> HIDE DEF t, f
  <2> QED BY <1>0, <1>2, <1>3, <1>4, RowsWritten DEF Amounts
<1>6. UNCHANGED <<price, edit, sent, ledger, seen>> /\ status' = "CANCELLED"
  BY DEF Cancel
<1>7. credit' \in Nat
  <2>1. credit' = credit + c \/ credit' = credit
    BY DEF Cancel
  <2> HIDE DEF c
  <2> QED BY <1>0, <1>1, <2>1 DEF Amounts, FlowShapes
<1>8. DebtShapes'
  <2>1. debt' = debt \/ debt' = [debt EXCEPT ![0] = [op |-> "frozen", cents |-> c]]
    BY DEF Cancel
  <2> HIDE DEF c
  <2> QED BY <1>0, <1>1, <2>1 DEF Amounts, DebtShapes, Debts
<1>9. WorkShapes'
  <2>1. plan' = plan \/ plan' = [plan EXCEPT ![0] = Allocation(c)]
    BY DEF Cancel
  <2>2. togo' = [togo EXCEPT ![0] = Outstanding] /\ Outstanding \subseteq Intents
    BY IntentsFinite DEF Cancel, Outstanding, Newest, Registered
  <2> HIDE DEF c
  <2>3. Allocation(c) \in [Intents -> Nat]
    BY <1>0, <1>1, AllocationType
  <2> QED BY <1>0, <1>6, <2>1, <2>2, <2>3 DEF Amounts, WorkShapes
<1> QED BY <1>0, <1>5, <1>6, <1>7, <1>8, <1>9 DEF Amounts, Priced, BookingShapes, FlowShapes

LEMMA BeginAmounts ==
  ASSUME WorkShapes, RowShapes, NEW a \in Refunders, NEW p \in [Intents -> Nat], BeginRefund(a, p)
  PROVE  WorkShapes'
<1>1. Planned(p) \subseteq Intents
  BY DEF Planned
<1>2. [x \in Intents |-> row[x].refunded] \in [Intents -> Nat]
  BY DEF RowShapes, Rows
<1> QED BY <1>1, <1>2 DEF BeginRefund, WorkShapes

LEMMA SliceSum ==
  ASSUME Amounts, NEW a \in Refunders, NEW S \in SUBSET Intents
  PROVE  Sum(plan[a], S) \in Nat /\ IsFiniteSet(S)
<1>1. IsFiniteSet(S)
  BY IntentsFinite, FS_Subset
<1>2. \A x \in S : plan[a][x] \in Nat
  BY DEF Amounts, WorkShapes
<1> QED BY <1>1, <1>2, SumNat

LEMMA DueNat ==
  ASSUME Amounts, NEW a \in Refunders
  PROVE  edit[a].due \in Nat /\ edit[a].add \in Nat /\ Remainder(a) \in Int
<1>1. edit[a].due \in Nat /\ edit[a].add \in Nat
  BY DEF Amounts, Priced, BookingShapes, Bills
<1>2. Sum(plan[a], Intents \ togo[a]) \in Nat
  BY SliceSum
<1> QED BY <1>1, <1>2 DEF Remainder

LEMMA RefundAmounts ==
  ASSUME AInv, NEW a \in Refunders, RefundStep(a)
  PROVE  Amounts'
<1>0. Amounts /\ MoneyShapes /\ Known(a)
  BY MoneyTyped DEF AInv
<1>1. UNCHANGED <<booking, credit>>
  BY DEF RefundStep, ReadRows, SendSlice, RecordSlice, FinishRefund, Replay, refunds
<1>2. Priced'
  BY <1>0, <1>1 DEF Amounts, Priced, BookingShapes, booking
<1>3. CASE ReadRows(a)
  <2>1. UNCHANGED <<row, refunds>>
    BY <1>3 DEF ReadRows
  <2>2. RowShapes' /\ FlowShapes'
    BY <1>0, <2>1 DEF Amounts, RowShapes, FlowShapes, refunds
  <2>3. DebtShapes'
    BY <1>0, <1>3, DueNat, OweType DEF ReadRows, Amounts, DebtShapes
  <2>4. WorkShapes'
    <3>1. CASE BeginRefund(a, plan[a])
      BY <1>0, <3>1, BeginAmounts DEF Amounts, WorkShapes
    <3>2. CASE BeginRefund(a, Allocation(edit[a].due))
      <4>1. Allocation(edit[a].due) \in [Intents -> Nat]
        BY <1>0, DueNat, AllocationType
      <4> QED BY <1>0, <3>2, <4>1, BeginAmounts DEF Amounts
    <3>3. CASE UNCHANGED work
      BY <1>0, <3>3 DEF work, Amounts, WorkShapes
    <3> QED BY <1>3, <3>1, <3>2, <3>3 DEF ReadRows
  <2> QED BY <1>2, <2>2, <2>3, <2>4 DEF Amounts
<1>4. ASSUME NEW x \in Intents, SendSlice(a, x)
      PROVE  Amounts'
  <2>1. UNCHANGED <<row, ledger, work>>
    BY <1>4 DEF SendSlice
  <2>2. RowShapes' /\ WorkShapes'
    BY <1>0, <2>1 DEF Amounts, RowShapes, WorkShapes, work
  <2>3. FlowShapes'
    <3>1. sent' = sent \/ sent' = sent \union {Key(a, x)}
      BY <1>4 DEF SendSlice
    <3>2. Key(a, x) \in Refunds
      BY <1>0, KeyType DEF Amounts
    <3>3. CASE sent' = sent
      BY <1>0, <1>1, <2>1, <3>3 DEF Amounts, FlowShapes
    <3>4. CASE sent' = sent \union {Key(a, x)}
      BY <1>0, <1>1, <2>1, <3>2, <3>4, SentMore DEF Amounts
    <3> QED BY <3>1, <3>3, <3>4
  <2>4. DebtShapes'
    <3>1. debt' = debt \/ Owe(a, Remainder(a))
      BY <1>4 DEF SendSlice, FailSend
    <3> QED BY <1>0, <3>1, DueNat, OweType DEF Amounts, DebtShapes
  <2> QED BY <1>2, <2>2, <2>3, <2>4 DEF Amounts
<1>5. ASSUME NEW x \in Intents, RecordSlice(a, x)
      PROVE  Amounts'
  <2>1. UNCHANGED <<sent, plan, seen>> /\ IsNext(a, x) /\ at[a] = "record"
    BY <1>5 DEF RecordSlice
  <2>2. Key(a, x) \in sent
    BY <1>0, <2>1 DEF Known
  <2>3. ASSUME Record(Key(a, x), seen[a][x])
        PROVE  RowShapes' /\ ledger' \subseteq sent'
    <3>1. Key(a, x) \in Refunds /\ seen[a][x] \in Nat
      BY <1>0, KeyType DEF Amounts, WorkShapes
    <3>2. sent' \subseteq Refunds /\ IsFiniteSet(sent')
      BY <1>0, <2>1 DEF Amounts, FlowShapes
    <3> QED BY <1>0, <2>1, <2>2, <2>3, <3>1, <3>2, RecordType
  <2>4. RowShapes' /\ FlowShapes'
    <3>1. CASE UNCHANGED <<row, ledger>>
      BY <1>0, <1>1, <2>1, <3>1 DEF Amounts, RowShapes, FlowShapes
    <3>2. CASE Record(Key(a, x), seen[a][x])
      <4>1. RowShapes' /\ ledger' \subseteq sent'
        BY <2>3, <3>2
      <4> QED BY <1>0, <1>1, <2>1, <4>1 DEF Amounts, FlowShapes
    <3> QED BY <1>5, <3>1, <3>2 DEF RecordSlice
  <2>5. DebtShapes'
    <3>1. debt' = debt \/ Owe(a, edit[a].due)
      BY <1>5 DEF RecordSlice
    <3> QED BY <1>0, <3>1, DueNat, OweType DEF Amounts, DebtShapes
  <2>6. togo' = togo \/ togo' = [togo EXCEPT ![a] = @ \ {x}]
    BY <1>5 DEF RecordSlice
  <2>7. WorkShapes'
    BY <1>0, <2>1, <2>6 DEF Amounts, WorkShapes
  <2> QED BY <1>2, <2>4, <2>5, <2>7 DEF Amounts
<1>6. CASE FinishRefund(a) \/ Replay(a)
  <2>1. UNCHANGED <<row, refunds, work>>
    BY <1>6 DEF FinishRefund, Replay
  <2>2. DebtShapes'
    BY <1>0, <1>6 DEF FinishRefund, Replay, Amounts, DebtShapes, Debts
  <2> QED BY <1>0, <1>2, <2>1, <2>2 DEF Amounts, RowShapes, FlowShapes, WorkShapes, refunds, work
<1> QED BY <1>3, <1>4, <1>5, <1>6 DEF RefundStep

LEMMA FreezeAmounts ==
  ASSUME AInv, NEW e \in Edits, FreezePlan(e)
  PROVE  Amounts'
<1> DEFINE c == Lesser(debt[e].cents, Refundable)
<1>0. Amounts /\ MoneyShapes /\ e \in Refunders
  BY MoneyTyped, IntentsFinite DEF AInv
<1>1. UNCHANGED <<booking, row, refunds, togo, seen>>
  BY DEF FreezePlan
<1>2. c \in Nat
  BY <1>0, RefundableNat DEF Amounts, DebtShapes, Debts, Lesser
<1>3. plan' = plan \/ plan' = [plan EXCEPT ![e] = Allocation(c)]
  BY DEF FreezePlan
<1>4. \E v \in {"done", "frozen"} : debt' = [debt EXCEPT ![e].op = v]
  BY DEF FreezePlan
<1> HIDE DEF c
<1>5. WorkShapes'
  <2>1. Allocation(c) \in [Intents -> Nat]
    BY <1>0, <1>2, AllocationType
  <2> QED BY <1>0, <1>1, <1>3, <2>1 DEF Amounts, WorkShapes
<1>6. DebtShapes'
  BY <1>0, <1>4 DEF Amounts, DebtShapes, Debts
<1> QED BY <1>0, <1>1, <1>5, <1>6 DEF Amounts, Priced, BookingShapes, RowShapes, FlowShapes, booking, refunds

LEMMA PaymentAmounts ==
  ASSUME AInv, NEW x \in Edits,
         \/ Pay(x) \/ Decline(x) \/ Confirm(x) \/ ReadEvent(x) \/ MarkPaid(x)
         \/ ReturnLate(x) \/ VoidIntent(x) \/ ReturnWithdrawn(x)
  PROVE  Amounts'
<1>0. Amounts /\ MoneyShapes /\ x \in Intents /\ 0 \in Refunders
  BY MoneyTyped, IntentsFinite DEF AInv
<1>1. UNCHANGED <<booking, credit, debt, work>>
  BY DEF Pay, Decline, Confirm, ReadEvent, MarkPaid, ReturnLate, VoidIntent, ReturnWithdrawn, refunds
<1>2. Priced' /\ DebtShapes' /\ WorkShapes'
  BY <1>0, <1>1 DEF Amounts, Priced, BookingShapes, DebtShapes, WorkShapes, booking, work
<1>3. row[x].amount \in Nat /\ row[x].refunded \in Nat /\ Room[x] \in Nat
  BY <1>0, RoomLeft
<1>4. RowShapes' /\ FlowShapes'
  <2>1. CASE Pay(x) \/ Decline(x) \/ Confirm(x) \/ ReadEvent(x) \/ MarkPaid(x) \/ VoidIntent(x)
    <3>1. UNCHANGED refunds
      BY <2>1 DEF Pay, Decline, Confirm, ReadEvent, MarkPaid, VoidIntent
    <3>2. row' = row \/ \E s \in Statuses : row' = [row EXCEPT ![x].status = s]
      BY <2>1 DEF Pay, Decline, Confirm, ReadEvent, MarkPaid, VoidIntent, HandOff, SetRow, Statuses
    <3>3. RowShapes'
      BY <1>0, <3>2, RowStatusPut DEF Amounts, RowShapes
    <3> QED BY <1>0, <3>1, <3>3 DEF Amounts, FlowShapes, refunds
  <2>2. CASE ReturnLate(x)
    <3>1. Late(x) \in Refunds
      BY <1>0, <1>3 DEF Late, Refunds
    <3>2. CASE /\ sent' = sent \union {Late(x)} /\ ledger' = ledger \union {Late(x)}
               /\ SettleRow(x, row[x].amount)
      BY <1>0, <1>1, <1>3, <3>1, <3>2, SentMore, RowSettled DEF Amounts
    <3>3. CASE UNCHANGED <<sent, ledger>> /\ SetRow(x, "SUCCEEDED")
      <4>1. RowShapes'
        BY <1>0, <3>3, RowStatusPut DEF SetRow, Amounts, Statuses
      <4> QED BY <1>0, <1>1, <3>3, <4>1 DEF Amounts, FlowShapes
    <3> QED BY <2>2, <3>2, <3>3 DEF ReturnLate
  <2>3. CASE ReturnWithdrawn(x)
    <3>1. Back(x) \in Refunds
      BY <1>0, <1>3 DEF Back, Refunds
    <3>2. CASE UNCHANGED <<sent, ledger, row>>
      BY <1>0, <1>1, <3>2 DEF Amounts, FlowShapes, RowShapes
    <3>3. CASE sent' = sent \union {Back(x)} /\ UNCHANGED <<ledger, row>>
      <4>1. FlowShapes'
        BY <1>0, <1>1, <3>1, <3>3, SentMore DEF Amounts
      <4> QED BY <1>0, <3>3, <4>1 DEF Amounts, RowShapes
    <3>4. CASE sent' = sent \union {Back(x)} /\ Record(Back(x), row[x].refunded)
      <4>1. ledger' = ledger \union {Back(x)}
        BY <3>4 DEF Record
      <4>2. FlowShapes'
        BY <1>0, <1>1, <3>1, <3>4, <4>1, SentMore DEF Amounts
      <4>3. RowShapes'
        BY <1>0, <1>3, <3>1, <3>4, <4>2, RecordType DEF FlowShapes
      <4> QED BY <4>2, <4>3
    <3> QED BY <2>3, <3>2, <3>3, <3>4 DEF ReturnWithdrawn
  <2> QED BY <2>1, <2>2, <2>3
<1> QED BY <1>2, <1>4 DEF Amounts

LEMMA OtherAmounts ==
  ASSUME AInv,
         \/ \E e \in Edits : MintIntent(e) \/ Supersede(e) \/ Register(e) \/ ResumeIntent(e)
         \/ \E a \in Refunders : Crash(a)
         \/ TearDown
         \/ \E x \in Intents : SyncRefunds(x)
         \/ UNCHANGED vars
  PROVE  Amounts'
<1>0. Amounts /\ Edits \subseteq Intents /\ Edits \subseteq Refunders
  BY IntentsFinite DEF AInv
<1>1. UNCHANGED <<booking, sent, credit, debt, work>>
  BY DEF MintIntent, Supersede, Register, ResumeIntent, Crash, TearDown, SyncRefunds, vars, refunds
<1>2. Priced' /\ DebtShapes' /\ WorkShapes'
  BY <1>0, <1>1 DEF Amounts, Priced, BookingShapes, DebtShapes, WorkShapes, booking, work
<1>3. CASE UNCHANGED <<row, ledger>>
  BY <1>0, <1>1, <1>2, <1>3 DEF Amounts, FlowShapes, RowShapes
<1>4. ASSUME NEW e \in Edits, Register(e), row' # row
      PROVE  Amounts'
  <2>1. row' = [row EXCEPT ![e] = NewRow(e)] /\ ledger' = ledger
    BY <1>4 DEF Register, NewRow, refunds
  <2>2. edit[e].add \in Nat /\ Cardinality(Registered) \in Nat
    BY <1>0, DueNat, RegisteredFinite
  <2>3. NewRow(e) \in Rows /\ NewRow(e).refunded <= NewRow(e).amount
    BY <2>2 DEF NewRow, Rows
  <2>4. RowShapes'
    BY <1>0, <2>1, <2>3, RowPut DEF Amounts
  <2> QED BY <1>0, <1>1, <1>2, <2>1, <2>4 DEF Amounts, FlowShapes
<1>5. ASSUME NEW x \in Intents, SyncRefunds(x)
      PROVE  Amounts'
  <2>1. FlowShapes'
    <3>1. {r \in sent : r.of = x} \in SUBSET sent
      OBVIOUS
    <3> QED BY <1>0, <1>1, <1>5, <3>1, RecordedMore DEF SyncRefunds, Amounts
  <2>2. Sent(x) \in Nat
    BY <1>0, SentCents DEF Sent, Amounts
  <2> DEFINE v == Lesser(row[x].amount, Greater(row[x].refunded, Sent(x)))
  <2>3. v \in Nat /\ v <= row[x].amount
    BY <1>0, <2>2 DEF Lesser, Greater, Amounts, RowShapes, Rows
  <2>4. SettleRow(x, v)
    BY <1>5 DEF SyncRefunds
  <2> HIDE DEF v
  <2>5. RowShapes'
    BY <1>0, <2>3, <2>4, RowSettled DEF Amounts
  <2> QED BY <1>2, <2>1, <2>5 DEF Amounts
<1>6. \/ UNCHANGED <<row, ledger>>
      \/ \E e \in Edits : Register(e) /\ row' # row
      \/ \E x \in Intents : SyncRefunds(x)
  BY DEF MintIntent, Supersede, Register, ResumeIntent, Crash, TearDown, vars, refunds
<1> QED BY <1>3, <1>4, <1>5, <1>6

LEMMA StepAmounts ==
  ASSUME AInv, [Next]_vars
  PROVE  Amounts'
BY CommitAmounts, CancelAmounts, RefundAmounts, FreezeAmounts, PaymentAmounts, OtherAmounts,
   ZenonT(60) DEF Next, RefundStep

----------------------------------------------------------------------------
(* Every step keeps what is known of refunds at work.                       *)

(* Nothing changes that a's refund is known by. *)
SamePlan(a) ==
  plan'[a] = plan[a] /\ togo'[a] = togo[a] /\ (at'[a] = at[a] \/ at'[a] # "record")

LEMMA SameNext ==
  ASSUME AInv, [Next]_vars, NEW a \in Refunders, NEW x, togo'[a] = togo[a]
  PROVE  IsNext(a, x)' <=> IsNext(a, x)
<1>1. \A y \in togo[a] : row'[y].rank = row[y].rank
  BY StepAges DEF AInv, Known, Aging
<1> QED BY <1>1 DEF IsNext

LEMMA SameKnown ==
  ASSUME AInv, [Next]_vars, NEW a \in Refunders, SamePlan(a), sent \subseteq sent'
  PROVE  Known(a)'
<1>1. Known(a) /\ Booked \subseteq Booked'
  BY StepAges DEF AInv, Aging
<1>2. \A x : IsNext(a, x)' <=> IsNext(a, x)
  BY SameNext DEF SamePlan
<1>3. \A x : Key(a, x)' = Key(a, x)
  BY DEF SamePlan, Key
<1>4. Planned(plan'[a]) = Planned(plan[a])
  BY DEF SamePlan
<1>5. Planned(plan'[a]) \subseteq Booked' /\ togo'[a] \subseteq Booked'
  BY <1>1, <1>4 DEF Known, SamePlan
<1>6. at'[a] = "record" => \A x \in Intents : IsNext(a, x)' => Key(a, x)' \in sent'
  BY <1>1, <1>2, <1>3 DEF Known, SamePlan
<1> QED BY <1>5, <1>6 DEF Known

(* Of the rows a refund has still to take from, one is the newest. *)
LEMMA OneNext ==
  ASSUME AInv, NEW a \in Refunders, NEW x, NEW y, IsNext(a, x), IsNext(a, y)
  PROVE  x = y
<1>1. x \in Booked /\ y \in Booked
  BY DEF AInv, Known, IsNext
<1>2. row[x].rank \in Nat /\ row[y].rank \in Nat
  BY <1>1, BookedAges DEF AInv, Amounts, RowShapes, Rows
<1>3. row[x].rank <= row[y].rank /\ row[y].rank <= row[x].rank
  BY DEF IsNext
<1> QED BY <1>1, <1>2, <1>3, BookedAges DEF AInv

(* A plan made now takes from rows there are. *)
LEMMA FreshKnown ==
  ASSUME AInv, [Next]_vars, NEW c \in Int
  PROVE  Planned(Allocation(c)) \subseteq Booked'
<1>1. Planned(Allocation(c)) \subseteq Captured
  BY AllocationType, MoneyTyped DEF AInv
<1> QED BY <1>1, BookedAges, StepAges DEF AInv, Aging

LEMMA RefundKnown ==
  ASSUME AInv, [Next]_vars, NEW a \in Refunders, RefundStep(a), NEW b \in Refunders
  PROVE  Known(b)'
<1>0. Amounts /\ Known(a) /\ Known(b) /\ sent \subseteq sent' /\ Booked \subseteq Booked'
  BY StepAges DEF AInv, Aging, RefundStep, ReadRows, SendSlice, RecordSlice, FinishRefund, Replay, refunds
<1>1. /\ \A d \in Refunders \ {a} : at'[d] = at[d] /\ plan'[d] = plan[d] /\ togo'[d] = togo[d]
      /\ at \in [Refunders -> {"done", "mint", "supersede", "register", "read", "send",
                               "record", "teardown"}]
  BY <1>0 DEF RefundStep, ReadRows, SendSlice, RecordSlice, FinishRefund, Replay, BeginRefund, Owe,
     FailSend, Goto, work, Amounts, WorkShapes, AInv, BInv, Shapes, PlaceShapes
<1>2. CASE b # a
  BY <1>0, <1>1, <1>2, SameKnown DEF SamePlan
<1>3. CASE b = a /\ ReadRows(a)
  <2>1. CASE \E p : BeginRefund(a, p) /\ (p = plan[a] \/ p = Allocation(edit[a].due))
    <3>1. PICK p : BeginRefund(a, p) /\ (p = plan[a] \/ p = Allocation(edit[a].due))
      BY <2>1
    <3>2. plan'[a] = p /\ togo'[a] = Planned(p) /\ at'[a] = "send"
      BY <1>0, <1>1, <3>1 DEF BeginRefund, Goto, Amounts, WorkShapes
    <3>3. Planned(p) \subseteq Booked'
      BY <1>0, <3>1, FreshKnown, DueNat DEF Known
    <3> QED BY <1>3, <3>2, <3>3 DEF Known
  <2>2. CASE Owe(a, edit[a].due) /\ UNCHANGED work
    <3>1. SamePlan(a)
      BY <1>1, <2>2 DEF SamePlan, Owe, Goto, work
    <3> QED BY <1>0, <1>3, <3>1, SameKnown
  <2> QED BY <1>3, <2>1, <2>2 DEF ReadRows
<1>4. ASSUME b = a, NEW x \in Intents, SendSlice(a, x)
      PROVE  Known(b)'
  <2>1. UNCHANGED work /\ IsNext(a, x)
    BY <1>4 DEF SendSlice
  <2>2. CASE at'[a] = "record"
    <3>1. Key(a, x) \in sent'
      <4>1. "record" # "done"
        OBVIOUS
      <4> QED BY <1>1, <1>4, <2>2, <4>1 DEF SendSlice, FailSend, Owe, Goto
    <3>2. ASSUME NEW y \in Intents, IsNext(a, y)'
          PROVE  Key(a, y)' \in sent'
      <4>1. y = x
        BY <2>1, <3>2, SameNext, OneNext DEF work
      <4> QED BY <2>1, <3>1, <4>1 DEF Key, work
    <3>3. plan'[a] = plan[a] /\ togo'[a] = togo[a]
      BY <2>1 DEF work
    <3> QED BY <1>0, <1>4, <3>2, <3>3 DEF Known
  <2>3. CASE at'[a] # "record"
    BY <1>0, <1>4, <2>1, <2>3, SameKnown DEF SamePlan, work
  <2> QED BY <2>2, <2>3
<1>5. ASSUME b = a, NEW x \in Intents, RecordSlice(a, x)
      PROVE  Known(b)'
  <2>1. plan' = plan /\ togo'[a] \subseteq togo[a] /\ at'[a] # "record"
    BY <1>0, <1>1, <1>5 DEF RecordSlice, Owe, Goto, Amounts, WorkShapes
  <2> QED BY <1>0, <1>5, <2>1 DEF Known
<1>6. CASE b = a /\ (FinishRefund(a) \/ Replay(a))
  <2>1. SamePlan(a)
    BY <1>1, <1>6 DEF FinishRefund, Replay, Goto, work, SamePlan
  <2> QED BY <1>0, <1>6, <2>1, SameKnown
<1> QED BY <1>2, <1>3, <1>4, <1>5, <1>6 DEF RefundStep

LEMMA FreezeKnown ==
  ASSUME AInv, [Next]_vars, NEW e \in Edits, FreezePlan(e), NEW b \in Refunders
  PROVE  Known(b)'
<1> DEFINE c == Lesser(debt[e].cents, Refundable)
<1>0. Amounts /\ Known(b) /\ sent \subseteq sent' /\ Booked \subseteq Booked' /\ e \in Refunders
  BY StepAges, IntentsFinite DEF AInv, Aging, FreezePlan, refunds
<1>1. /\ togo' = togo /\ \A d \in Refunders \ {e} : at'[d] = at[d] /\ plan'[d] = plan[d]
      /\ at'[e] # "record"
  BY <1>0 DEF FreezePlan, Goto, Amounts, WorkShapes, AInv, BInv, Shapes, PlaceShapes
<1>2. CASE b # e
  BY <1>0, <1>1, <1>2, SameKnown DEF SamePlan
<1>3. CASE b = e
  <2>1. plan' = plan \/ plan' = [plan EXCEPT ![e] = Allocation(c)]
    BY DEF FreezePlan
  <2>2. c \in Nat
    BY <1>0, MoneyTyped, RefundableNat DEF Amounts, DebtShapes, Debts, Lesser
  <2> HIDE DEF c
  <2>3. Planned(Allocation(c)) \subseteq Booked'
    BY <2>2, FreshKnown
  <2>4. plan'[e] = plan[e] \/ plan'[e] = Allocation(c)
    BY <1>0, <2>1 DEF Amounts, WorkShapes
  <2> QED BY <1>0, <1>1, <1>3, <2>3, <2>4 DEF Known
<1> QED BY <1>2, <1>3

LEMMA CancelKnown ==
  ASSUME AInv, [Next]_vars, NEW way \in {"card", "credit"}, NEW s \in Shares, Cancel(way, s),
         NEW b \in Refunders
  PROVE  Known(b)'
<1> DEFINE c == Share(s, Base)
<1>0. Amounts /\ Known(b) /\ sent \subseteq sent' /\ Booked \subseteq Booked' /\ 0 \in Refunders
  BY StepAges, IntentsFinite DEF AInv, Aging, Cancel
<1>1. /\ \A d \in Refunders \ {0} : at'[d] = at[d] /\ plan'[d] = plan[d] /\ togo'[d] = togo[d]
      /\ at'[0] # "record" /\ togo'[0] = Outstanding
  BY <1>0 DEF Cancel, Goto, Amounts, WorkShapes, AInv, BInv, Shapes, PlaceShapes
<1>2. CASE b # 0
  BY <1>0, <1>1, <1>2, SameKnown DEF SamePlan
<1>3. CASE b = 0
  <2>1. plan' = plan \/ plan' = [plan EXCEPT ![0] = Allocation(c)]
    BY DEF Cancel
  <2>2. c \in Nat
    BY <1>0, BaseBound
  <2> HIDE DEF c
  <2>3. Planned(Allocation(c)) \subseteq Booked'
    BY <2>2, FreshKnown
  <2>4. plan'[0] = plan[0] \/ plan'[0] = Allocation(c)
    BY <1>0, <2>1 DEF Amounts, WorkShapes
  <2>5. Outstanding \subseteq Booked
    BY DEF Outstanding, Newest, Booked
  <2> QED BY <1>0, <1>1, <1>3, <2>3, <2>4, <2>5 DEF Known
<1> QED BY <1>2, <1>3

(* A step that leaves the plans alone, and moves nobody to a record. *)
LEMMA OtherKnown ==
  ASSUME AInv, [Next]_vars, NEW b \in Refunders, UNCHANGED work, sent \subseteq sent',
         UNCHANGED at \/ \E d \in Refunders : \E place : Goto(d, place) /\ place # "record"
  PROVE  Known(b)'
<1>1. SamePlan(b)
  BY DEF SamePlan, Goto, work, AInv, BInv, Shapes, PlaceShapes
<1> QED BY <1>1, SameKnown

LEMMA StepKnown ==
  ASSUME AInv, [Next]_vars, NEW b \in Refunders
  PROVE  Known(b)'
<1>1. 0 \in Refunders /\ Edits \subseteq Refunders
  BY IntentsFinite
<1>2. ASSUME NEW e \in Edits, NEW cents, NEW s,
             \/ CommitIncrease(e, cents) \/ CommitCardReduction(e, cents, s)
             \/ CommitCreditReduction(e, cents, s)
      PROVE  Known(b)'
  <2>1. PICK kind, c : \E place \in {"mint", "read", "done"} : Commit(e, kind, c, place)
    BY <1>2 DEF CommitIncrease, CommitCardReduction, CommitCreditReduction
  <2>2. UNCHANGED work /\ sent' = sent /\ \E place : Goto(e, place) /\ place # "record"
    BY <2>1 DEF Commit
  <2> QED BY <1>1, <2>2, OtherKnown
<1>3. ASSUME NEW e \in Edits, MintIntent(e) \/ Supersede(e) \/ Register(e) \/ ResumeIntent(e)
      PROVE  Known(b)'
  <2>1. UNCHANGED work /\ sent' = sent
        /\ (UNCHANGED at \/ \E place : Goto(e, place) /\ place # "record")
    BY <1>3 DEF MintIntent, Supersede, Register, ResumeIntent, Postpone, refunds
  <2> QED BY <1>1, <2>1, OtherKnown
<1>4. ASSUME (\E a \in Refunders : Crash(a)) \/ TearDown
      PROVE  Known(b)'
  <2>1. UNCHANGED work /\ sent' = sent
        /\ \E a \in Refunders : \E place : Goto(a, place) /\ place # "record"
    BY <1>1, <1>4 DEF Crash, TearDown, refunds
  <2> QED BY <2>1, OtherKnown
<1>5. ASSUME \/ \E y \in Edits : \/ Pay(y) \/ Decline(y) \/ Confirm(y) \/ ReadEvent(y)
                                  \/ MarkPaid(y) \/ ReturnLate(y) \/ VoidIntent(y)
                                  \/ ReturnWithdrawn(y)
             \/ \E y \in Intents : SyncRefunds(y)
             \/ UNCHANGED vars
      PROVE  Known(b)'
  <2>1. UNCHANGED <<at, work>> /\ sent \subseteq sent'
    BY <1>5 DEF Pay, Decline, Confirm, ReadEvent, MarkPaid, ReturnLate, VoidIntent, ReturnWithdrawn,
       SyncRefunds, vars, refunds
  <2> QED BY <2>1, OtherKnown
<1> QED BY <1>2, <1>3, <1>4, <1>5, RefundKnown, FreezeKnown, CancelKnown, ZenonT(60) DEF Next, RefundStep

LEMMA InitAmounts == Init => AInv
<1> SUFFICES ASSUME Init PROVE AInv
  OBVIOUS
<1>0. IsFiniteSet(sent) /\ 0 \in Intents /\ 0 \notin Edits
  BY FS_EmptySet, IntentsFinite DEF Init
<1>1. Priced
  BY EditAssumption DEF Init, Priced, BookingShapes, Bills, NoEdit
<1>2. RowShapes
  BY EditAssumption DEF Init, RowShapes, Rows, NoRow
<1>3. FlowShapes /\ DebtShapes
  BY <1>0 DEF Init, FlowShapes, DebtShapes, Debts, NoDebt
<1>4. WorkShapes
  BY DEF Init, WorkShapes
<1>5. Registered = {}
  BY IntentsFinite DEF Init, Registered, NoRow
<1>6. Ages
  BY <1>0, <1>5 DEF Init, Ages
<1>7. \A a \in Refunders : Known(a)
  BY DEF Init, Known, Planned
<1> QED BY <1>1, <1>2, <1>3, <1>4, <1>6, <1>7, InitBilled DEF AInv, Amounts

LEMMA StepInv == AInv /\ [Next]_vars => AInv'
<1> SUFFICES ASSUME AInv, [Next]_vars PROVE AInv'
  OBVIOUS
<1>1. BInv'
  BY StepBilled DEF AInv
<1>2. Ages' /\ Amounts'
  BY StepAges, StepAmounts DEF AInv
<1>3. \A a \in Refunders : Known(a)'
  BY StepKnown
<1> QED BY <1>1, <1>2, <1>3 DEF AInv

LEMMA AlwaysAmounts == Spec => []AInv
BY StepInv, InitAmounts, PTL DEF Spec

(* What every variable may hold, the amounts included: what is refunded of  *)
(* a row never exceeds what it captured, however many edits, cancellations, *)
(* late payments and recoveries take from it.                               *)
THEOREM TypeCorrect == Spec => []TypeOK
<1>1. AInv => TypeOK
  BY MoneyTyped DEF AInv, TypeOK, BInv, Shapes, Amounts, Priced
<1> QED BY <1>1, AlwaysAmounts, PTL

----------------------------------------------------------------------------
(* What a reduction to the card has returned.                               *)

(* The refunds its plan asks for. *)
Asked(e) == {Key(e, x) : x \in Planned(plan[e])}

(* Before there is an operation: only what the plan asks for was sent, and  *)
(* what was is recorded, but for the one that is being recorded.            *)
Direct(e) ==
  /\ SentFor(e) \subseteq Asked(e) /\ Cents(Asked(e)) <= edit[e].due
  /\ at[e] = "read" => Planned(plan[e]) = {}
  /\ at[e] \in {"send", "record"} =>
       /\ togo[e] \subseteq Planned(plan[e]) /\ Cents(Asked(e)) = edit[e].due
       /\ Recorded(e) \subseteq SentFor(e)
  /\ at[e] = "send" => SentFor(e) = Recorded(e)
  /\ at[e] = "record" => \A r \in SentFor(e) \ Recorded(e) : IsNext(e, r.of)
  /\ at[e] = "done" =>
       e \in crashed \/ (SentFor(e) = Asked(e) /\ Cents(Asked(e)) = edit[e].due)

(* What is owed and what is recorded make up what is due, or more, if the   *)
(* edit never heard of a refund.                                            *)
Owing(e) ==
  /\ at[e] = "done"
  /\ SentFor(e) \subseteq Asked(e) /\ Cents(Asked(e)) <= edit[e].due
  /\ Recorded(e) \subseteq SentFor(e)
  /\ debt[e].cents + Cents(Recorded(e)) >= edit[e].due
  /\ debt[e].cents > 0
  /\ e \notin unheard => SentFor(e) = Recorded(e)
                         /\ debt[e].cents + Cents(Recorded(e)) = edit[e].due

(* What was sent and what the run's plan asks for make up what is due.      *)
Following(e) ==
  /\ e \notin reminted => Cents(SentFor(e) \union Asked(e)) <= edit[e].due
  /\ e \notin short \union repeated => Cents(SentFor(e) \union Asked(e)) >= edit[e].due
  /\ at[e] \in {"send", "record"} =>
       togo[e] \subseteq Planned(plan[e]) /\ Recorded(e) \subseteq SentFor(e)

Closed(e) ==
  /\ at[e] = "done"
  /\ e \notin reminted => Cents(SentFor(e)) <= edit[e].due
  /\ e \notin short \union repeated => Cents(SentFor(e)) >= edit[e].due

Repaid(e) ==
  /\ edit[e].kind # "card" => SentFor(e) = {} /\ Planned(plan[e]) = {}
  /\ edit[e].kind = "card" =>
       /\ debt[e].op = "none" => Direct(e)
       /\ debt[e].op = "due" => Owing(e)
       /\ debt[e].op = "frozen" => Following(e)
       /\ debt[e].op = "done" => Closed(e)

RInv == AInv /\ \A e \in Edits : Repaid(e)

----------------------------------------------------------------------------
(* Refunds by their keys.                                                   *)

KeyOf(e, p, x) == [by |-> "edit", from |-> e, of |-> x, cents |-> p[x]]
KeysOf(e, p, S) == {KeyOf(e, p, x) : x \in S}

LEMMA KeyFields ==
  ASSUME NEW e, NEW p, NEW x
  PROVE  /\ KeyOf(e, p, x).of = x /\ KeyOf(e, p, x).from = e /\ KeyOf(e, p, x).by = "edit"
         /\ KeyOf(e, p, x).cents = p[x] /\ Key(e, x) = KeyOf(e, plan[e], x)
BY DEF Key, KeyOf

LEMMA KeyIs ==
  ASSUME NEW e, NEW x
  PROVE  Key(e, x).of = x /\ Key(e, x).from = e /\ Key(e, x).by = "edit"
         /\ Key(e, x).cents = plan[e][x]
BY DEF Key

(* A plan's keys ask for the plan's cents. *)
LEMMA KeysCents ==
  ASSUME NEW e \in Refunders, NEW p \in [Intents -> Nat], NEW S \in SUBSET Intents
  PROVE  /\ Cents(KeysOf(e, p, S)) = Sum(p, S) /\ Cents(KeysOf(e, p, S)) \in Nat
         /\ IsFiniteSet(KeysOf(e, p, S)) /\ KeysOf(e, p, S) \subseteq Refunds
<1> DEFINE Q == {T \in SUBSET S : Cents(KeysOf(e, p, T)) = Sum(p, T)
                                  /\ IsFiniteSet(KeysOf(e, p, T))}
<1>1. IsFiniteSet(S)
  BY IntentsFinite, FS_Subset
<1>2. \A x \in S : p[x] \in Nat /\ KeyOf(e, p, x) \in Refunds
  BY DEF KeyOf, Refunds
<1>3. {} \in Q
  <2>1. KeysOf(e, p, {}) = {}
    BY DEF KeysOf
  <2> QED BY <2>1, CentsEmpty, SumEmpty, FS_EmptySet
<1>4. ASSUME NEW T \in SUBSET S, NEW x \in S, T \in Q, x \notin T
      PROVE  T \union {x} \in Q
  <2> DEFINE K == KeysOf(e, p, T)
             k == KeyOf(e, p, x)
  <2>1. KeysOf(e, p, T \union {x}) = K \union {k}
    BY DEF KeysOf
  <2>2. k \notin K
    BY <1>4, KeyFields DEF KeysOf
  <2>3. \A q \in K \union {k} : q.cents \in Nat
    BY <1>2, KeyFields DEF KeysOf
  <2>4. IsFiniteSet(K) /\ Cents(K) = Sum(p, T)
    BY <1>4
  <2>5. k.cents = p[x] /\ p[x] \in Nat
    BY <1>2, KeyFields
  <2> HIDE DEF K, k
  <2>6. Cents(K \union {k}) = Cents(K) + k.cents /\ IsFiniteSet(K \union {k})
    BY <2>2, <2>3, <2>4, CentsAdd, FS_AddElement
  <2>7. IsFiniteSet(T) /\ \A y \in T \union {x} : p[y] \in Nat
    BY <1>1, <1>2, <1>4, FS_Subset
  <2>8. Sum(p, T \union {x}) = p[x] + Sum(p, T) /\ Sum(p, T) \in Nat
    BY <1>4, <2>7, SumAdd, SumNat
  <2>9. Cents(K \union {k}) = Sum(p, T \union {x})
    BY <2>4, <2>5, <2>6, <2>8
  <2>10. Cents(KeysOf(e, p, T \union {x})) = Sum(p, T \union {x})
    BY <2>1, <2>9
  <2>11. IsFiniteSet(KeysOf(e, p, T \union {x}))
    BY <2>1, <2>6
  <2> QED BY <1>4, <2>10, <2>11
<1>5. S \in Q
  <2> HIDE DEF Q
  <2> QED BY <1>1, <1>3, <1>4, FiniteSetInduction
<1>6. KeysOf(e, p, S) \subseteq Refunds
  BY <1>2 DEF KeysOf
<1>7. Sum(p, S) \in Nat
  BY <1>1, <1>2, SumNat
<1> QED BY <1>1, <1>5, <1>6, <1>7

(* What a plan asks for in all, and but for some rows. *)
LEMMA PlannedCents ==
  ASSUME NEW e \in Refunders, NEW p \in [Intents -> Nat], NEW T
  PROVE  Cents(KeysOf(e, p, Planned(p) \ T)) = Sum(p, Intents \ T)
<1> DEFINE P == Planned(p)
           S == Intents \ T
<1>1. P \in SUBSET Intents /\ S \in SUBSET Intents /\ IsFiniteSet(S) /\ S \cap P = P \ T
  BY IntentsFinite, FS_Subset DEF Planned
<1>2. \A x \in S : p[x] \in Int
  OBVIOUS
<1>3. \A x \in S \ (S \cap P) : p[x] = 0
  BY DEF Planned
<1> HIDE DEF P, S
<1>4. Sum(p, S) = Sum(p, S \cap P) + Sum(p, S \ (S \cap P))
  BY <1>1, <1>2, SumSplit
<1>5. Sum(p, S \ (S \cap P)) = 0
  BY <1>1, <1>3, FS_Subset, SumZero
<1>6. P \ T \in SUBSET Intents
  BY <1>1
<1>7. Cents(KeysOf(e, p, P \ T)) = Sum(p, P \ T) /\ Cents(KeysOf(e, p, P \ T)) \in Nat
  BY <1>6, KeysCents
<1> QED BY <1>1, <1>4, <1>5, <1>7 DEF P, S

LEMMA PlanCents ==
  ASSUME Amounts, NEW e \in Refunders
  PROVE  /\ Cents(Asked(e)) = Sum(plan[e], Intents) /\ Cents(Asked(e)) \in Nat
         /\ Cents(Recorded(e)) = Sum(plan[e], Intents \ togo[e]) /\ Cents(Recorded(e)) \in Nat
         /\ IsFiniteSet(Asked(e)) /\ Asked(e) \subseteq Refunds
         /\ Recorded(e) \subseteq Asked(e) /\ IsFiniteSet(Recorded(e))
<1> DEFINE p == plan[e]
<1>1. p \in [Intents -> Nat]
  BY DEF Amounts, WorkShapes
<1>2. Asked(e) = KeysOf(e, p, Planned(p)) /\ Asked(e) = KeysOf(e, p, Planned(p) \ {})
  BY KeyFields DEF Asked, KeysOf
<1>3. Recorded(e) = KeysOf(e, p, Planned(p) \ togo[e]) /\ Recorded(e) \subseteq Asked(e)
  BY KeyFields DEF Asked, Recorded, KeysOf
<1>4. Planned(p) \subseteq Intents /\ Planned(p) \ togo[e] \subseteq Intents
  BY DEF Planned
<1> HIDE DEF p
<1>5. Cents(Asked(e)) = Sum(p, Intents \ {}) /\ Cents(Recorded(e)) = Sum(p, Intents \ togo[e])
  <2>1. \A T : Cents(KeysOf(e, p, Planned(p) \ T)) = Sum(p, Intents \ T)
    BY <1>1, PlannedCents
  <2> QED BY <2>1, <1>2, <1>3, Zenon
<1>6. /\ IsFiniteSet(Asked(e)) /\ Asked(e) \subseteq Refunds /\ Cents(Asked(e)) \in Nat
      /\ IsFiniteSet(Recorded(e)) /\ Cents(Recorded(e)) \in Nat
  BY <1>1, <1>2, <1>3, <1>4, KeysCents
<1>7. Intents \ {} = Intents
  OBVIOUS
<1> QED BY <1>3, <1>5, <1>6, <1>7 DEF p

LEMMA SentForCents ==
  ASSUME Amounts, NEW e
  PROVE  Cents(SentFor(e)) \in Nat /\ IsFiniteSet(SentFor(e)) /\ SentFor(e) \subseteq Refunds
<1>1. SentFor(e) \in SUBSET sent
  BY DEF SentFor
<1> QED BY <1>1, SentCents DEF Amounts, FlowShapes

(* The cents of an allocation, by its keys. *)
LEMMA AllocatedCents ==
  ASSUME AInv, NEW c \in Nat, c <= Refundable
  PROVE  Sum(Allocation(c), Intents) = c
BY Divided, MoneyTyped, BookedAges DEF AInv

(* What does not concern an edit's refund leaves it as it is.               *)
SameRefund(e) ==
  /\ edit'[e] = edit[e] /\ at'[e] = at[e] /\ debt'[e] = debt[e]
  /\ plan'[e] = plan[e] /\ togo'[e] = togo[e]
  /\ \A r : r.by = "edit" /\ r.from = e => (r \in sent' <=> r \in sent)
  /\ (e \in crashed => e \in crashed') /\ (e \in unheard' <=> e \in unheard)
  /\ (e \in reminted' <=> e \in reminted) /\ (e \in short' <=> e \in short)
  /\ (e \in repeated' <=> e \in repeated)

LEMMA SameKeys ==
  ASSUME NEW e, plan'[e] = plan[e]
  PROVE  Asked(e)' = Asked(e) /\ Planned(plan'[e]) = Planned(plan[e])
         /\ (togo'[e] = togo[e] => Recorded(e)' = Recorded(e)) /\ \A x : Key(e, x)' = Key(e, x)
BY DEF Asked, Recorded, Key, Planned

LEMMA SameSent ==
  ASSUME NEW e, \A r : r.by = "edit" /\ r.from = e => (r \in sent' <=> r \in sent)
  PROVE  SentFor(e)' = SentFor(e)
BY DEF SentFor

LEMMA SameRepaid ==
  ASSUME RInv, [Next]_vars, NEW e \in Edits, SameRefund(e)
  PROVE  Repaid(e)'
<1>1. Asked(e)' = Asked(e) /\ Planned(plan'[e]) = Planned(plan[e]) /\ Recorded(e)' = Recorded(e)
  BY SameKeys DEF SameRefund
<1>2. SentFor(e)' = SentFor(e)
  BY SameSent DEF SameRefund
<1>3. e \in Refunders
  BY IntentsFinite
<1>4. \A x : IsNext(e, x)' <=> IsNext(e, x)
  BY <1>3, SameNext DEF RInv, SameRefund
<1>5. Repaid(e)
  BY DEF RInv
<1>6. Direct(e) => Direct(e)'
  BY <1>1, <1>2, <1>4 DEF Direct, SameRefund
<1>7. Owing(e) => Owing(e)'
  BY <1>1, <1>2 DEF Owing, SameRefund
<1>8. Following(e) => Following(e)'
  BY <1>1, <1>2 DEF Following, SameRefund
<1>9. Closed(e) => Closed(e)'
  BY <1>1, <1>2 DEF Closed, SameRefund
<1> QED BY <1>1, <1>2, <1>5, <1>6, <1>7, <1>8, <1>9 DEF Repaid, SameRefund

(* So it is while an edit's money does not go to the card.                  *)
LEMMA UnrefundedRepaid ==
  ASSUME RInv, NEW e \in Edits, edit'[e].kind # "card", edit[e].kind # "card", plan'[e] = plan[e],
         \A r : r.by = "edit" /\ r.from = e => (r \in sent' <=> r \in sent)
  PROVE  Repaid(e)'
<1>1. SentFor(e)' = SentFor(e) /\ Planned(plan'[e]) = Planned(plan[e])
  BY SameSent, SameKeys
<1> QED BY <1>1 DEF RInv, Repaid

----------------------------------------------------------------------------
(* Every step keeps what a reduction has returned.                          *)

(* Where a refund is, and what its step does to the other edits. *)
LEMMA RefundersKnow ==
  ASSUME RInv, NEW e \in Edits
  PROVE  /\ e \in Refunders /\ e # 0 /\ Amounts /\ Known(e) /\ Traced(e) /\ Repaid(e)
         /\ debt[e].op \in {"none", "due", "frozen", "done"} /\ debt[e].cents \in Nat
         /\ edit[e].due \in Nat /\ edit[e].kind \in {"none", "up", "card", "credit"}
<1>1. e \in Refunders /\ e # 0 /\ Amounts /\ Known(e) /\ Traced(e) /\ Repaid(e)
  BY IntentsFinite DEF RInv, AInv, BInv, AllTraced
<1> QED BY <1>1 DEF Amounts, DebtShapes, Debts, Priced, BookingShapes, Bills

LEMMA ElsewhereRepaid ==
  ASSUME RInv, [Next]_vars, NEW a \in Refunders, NEW e \in Edits, e # a,
         RefundStep(a) \/ (a \in Edits /\ FreezePlan(a))
  PROVE  Repaid(e)'
<1>0. e \in Refunders /\ AInv
  BY IntentsFinite DEF RInv
<1>1. at'[e] = at[e] /\ plan'[e] = plan[e] /\ togo'[e] = togo[e]
  BY <1>0 DEF RefundStep, ReadRows, SendSlice, RecordSlice, FinishRefund, Replay, FreezePlan, BeginRefund,
     Owe, FailSend, Goto, work, AInv, Amounts, WorkShapes, BInv, Shapes, PlaceShapes
<1>2. debt'[e] = debt[e]
  BY <1>0, RefundDebts DEF AInv, BInv, Forms
<1>3. edit'[e] = edit[e] /\ crashed' = crashed
  BY DEF RefundStep, ReadRows, SendSlice, RecordSlice, FinishRefund, Replay, FreezePlan, booking, past
<1>4. /\ e \in unheard' <=> e \in unheard
      /\ e \in reminted' <=> e \in reminted
      /\ e \in short' <=> e \in short
      /\ e \in repeated' <=> e \in repeated
  BY DEF RefundStep, ReadRows, SendSlice, RecordSlice, FinishRefund, Replay, FreezePlan, past
<1>5. \A r : r.by = "edit" /\ r.from = e => (r \in sent' <=> r \in sent)
  BY KeyIs DEF RefundStep, ReadRows, SendSlice, RecordSlice, FinishRefund, Replay, FreezePlan, refunds
<1> QED BY <1>1, <1>2, <1>3, <1>4, <1>5, SameRepaid DEF SameRefund

(* What an operation becomes when a refund fails. *)
LEMMA OwedAs ==
  ASSUME AInv, NEW e \in Refunders, NEW c \in Int, c > 0, Owe(e, c)
  PROVE  /\ at'[e] = "done"
         /\ debt[e].op = "none" => debt'[e].op = "due" /\ debt'[e].cents = c
         /\ debt[e].op # "none" => debt'[e] = debt[e]
BY DEF Owe, Goto, AInv, Amounts, DebtShapes, BInv, Shapes, PlaceShapes

LEMMA ReadRepaid ==
  ASSUME RInv, [Next]_vars, NEW e \in Edits, ReadRows(e)
  PROVE  Repaid(e)'
<1>0. /\ e \in Refunders /\ e # 0 /\ Amounts /\ Known(e) /\ Traced(e) /\ Repaid(e)
      /\ edit[e].due \in Nat /\ AInv
  BY RefundersKnow DEF RInv
<1>1. at[e] = "read" /\ edit[e].kind = "card"
  BY <1>0 DEF ReadRows, Traced
<1>2. UNCHANGED <<edit, sent, crashed, unheard, reminted, short, repeated>> /\ SentFor(e)' = SentFor(e)
  BY DEF ReadRows, booking, refunds, SentFor
<1>3. CASE debt[e].op = "frozen" /\ BeginRefund(e, plan[e]) /\ UNCHANGED debt
  <2>1. plan'[e] = plan[e] /\ togo'[e] = Planned(plan[e]) /\ at'[e] = "send"
    BY <1>0, <1>3 DEF BeginRefund, Goto, Amounts, WorkShapes, AInv, BInv, Shapes, PlaceShapes
  <2>2. Asked(e)' = Asked(e) /\ Planned(plan'[e]) = Planned(plan[e])
    BY <2>1, SameKeys
  <2>3. Recorded(e)' = {}
    BY <2>1, <2>2 DEF Recorded
  <2>4. Following(e)
    BY <1>0, <1>1, <1>3 DEF Repaid
  <2>5. Following(e)'
    BY <1>2, <2>1, <2>2, <2>3, <2>4 DEF Following
  <2> QED BY <1>1, <1>2, <1>3, <2>5 DEF Repaid
<1>4. CASE debt[e].op = "none"
  <2>1. Direct(e)
    BY <1>0, <1>1, <1>4 DEF Repaid
  <2>2. Planned(plan[e]) = {} /\ Asked(e) = {} /\ Recorded(e) = {} /\ SentFor(e) = {}
    BY <1>1, <2>1 DEF Direct, Asked, Recorded
  <2>3. CASE edit[e].due <= Refundable /\ BeginRefund(e, Allocation(edit[e].due)) /\ UNCHANGED debt
    <3> DEFINE p == Allocation(edit[e].due)
    <3>1. plan'[e] = p /\ togo'[e] = Planned(p) /\ at'[e] = "send"
      BY <1>0, <2>3 DEF BeginRefund, Goto, Amounts, WorkShapes, AInv, BInv, Shapes, PlaceShapes
    <3>2. Sum(p, Intents) = edit[e].due
      BY <1>0, <2>3, AllocatedCents
    <3> HIDE DEF p
    <3>3. Cents(Asked(e)') = edit[e].due
      <4>1. Asked(e)' = KeysOf(e, plan'[e], Planned(plan'[e]) \ {})
        BY DEF Asked, Key, KeysOf, KeyOf
      <4>2. plan'[e] \in [Intents -> Nat]
        BY <1>0, StepAmounts DEF Amounts, WorkShapes
      <4>3. Cents(KeysOf(e, plan'[e], Planned(plan'[e]) \ {})) = Sum(plan'[e], Intents \ {})
        BY <1>0, <4>2, PlannedCents
      <4>4. Intents \ {} = Intents
        OBVIOUS
      <4> QED BY <3>1, <3>2, <4>1, <4>3, <4>4
    <3>4. Recorded(e)' = {}
      BY <3>1 DEF Recorded
    <3>5. Direct(e)'
      BY <1>0, <1>2, <2>2, <3>1, <3>3, <3>4 DEF Direct
    <3> QED BY <1>1, <1>2, <1>4, <2>3, <3>5 DEF Repaid
  <2>4. CASE edit[e].due > Refundable /\ Owe(e, edit[e].due) /\ UNCHANGED work
    <3>1. Refundable \in Nat
      BY <1>0, MoneyTyped, RefundableNat
    <3>2. at'[e] = "done" /\ debt'[e].op = "due" /\ debt'[e].cents = edit[e].due /\ edit[e].due > 0
      BY <1>0, <1>4, <2>4, <3>1, OwedAs
    <3>3. Asked(e)' = Asked(e) /\ Recorded(e)' = Recorded(e)
      BY <2>4, SameKeys DEF work
    <3>4. Owing(e)'
      BY <1>0, <1>2, <2>2, <3>2, <3>3, CentsEmpty DEF Owing
    <3> QED BY <1>1, <1>2, <3>2, <3>4 DEF Repaid
  <2> QED BY <1>4, <2>3, <2>4 DEF ReadRows
<1> QED BY <1>3, <1>4 DEF ReadRows

(* The slice that is sent is of the plan, and not recorded yet. *)
LEMMA NextSlice ==
  ASSUME RInv, NEW e \in Edits, NEW x \in Intents, IsNext(e, x), togo[e] \subseteq Planned(plan[e])
  PROVE  /\ Key(e, x) \in Asked(e) /\ Key(e, x) \notin Recorded(e)
         /\ Cents(Recorded(e)) < Cents(Asked(e))
         /\ plan[e][x] \in Nat /\ plan[e][x] > 0
<1>0. e \in Refunders /\ Amounts
  BY RefundersKnow
<1>1. x \in togo[e] /\ x \in Planned(plan[e])
  BY DEF IsNext
<1>2. plan[e][x] \in Nat /\ plan[e][x] > 0
  BY <1>0, <1>1 DEF Planned, Amounts, WorkShapes
<1> DEFINE k == Key(e, x)
           R == Recorded(e)
<1>3. k \in Asked(e) /\ k \notin R /\ k.cents = plan[e][x]
  BY <1>1, KeyIs DEF Asked, Recorded
<1>4. /\ IsFiniteSet(Asked(e)) /\ Asked(e) \subseteq Refunds /\ R \subseteq Asked(e)
      /\ IsFiniteSet(R) /\ Cents(R) \in Nat /\ Cents(Asked(e)) \in Nat
  BY <1>0, PlanCents
<1> HIDE DEF k, R
<1>5. \A q \in Asked(e) : q.cents \in Nat
  BY <1>4 DEF Refunds
<1>6. Cents(R \union {k}) = Cents(R) + k.cents
  BY <1>3, <1>4, <1>5, CentsAdd
<1>7. Cents(R \union {k}) <= Cents(Asked(e))
  BY <1>3, <1>4, <1>5, CentsPart
<1> QED BY <1>2, <1>3, <1>4, <1>6, <1>7 DEF k, R

LEMMA SendRepaid ==
  ASSUME RInv, [Next]_vars, NEW e \in Edits, NEW x \in Intents, SendSlice(e, x)
  PROVE  Repaid(e)'
<1> DEFINE k == Key(e, x)
<1>0. /\ e \in Refunders /\ e # 0 /\ Amounts /\ Known(e) /\ Traced(e) /\ Repaid(e)
      /\ edit[e].due \in Nat /\ AInv /\ debt[e].op \in {"none", "due", "frozen", "done"}
  BY RefundersKnow DEF RInv
<1>1. at[e] = "send" /\ edit[e].kind = "card" /\ IsNext(e, x) /\ debt[e].op \in {"none", "frozen"}
  <2>1. at[e] = "send" /\ IsNext(e, x)
    BY DEF SendSlice
  <2>2. edit[e].kind = "card"
    BY <1>0, <2>1 DEF Traced
  <2> QED BY <1>0, <2>1, <2>2 DEF Repaid, Owing, Closed
<1>2. UNCHANGED <<edit, work, crashed, reminted, short, repeated>>
  BY DEF SendSlice, booking
<1>3. /\ Asked(e)' = Asked(e) /\ Recorded(e)' = Recorded(e) /\ togo'[e] = togo[e]
      /\ Planned(plan'[e]) = Planned(plan[e]) /\ \A y : IsNext(e, y)' <=> IsNext(e, y)
  BY <1>0, <1>2, SameKeys, SameNext DEF work
<1>4. /\ sent' = sent \/ sent' = sent \union {k}
      /\ SentFor(e) \subseteq SentFor(e)' /\ SentFor(e)' \subseteq SentFor(e) \union {k}
      /\ k \in sent' => k \in SentFor(e)'
      /\ SentFor(e)' \subseteq sent'
  BY KeyIs DEF SendSlice, SentFor
<1>5. \/ sent' = sent \union {k} /\ at'[e] = "record" /\ UNCHANGED debt
      \/ FailSend(e)
  BY <1>0 DEF SendSlice, Goto, AInv, BInv, Shapes, PlaceShapes
<1>6. FailSend(e) => at'[e] = "done"
  BY <1>0 DEF FailSend, Owe, Goto, AInv, BInv, Shapes, PlaceShapes
<1>7. e \in unheard' <=> e \in unheard \/ (k \in sent' /\ at'[e] = "done")
  BY DEF SendSlice
<1>8. CASE debt[e].op = "none"
  <2>1. Direct(e)
    BY <1>0, <1>1, <1>8 DEF Repaid
  <2>2. /\ togo[e] \subseteq Planned(plan[e]) /\ Cents(Asked(e)) = edit[e].due
        /\ SentFor(e) = Recorded(e) /\ SentFor(e) \subseteq Asked(e)
    BY <1>1, <2>1 DEF Direct
  <2>3. /\ k \in Asked(e) /\ k \notin Recorded(e) /\ Cents(Recorded(e)) < Cents(Asked(e))
    BY <1>1, <2>2, NextSlice
  <2>4. SentFor(e)' \subseteq Asked(e)
    BY <1>4, <2>2, <2>3
  <2>5. CASE sent' = sent \union {k} /\ at'[e] = "record" /\ UNCHANGED debt
    <3>1. \A r \in SentFor(e)' \ Recorded(e) : IsNext(e, r.of)
      BY <1>1, <1>4, <2>2, KeyIs
    <3>2. Direct(e)'
      BY <1>0, <1>2, <1>3, <1>4, <2>2, <2>4, <2>5, <3>1 DEF Direct
    <3> QED BY <1>1, <1>2, <1>8, <2>5, <3>2 DEF Repaid
  <2>6. CASE FailSend(e)
    <3>1. Remainder(e) = edit[e].due - Cents(Recorded(e)) /\ Cents(Recorded(e)) \in Nat
      BY <1>0, PlanCents DEF Remainder
    <3>2. Remainder(e) \in Int /\ Remainder(e) > 0
      BY <1>0, <2>2, <2>3, <3>1
    <3>3. at'[e] = "done" /\ debt'[e].op = "due" /\ debt'[e].cents = Remainder(e)
      BY <1>0, <1>8, <2>6, <3>2, OwedAs DEF FailSend
    <3>4. e \notin unheard' => SentFor(e)' = Recorded(e)
      BY <1>4, <1>7, <2>2, <3>3
    <3>5. debt'[e].cents + Cents(Recorded(e)) = edit[e].due
      BY <1>0, <3>1, <3>3
    <3>6. Owing(e)'
      BY <1>0, <1>2, <1>3, <1>4, <2>2, <2>4, <3>2, <3>3, <3>4, <3>5 DEF Owing
    <3> QED BY <1>1, <1>2, <3>3, <3>6 DEF Repaid
  <2> QED BY <1>5, <2>5, <2>6
<1>9. CASE debt[e].op = "frozen"
  <2>1. Following(e)
    BY <1>0, <1>1, <1>9 DEF Repaid
  <2>2. togo[e] \subseteq Planned(plan[e]) /\ Recorded(e) \subseteq SentFor(e)
    BY <1>1, <2>1 DEF Following
  <2>3. k \in Asked(e)
    BY <1>1, <2>2, NextSlice
  <2>4. SentFor(e)' \union Asked(e) = SentFor(e) \union Asked(e)
    BY <1>4, <2>3
  <2>5. debt'[e] = debt[e]
    <3>1. debt' = debt \/ Owe(e, Remainder(e))
      BY DEF SendSlice, FailSend
    <3> QED BY <1>0, <1>9, <3>1, OweEffect DEF AInv, BInv, Forms
  <2>6. Following(e)'
    BY <1>2, <1>3, <1>4, <2>1, <2>2, <2>4 DEF Following
  <2> QED BY <1>1, <1>2, <1>9, <2>5, <2>6 DEF Repaid
<1> QED BY <1>1, <1>8, <1>9

LEMMA RecordRepaid ==
  ASSUME RInv, [Next]_vars, NEW e \in Edits, NEW x \in Intents, RecordSlice(e, x)
  PROVE  Repaid(e)'
<1> DEFINE k == Key(e, x)
<1>0. /\ e \in Refunders /\ e # 0 /\ Amounts /\ Known(e) /\ Traced(e) /\ Repaid(e)
      /\ edit[e].due \in Nat /\ AInv /\ debt[e].op \in {"none", "due", "frozen", "done"}
  BY RefundersKnow DEF RInv
<1>1. at[e] = "record" /\ edit[e].kind = "card" /\ IsNext(e, x) /\ debt[e].op \in {"none", "frozen"}
  <2>1. at[e] = "record" /\ IsNext(e, x)
    BY DEF RecordSlice
  <2>2. edit[e].kind = "card"
    BY <1>0, <2>1 DEF Traced
  <2> QED BY <1>0, <2>1, <2>2 DEF Repaid, Owing, Closed
<1>2. UNCHANGED <<edit, sent, plan, crashed, reminted, short, repeated>>
  BY DEF RecordSlice, booking
<1>3. Asked(e)' = Asked(e) /\ Planned(plan'[e]) = Planned(plan[e]) /\ SentFor(e)' = SentFor(e)
  BY <1>2, SameKeys, SameSent
<1>4. k \in SentFor(e)
  BY <1>0, <1>1, KeyIs DEF Known, SentFor
<1>5. CASE Record(Key(e, x), seen[e][x]) /\ togo' = [togo EXCEPT ![e] = @ \ {x}]
           /\ Goto(e, "send") /\ UNCHANGED <<debt, unheard, faults>>
  <2>1. togo'[e] = togo[e] \ {x} /\ at'[e] = "send" /\ debt'[e] = debt[e]
    BY <1>0, <1>5 DEF Goto, Amounts, WorkShapes, AInv, BInv, Shapes, PlaceShapes
  <2>2. x \in togo[e]
    BY <1>1 DEF IsNext
  <2>3. togo[e] \subseteq Planned(plan[e]) => Recorded(e)' = Recorded(e) \union {k}
    BY <1>2, <1>3, <2>1, <2>2 DEF Recorded, Key
  <2>4. CASE debt[e].op = "none"
    <3>1. Direct(e)
      BY <1>0, <1>1, <2>4 DEF Repaid
    <3>2. /\ togo[e] \subseteq Planned(plan[e]) /\ Cents(Asked(e)) = edit[e].due
          /\ Recorded(e) \subseteq SentFor(e) /\ SentFor(e) \subseteq Asked(e)
          /\ \A r \in SentFor(e) \ Recorded(e) : IsNext(e, r.of)
      BY <1>1, <3>1 DEF Direct
    <3>3. ASSUME NEW r \in SentFor(e) \ Recorded(e)
          PROVE  r = k
      <4>1. r.of = x
        BY <1>0, <1>1, <3>2, OneNext
      <4>2. PICK y \in Planned(plan[e]) : r = Key(e, y)
        BY <3>2 DEF Asked
      <4> QED BY <4>1, <4>2, KeyIs
    <3>4. SentFor(e) = Recorded(e)'
      BY <1>4, <2>3, <3>2, <3>3
    <3>5. togo'[e] \subseteq Planned(plan[e])
      BY <2>1, <3>2
    <3>6. Direct(e)'
      BY <1>0, <1>2, <1>3, <2>1, <3>2, <3>4, <3>5 DEF Direct
    <3> QED BY <1>1, <1>2, <2>1, <2>4, <3>6 DEF Repaid
  <2>5. CASE debt[e].op = "frozen"
    <3>1. Following(e)
      BY <1>0, <1>1, <2>5 DEF Repaid
    <3>2. togo[e] \subseteq Planned(plan[e]) /\ Recorded(e) \subseteq SentFor(e)
      BY <1>1, <3>1 DEF Following
    <3>3. Recorded(e)' \subseteq SentFor(e) /\ togo'[e] \subseteq Planned(plan[e])
      BY <1>4, <2>1, <2>3, <3>2
    <3>4. Following(e)'
      BY <1>2, <1>3, <3>1, <3>3 DEF Following
    <3> QED BY <1>1, <1>2, <2>1, <2>5, <3>4 DEF Repaid
  <2> QED BY <1>1, <2>4, <2>5
<1>6. CASE Owe(e, edit[e].due) /\ unheard' = unheard \union {e} /\ UNCHANGED <<row, ledger, togo>>
  <2>1. at'[e] = "done" /\ e \in unheard' /\ Recorded(e)' = Recorded(e)
    BY <1>0, <1>2, <1>6, SameKeys DEF Owe, Goto, AInv, BInv, Shapes, PlaceShapes
  <2>2. CASE debt[e].op = "none"
    <3>1. Direct(e)
      BY <1>0, <1>1, <2>2 DEF Repaid
    <3>2. /\ togo[e] \subseteq Planned(plan[e]) /\ Cents(Asked(e)) = edit[e].due
          /\ Recorded(e) \subseteq SentFor(e) /\ SentFor(e) \subseteq Asked(e)
      BY <1>1, <3>1 DEF Direct
    <3>3. Cents(Recorded(e)) < Cents(Asked(e)) /\ Cents(Recorded(e)) \in Nat
      BY <1>0, <1>1, <3>2, NextSlice, PlanCents
    <3>4. edit[e].due > 0 /\ edit[e].due \in Int
      BY <1>0, <3>2, <3>3
    <3>5. debt'[e].op = "due" /\ debt'[e].cents = edit[e].due
      BY <1>0, <1>6, <2>2, <3>4, OwedAs
    <3>6. debt'[e].cents + Cents(Recorded(e)) >= edit[e].due
      BY <1>0, <3>3, <3>5
    <3>7. Owing(e)'
      BY <1>2, <1>3, <2>1, <3>2, <3>4, <3>5, <3>6 DEF Owing
    <3> QED BY <1>1, <1>2, <3>5, <3>7 DEF Repaid
  <2>3. CASE debt[e].op = "frozen"
    <3>1. Following(e)
      BY <1>0, <1>1, <2>3 DEF Repaid
    <3>2. debt'[e] = debt[e]
      BY <1>0, <1>6, <2>3, OweEffect DEF AInv, BInv, Forms
    <3>3. Following(e)'
      BY <1>2, <1>3, <2>1, <3>1 DEF Following
    <3> QED BY <1>1, <1>2, <2>3, <3>2, <3>3 DEF Repaid
  <2> QED BY <1>1, <2>2, <2>3
<1> QED BY <1>5, <1>6 DEF RecordSlice

LEMMA FinishRepaid ==
  ASSUME RInv, [Next]_vars, NEW e \in Edits, FinishRefund(e)
  PROVE  Repaid(e)'
<1>0. /\ e \in Refunders /\ Traced(e) /\ Repaid(e) /\ AInv
      /\ debt[e].op \in {"none", "due", "frozen", "done"}
  BY RefundersKnow DEF RInv
<1>1. at[e] = "send" /\ edit[e].kind = "card" /\ togo[e] = {}
  BY <1>0 DEF FinishRefund, Traced
<1>2. at'[e] = "done" /\ UNCHANGED <<edit, sent, plan, togo, crashed, unheard, reminted, short, repeated>>
  BY <1>0 DEF FinishRefund, Goto, booking, refunds, work, past, AInv, BInv, Shapes, PlaceShapes
<1>3. Asked(e)' = Asked(e) /\ SentFor(e)' = SentFor(e) /\ Recorded(e) = Asked(e)
  BY <1>1, <1>2, SameKeys, SameSent DEF Recorded, Asked
<1>4. CASE debt[e].op = "none"
  <2>1. Direct(e) /\ debt'[e] = debt[e]
    BY <1>0, <1>1, <1>4 DEF Repaid, FinishRefund
  <2>2. Direct(e)'
    BY <1>1, <1>2, <1>3, <2>1 DEF Direct
  <2> QED BY <1>1, <1>2, <1>4, <2>1, <2>2 DEF Repaid
<1>5. CASE debt[e].op = "frozen"
  <2>1. Following(e) /\ debt'[e].op = "done"
    BY <1>0, <1>1, <1>5 DEF Repaid, FinishRefund, AInv, Amounts, DebtShapes
  <2>2. SentFor(e) \union Asked(e) = SentFor(e)
    BY <1>1, <1>3, <2>1 DEF Following
  <2>3. Closed(e)'
    BY <1>2, <1>3, <2>1, <2>2 DEF Following, Closed
  <2> QED BY <1>1, <1>2, <2>1, <2>3 DEF Repaid
<1> QED BY <1>0, <1>1, <1>4, <1>5 DEF Repaid, Owing, Closed

LEMMA ReplayRepaid ==
  ASSUME RInv, [Next]_vars, NEW e \in Edits, Replay(e)
  PROVE  Repaid(e)'
<1>0. e \in Refunders /\ Traced(e) /\ Repaid(e) /\ AInv /\ edit[e].kind = "card"
  BY RefundersKnow DEF Replay, Traced, RInv
<1>1. /\ at'[e] = "read" /\ debt[e].op = "frozen"
      /\ UNCHANGED <<edit, sent, debt, plan, togo, crashed, unheard, reminted, short, repeated>>
  BY <1>0 DEF Replay, Goto, booking, refunds, work, past, AInv, BInv, Shapes, PlaceShapes
<1>2. Asked(e)' = Asked(e) /\ SentFor(e)' = SentFor(e)
  BY <1>1, SameKeys, SameSent
<1>3. Following(e)'
  BY <1>0, <1>1, <1>2 DEF Repaid, Following
<1> QED BY <1>0, <1>1, <1>3 DEF Repaid

(* What a run asks for, when it divides what is owed. *)
FrozenCents(e) == Lesser(debt[e].cents, Refundable)
FrozenKeys(e) == KeysOf(e, Allocation(FrozenCents(e)), Planned(Allocation(FrozenCents(e))))

LEMMA FrozenAsks ==
  ASSUME RInv, NEW e \in Edits
  PROVE  /\ FrozenCents(e) \in Nat /\ FrozenCents(e) <= debt[e].cents
         /\ Cents(FrozenKeys(e)) = FrozenCents(e)
         /\ IsFiniteSet(FrozenKeys(e)) /\ FrozenKeys(e) \subseteq Refunds
<1> DEFINE c == FrozenCents(e)
           p == Allocation(c)
<1>0. e \in Refunders /\ Amounts /\ AInv /\ debt[e].cents \in Nat
  BY RefundersKnow DEF RInv
<1>1. c \in Nat /\ c <= debt[e].cents /\ c <= Refundable
  BY <1>0, MoneyTyped, RefundableNat DEF FrozenCents, Lesser
<1> HIDE DEF c
<1>2. p \in [Intents -> Nat] /\ Sum(p, Intents) = c
  BY <1>0, <1>1, AllocatedCents, AllocationType, MoneyTyped
<1>3. FrozenKeys(e) = KeysOf(e, p, Planned(p)) /\ Planned(p) \ {} = Planned(p)
  BY DEF FrozenKeys, c
<1>4. Planned(p) \subseteq Intents /\ Intents \ {} = Intents
  BY DEF Planned
<1> HIDE DEF p
<1>5. Cents(KeysOf(e, p, Planned(p) \ {})) = Sum(p, Intents \ {})
  BY <1>0, <1>2, PlannedCents
<1>6. IsFiniteSet(KeysOf(e, p, Planned(p))) /\ KeysOf(e, p, Planned(p)) \subseteq Refunds
  BY <1>0, <1>2, <1>4, KeysCents
<1> QED BY <1>1, <1>2, <1>3, <1>4, <1>5, <1>6 DEF c

LEMMA FreezeEffect ==
  ASSUME RInv, NEW e \in Edits, FreezePlan(e)
  PROVE  /\ UNCHANGED <<edit, sent, togo, crashed, unheard>>
         /\ at[e] = "done" /\ debt[e].op = "due" /\ e \in Refunders
         /\ \/ FrozenCents(e) = 0 /\ debt'[e].op = "done" /\ UNCHANGED <<at, plan>>
            \/ /\ debt'[e].op = "frozen" /\ at'[e] = "read"
               /\ plan'[e] = Allocation(FrozenCents(e)) /\ Asked(e)' = FrozenKeys(e)
         /\ e \notin reminted' => e \notin reminted /\
              (e \in unheard => ~(Cents(SentFor(e) \union FrozenKeys(e)) > edit[e].due))
         /\ e \notin short' => ~(FrozenCents(e) < debt[e].cents)
         /\ e \notin repeated' => FrozenKeys(e) \cap Recorded(e) = {}
<1> DEFINE c == FrozenCents(e)
           p == Allocation(c)
           K == {[by |-> "edit", from |-> e, of |-> x, cents |-> p[x]] : x \in Planned(p)}
<1>0. e \in Refunders /\ Amounts /\ AInv
  BY RefundersKnow DEF RInv
<1>1. K = FrozenKeys(e) /\ c = Lesser(debt[e].cents, Refundable)
  BY DEF FrozenKeys, KeysOf, KeyOf, FrozenCents
<1>2. /\ UNCHANGED <<edit, sent, togo, crashed, unheard>>
      /\ at[e] = "done" /\ debt[e].op = "due"
      /\ \/ /\ c = 0 /\ debt' = [debt EXCEPT ![e].op = "done"] /\ UNCHANGED <<at, plan>>
         \/ /\ debt' = [debt EXCEPT ![e].op = "frozen"]
            /\ plan' = [plan EXCEPT ![e] = p] /\ Goto(e, "read")
      /\ reminted' = IF e \in unheard /\ Cents(SentFor(e) \union K) > edit[e].due
                     THEN reminted \union {e} ELSE reminted
      /\ short' = IF c < debt[e].cents THEN short \union {e} ELSE short
      /\ repeated' = IF K \cap Recorded(e) # {} THEN repeated \union {e} ELSE repeated
  BY DEF FreezePlan, booking, refunds, FrozenCents
<1> HIDE DEF c, K
<1>3. plan'[e] = p => Asked(e)' = FrozenKeys(e)
  BY DEF Asked, Key, FrozenKeys, KeysOf, KeyOf, c
<1> HIDE DEF p
<1>4. \/ c = 0 /\ debt'[e].op = "done" /\ UNCHANGED <<at, plan>>
      \/ debt'[e].op = "frozen" /\ at'[e] = "read" /\ plan'[e] = p
  BY <1>0, <1>2 DEF Goto, Amounts, DebtShapes, Debts, WorkShapes, AInv, BInv, Shapes, PlaceShapes
<1> QED BY <1>0, <1>1, <1>2, <1>3, <1>4 DEF c, p

LEMMA FreezeRepaid ==
  ASSUME RInv, [Next]_vars, NEW e \in Edits, FreezePlan(e)
  PROVE  Repaid(e)'
<1> DEFINE F == FrozenKeys(e)
           S == SentFor(e)
           R == Recorded(e)
           A == Asked(e)
           due == edit[e].due
<1>0. /\ e \in Refunders /\ Amounts /\ Known(e) /\ Traced(e) /\ Repaid(e)
      /\ due \in Nat /\ debt[e].cents \in Nat
  BY RefundersKnow
<1>1. edit[e].kind = "card" /\ debt[e].op = "due"
  BY <1>0, FreezeEffect DEF Traced
<1>2. Owing(e)
  BY <1>0, <1>1 DEF Repaid
<1>3. /\ at[e] = "done" /\ S \subseteq A /\ Cents(A) <= due /\ R \subseteq S
      /\ debt[e].cents + Cents(R) >= due /\ debt[e].cents > 0
      /\ e \notin unheard => S = R /\ debt[e].cents + Cents(R) = due
  BY <1>2 DEF Owing
<1>4. /\ IsFiniteSet(F) /\ F \subseteq Refunds /\ IsFiniteSet(S) /\ S \subseteq Refunds
      /\ IsFiniteSet(R) /\ R \subseteq Refunds /\ IsFiniteSet(A) /\ A \subseteq Refunds
  BY <1>0, FrozenAsks, SentForCents, PlanCents
<1>5. FrozenCents(e) \in Nat /\ FrozenCents(e) <= debt[e].cents /\ Cents(F) = FrozenCents(e)
  BY FrozenAsks
<1>6. \A q \in Refunds : q.cents \in Nat
  BY DEF Refunds
<1>7. SentFor(e)' = S
  BY FreezeEffect, SameSent
<1>8. UNCHANGED <<edit, sent, crashed, unheard>>
  BY FreezeEffect
<1>9. e \notin reminted' => (e \in unheard => ~(Cents(S \union F) > due))
  BY FreezeEffect
<1>10. /\ e \notin short' => ~(FrozenCents(e) < debt[e].cents)
       /\ e \notin repeated' => F \cap R = {}
  BY FreezeEffect
<1>11. Cents(S) <= Cents(A) /\ Cents(S) \in Nat /\ Cents(A) \in Nat
  <2> HIDE DEF S, A
  <2> QED BY <1>3, <1>4, <1>6, CentsPart
<1>12. CASE FrozenCents(e) = 0 /\ debt'[e].op = "done" /\ UNCHANGED <<at, plan>>
  <2>1. e \in short'
    BY <1>0, <1>3, <1>10, <1>12
  <2>2. Cents(S) <= due
    BY <1>0, <1>3, <1>11
  <2>3. Closed(e)'
    BY <1>3, <1>7, <1>8, <1>12, <2>1, <2>2 DEF Closed
  <2> QED BY <1>1, <1>8, <1>12, <2>3 DEF Repaid
<1>13. CASE debt'[e].op = "frozen" /\ at'[e] = "read" /\ Asked(e)' = F
  <2>1. /\ Cents(S \union F) \in Nat /\ Cents(R \union F) \in Nat
        /\ Cents(R \union F) <= Cents(S \union F) /\ Cents(R) \in Nat /\ Cents(F) \in Nat
    <3> HIDE DEF S, F, R
    <3>1. IsFiniteSet(S \union F) /\ R \union F \in SUBSET (S \union F)
          /\ R \in SUBSET (S \union F) /\ F \in SUBSET (S \union F)
          /\ \A q \in S \union F : q.cents \in Nat
      BY <1>3, <1>4, <1>6, FS_Union
    <3> QED BY <3>1, CentsPart
  <2>2. /\ Cents(R \union F) <= Cents(R) + Cents(F)
        /\ R \cap F = {} => Cents(R \union F) = Cents(R) + Cents(F)
    <3> HIDE DEF F, R
    <3> QED BY <1>4, <1>6, CentsUnion
  <2>3. e \notin reminted' => Cents(S \union F) <= due
    <3>1. CASE e \in unheard
      BY <1>0, <1>9, <2>1, <3>1
    <3>2. CASE e \notin unheard
      <4>1. Cents(S \union F) <= Cents(R) + Cents(F) /\ debt[e].cents + Cents(R) = due
        BY <1>3, <2>2, <3>2
      <4> HIDE DEF S, F, R, due
      <4> QED BY <1>0, <1>5, <2>1, <4>1
    <3> QED BY <3>1, <3>2
  <2>4. ASSUME e \notin short' \union repeated'
        PROVE  Cents(S \union F) >= due
    <3>1. FrozenCents(e) = debt[e].cents /\ R \cap F = {}
      BY <1>0, <1>5, <1>10, <2>4
    <3>2. Cents(R \union F) = Cents(R) + debt[e].cents
      BY <1>5, <2>2, <3>1
    <3> HIDE DEF S, F, R, due
    <3> QED BY <1>0, <1>3, <2>1, <3>2
  <2>5. Following(e)'
    BY <1>7, <1>8, <1>13, <2>3, <2>4 DEF Following
  <2> QED BY <1>1, <1>8, <1>13, <2>5 DEF Repaid
<1> QED BY <1>12, <1>13, FreezeEffect

LEMMA CommitRepaid ==
  ASSUME RInv, [Next]_vars, NEW f \in Edits, NEW cents, NEW s,
         \/ CommitIncrease(f, cents)
         \/ cents \in Downs /\ s \in Shares
            /\ (CommitCardReduction(f, cents, s) \/ CommitCreditReduction(f, cents, s)),
         NEW e \in Edits
  PROVE  Repaid(e)'
<1>0. /\ e \in Refunders /\ f \in Refunders /\ Amounts /\ Traced(f) /\ Repaid(f) /\ AInv
      /\ at \in [Refunders -> {"done", "mint", "supersede", "register", "read", "send",
                               "record", "teardown"}]
      /\ edit \in [Refunders -> Bills]
  BY RefundersKnow DEF RInv, AInv, BInv, Shapes, PlaceShapes, Amounts, Priced, BookingShapes
<1>1. /\ edit[f] = NoEdit
      /\ UNCHANGED <<sent, debt, plan, togo, crashed, unheard, reminted, short, repeated>>
      /\ \A g \in Refunders \ {f} : at'[g] = at[g] /\ edit'[g] = edit[g]
  BY <1>0 DEF CommitIncrease, CommitCardReduction, CommitCreditReduction, Commit, Goto, work
<1>2. CASE e # f
  BY <1>0, <1>1, <1>2, SameRepaid DEF SameRefund
<1>3. CASE e = f
  <2>1. edit[e].kind = "none"
    BY <1>1, <1>3 DEF NoEdit
  <2>2. SentFor(e) = {} /\ Planned(plan[e]) = {} /\ debt[e].op = "none"
    BY <1>0, <1>3, <2>1, RefundersKnow DEF Repaid, Traced
  <2>3. SentFor(e)' = {} /\ Planned(plan'[e]) = {} /\ Asked(e)' = {} /\ debt'[e].op = "none"
    BY <1>1, <2>2, SameSent, SameKeys DEF Asked
  <2>4. CASE CommitIncrease(f, cents) \/ CommitCreditReduction(f, cents, s)
    <3>1. edit'[e].kind \in {"up", "credit"}
      BY <1>0, <1>3, <2>4 DEF CommitIncrease, CommitCreditReduction
    <3> QED BY <2>3, <3>1 DEF Repaid
  <2>5. CASE cents \in Downs /\ s \in Shares /\ CommitCardReduction(f, cents, s)
    <3>1. /\ edit'[e].kind = "card" /\ edit'[e].due = Due(cents, s)
          /\ at'[e] = IF Due(cents, s) > 0 THEN "read" ELSE "done"
      BY <1>0, <1>3, <2>5 DEF CommitCardReduction, Commit, Goto
    <3>2. Due(cents, s) \in Nat
      BY <1>0, <2>5, EditAssumption, DueBound
    <3>3. at'[e] = "read" \/ (at'[e] = "done" /\ edit'[e].due = 0)
      BY <3>1, <3>2
    <3>4. Direct(e)'
      BY <2>3, <3>1, <3>2, <3>3, CentsEmpty DEF Direct
    <3> QED BY <2>3, <3>1, <3>4 DEF Repaid
  <2> QED BY <2>4, <2>5
<1> QED BY <1>2, <1>3

LEMMA BillRepaid ==
  ASSUME RInv, [Next]_vars, NEW f \in Edits,
         MintIntent(f) \/ Supersede(f) \/ Register(f) \/ ResumeIntent(f),
         NEW e \in Edits
  PROVE  Repaid(e)'
<1>0. e \in Refunders /\ f \in Refunders /\ Traced(f) /\ AInv
  BY RefundersKnow DEF RInv
<1>1. /\ UNCHANGED <<edit, sent, debt, plan, togo, unheard, reminted, short, repeated>>
      /\ crashed \subseteq crashed'
      /\ \A g \in Refunders \ {f} : at'[g] = at[g]
  BY <1>0 DEF MintIntent, Supersede, Register, ResumeIntent, Postpone, Goto, booking, refunds, work,
     past, AInv, BInv, Shapes, PlaceShapes
<1>2. CASE e # f
  BY <1>0, <1>1, <1>2, SameRepaid DEF SameRefund
<1>3. CASE e = f
  <2>1. at[f] \in Billing \/ createOp[f].op = "due"
    BY DEF MintIntent, Supersede, Register, ResumeIntent, Billing
  <2>2. edit[e].kind = "up"
    BY <1>0, <1>3, <2>1 DEF Traced
  <2> QED BY <1>1, <2>2, UnrefundedRepaid
<1> QED BY <1>2, <1>3

LEMMA CrashRepaid ==
  ASSUME RInv, [Next]_vars, NEW a \in Refunders, Crash(a), NEW e \in Edits
  PROVE  Repaid(e)'
<1>0. /\ e \in Refunders /\ Traced(e) /\ Repaid(e) /\ AInv /\ Desk
      /\ debt[e].op \in {"none", "due", "frozen", "done"}
  BY RefundersKnow DEF RInv, AInv, BInv
<1>1. /\ UNCHANGED <<edit, sent, debt, plan, togo, unheard, reminted, short, repeated>>
      /\ crashed \subseteq crashed'
      /\ \A g \in Refunders \ {a} : at'[g] = at[g]
  BY <1>0 DEF Crash, Goto, booking, refunds, work, AInv, BInv, Shapes, PlaceShapes
<1>2. CASE e # a
  BY <1>0, <1>1, <1>2, SameRepaid DEF SameRefund
<1>3. CASE edit[e].kind # "card"
  BY <1>1, <1>3, UnrefundedRepaid
<1>4. CASE e = a /\ edit[e].kind = "card"
  <2>1. at[e] # "done" /\ at'[e] = "done"
    BY <1>0, <1>4 DEF Crash, Goto, AInv, BInv, Shapes, PlaceShapes
  <2>2. Asked(e)' = Asked(e) /\ SentFor(e)' = SentFor(e) /\ Planned(plan'[e]) = Planned(plan[e])
    BY <1>1, SameKeys, SameSent
  <2>3. CASE debt[e].op = "none"
    <3>1. Direct(e) /\ GivesUp(e)
      BY <1>0, <1>4, <2>3 DEF Repaid, Traced, GivesUp
    <3>2. e \in crashed'
      BY <1>4, <2>3, <3>1 DEF Crash
    <3>3. Direct(e)'
      BY <1>1, <2>1, <2>2, <3>1, <3>2 DEF Direct
    <3> QED BY <1>1, <1>4, <2>3, <3>3 DEF Repaid
  <2>4. CASE debt[e].op = "frozen"
    <3>1. Following(e)'
      BY <1>0, <1>1, <1>4, <2>1, <2>2, <2>4 DEF Repaid, Following
    <3> QED BY <1>1, <1>4, <2>4, <3>1 DEF Repaid
  <2> QED BY <1>0, <1>4, <2>1, <2>3, <2>4 DEF Repaid, Owing, Closed
<1> QED BY <1>2, <1>3, <1>4

LEMMA CancelRepaid ==
  ASSUME RInv, [Next]_vars, (\E way, s : Cancel(way, s)) \/ TearDown, NEW e \in Edits
  PROVE  Repaid(e)'
<1>0. e \in Refunders /\ e # 0 /\ 0 \in Refunders /\ Amounts /\ AInv
  BY RefundersKnow, IntentsFinite DEF RInv
<1>1. UNCHANGED <<edit, sent, crashed, unheard, reminted, short, repeated>>
  BY DEF Cancel, TearDown, booking, refunds, past
<1>2. at'[e] = at[e] /\ debt'[e] = debt[e] /\ plan'[e] = plan[e] /\ togo'[e] = togo[e]
  BY <1>0 DEF Cancel, TearDown, Goto, work, Amounts, DebtShapes, WorkShapes, AInv, BInv, Shapes,
     PlaceShapes
<1> QED BY <1>1, <1>2, SameRepaid DEF SameRefund

LEMMA PaymentRepaid ==
  ASSUME RInv, [Next]_vars,
         \/ \E x \in Edits : \/ Pay(x) \/ Decline(x) \/ Confirm(x) \/ ReadEvent(x) \/ MarkPaid(x)
                             \/ ReturnLate(x) \/ VoidIntent(x) \/ ReturnWithdrawn(x)
         \/ \E x \in Intents : SyncRefunds(x)
         \/ UNCHANGED vars,
         NEW e \in Edits
  PROVE  Repaid(e)'
<1>1. UNCHANGED <<edit, at, debt, plan, togo, crashed, unheard, reminted, short, repeated>>
  BY DEF Pay, Decline, Confirm, ReadEvent, MarkPaid, ReturnLate, VoidIntent, ReturnWithdrawn,
     SyncRefunds, vars, booking, work, past
<1>2. \/ sent' = sent
      \/ \E x \in Edits : sent' = sent \union {Late(x)} \/ sent' = sent \union {Back(x)}
  BY DEF Pay, Decline, Confirm, ReadEvent, MarkPaid, ReturnLate, VoidIntent, ReturnWithdrawn,
     SyncRefunds, vars, refunds
<1>3. \A x : Late(x).by # "edit" /\ Back(x).by # "edit"
  BY DEF Late, Back
<1>4. \A r : r.by = "edit" /\ r.from = e => (r \in sent' <=> r \in sent)
  BY <1>2, <1>3
<1> QED BY <1>1, <1>4, SameRepaid DEF SameRefund

LEMMA RefundRepaid ==
  ASSUME RInv, [Next]_vars, NEW a \in Refunders, RefundStep(a) \/ (a \in Edits /\ FreezePlan(a)),
         NEW e \in Edits
  PROVE  Repaid(e)'
BY ElsewhereRepaid, ReadRepaid, SendRepaid, RecordRepaid, FinishRepaid, ReplayRepaid, FreezeRepaid
   DEF RefundStep

LEMMA StepRepaid ==
  ASSUME RInv, [Next]_vars, NEW e \in Edits
  PROVE  Repaid(e)'
<1>1. Edits \subseteq Refunders
  BY IntentsFinite
<1> QED BY <1>1, CommitRepaid, BillRepaid, CrashRepaid, CancelRepaid, PaymentRepaid, RefundRepaid,
           ZenonT(60) DEF Next, RefundStep

LEMMA InitRepaid == Init => RInv
<1> SUFFICES ASSUME Init PROVE RInv
  OBVIOUS
<1>1. ASSUME NEW e \in Edits
      PROVE  Repaid(e)
  <2>1. e \in Refunders
    BY IntentsFinite
  <2>2. edit[e].kind = "none" /\ plan[e] = [x \in Intents |-> 0] /\ sent = {}
    BY <2>1 DEF Init, NoEdit
  <2>3. SentFor(e) = {} /\ Planned(plan[e]) = {}
    BY <2>2 DEF SentFor, Planned
  <2> QED BY <2>2, <2>3 DEF Repaid
<1> QED BY <1>1, InitAmounts DEF RInv

LEMMA AlwaysRepaid == Spec => []RInv
<1>1. RInv /\ [Next]_vars => RInv'
  <2> SUFFICES ASSUME RInv, [Next]_vars PROVE RInv'
    OBVIOUS
  <2>1. AInv'
    BY StepInv DEF RInv
  <2> QED BY <2>1, StepRepaid DEF RInv
<1> QED BY <1>1, InitRepaid, PTL DEF Spec

(* A reduction to the card returns what is due, and no more, for every      *)
(* number of edits, rows and failures, but for the exceptions the invariant *)
(* names: refundPaymentTransactions and the recovery's frozen allocation.   *)
THEOREM ReductionsReturned == Spec => []ReductionsAreReturned
<1>1. RInv => ReductionsAreReturned
  <2> SUFFICES ASSUME RInv, NEW e \in Edits, edit[e].kind = "card"
               PROVE  /\ e \notin reminted => Cents(SentFor(e)) <= edit[e].due
                      /\ at[e] = "done" /\ debt[e].op \in {"none", "done"}
                         /\ e \notin crashed \union short \union repeated =>
                           Cents(SentFor(e)) >= edit[e].due
    BY DEF ReductionsAreReturned
  <2>0. /\ e \in Refunders /\ Amounts /\ Repaid(e) /\ edit[e].due \in Nat
        /\ debt[e].op \in {"none", "due", "frozen", "done"}
    BY RefundersKnow
  <2>1. /\ Cents(SentFor(e)) \in Nat /\ IsFiniteSet(SentFor(e)) /\ SentFor(e) \subseteq Refunds
        /\ Cents(Asked(e)) \in Nat /\ IsFiniteSet(Asked(e)) /\ Asked(e) \subseteq Refunds
    BY <2>0, SentForCents, PlanCents
  <2>2. ASSUME NEW A, IsFiniteSet(A), A \subseteq Refunds, SentFor(e) \subseteq A
        PROVE  Cents(SentFor(e)) <= Cents(A) /\ Cents(A) \in Nat
    <3>1. \A q \in A : q.cents \in Nat
      BY <2>2 DEF Refunds
    <3> QED BY <2>2, <3>1, CentsPart
  <2>3. CASE debt[e].op = "none"
    <3>1. Direct(e)
      BY <2>0, <2>3 DEF Repaid
    <3>2. Cents(SentFor(e)) <= edit[e].due
      BY <2>0, <2>1, <2>2, <3>1 DEF Direct
    <3>3. at[e] = "done" /\ e \notin crashed => Cents(SentFor(e)) >= edit[e].due
      BY <2>0, <2>1, <3>1 DEF Direct
    <3> QED BY <3>2, <3>3
  <2>4. CASE debt[e].op = "due"
    <3>1. Owing(e)
      BY <2>0, <2>4 DEF Repaid
    <3> QED BY <2>0, <2>1, <2>2, <2>4, <3>1 DEF Owing
  <2>5. CASE debt[e].op = "frozen"
    <3>1. Following(e)
      BY <2>0, <2>5 DEF Repaid
    <3>2. IsFiniteSet(SentFor(e) \union Asked(e)) /\ SentFor(e) \union Asked(e) \subseteq Refunds
      BY <2>1, FS_Union
    <3>3. Cents(SentFor(e)) <= Cents(SentFor(e) \union Asked(e))
          /\ Cents(SentFor(e) \union Asked(e)) \in Nat
      BY <2>2, <3>2
    <3> QED BY <2>0, <2>1, <2>5, <3>1, <3>3 DEF Following
  <2>6. CASE debt[e].op = "done"
    <3>1. Closed(e)
      BY <2>0, <2>6 DEF Repaid
    <3> QED BY <3>1 DEF Closed
  <2> QED BY <2>0, <2>3, <2>4, <2>5, <2>6
<1> QED BY <1>1, AlwaysRepaid, PTL
=============================================================================
