------------------------- MODULE RefundNotesProofs -------------------------
(***************************************************************************)
(* What TLAPS proves of RefundNotes, for any number of workers, refunds,   *)
(* rows, crashes, lost answers and retries: what the database believes of  *)
(* Xero's notes is so, and no note reaches beyond the ledger.               *)
(***************************************************************************)
EXTENDS RefundNotes, SumTheorems

(* One of these notes has this name. *)
Exists(key, held) == \E n \in held : n.key = key

(* No name is used for a note Xero does not hold. *)
NamesAreReal ==
  /\ field # NoNote => Exists(field, notes)
  /\ \A o \in OpIds : ops[o].note # NoNote => Exists(ops[o].note, notes)

(* A row in use asks for cents, and for no more than was refunded. *)
RowsWithinLedger ==
  \A o \in OpIds : ops[o].status # "FREE" => ops[o].amount \in 1..refunded

Preparing == {"look", "count"}
Noted == {"pay", "record", "recordPartial"}

(* What a worker carries: an amount out of its row, then a request whose    *)
(* watermark was within the ledger when it was computed, then the note.     *)
Sound(j, cents, held) ==
  /\ j.at \in Preparing => j.amount \in 1..cents
  /\ j.seen <= cents
  /\ j.at \in Noted \union {"send"} =>
       j.key \in Keys /\ j.key[2] <= cents /\ j.amount \in 1..j.key[2]
  /\ j.at \in Noted => [key |-> j.key, amount |-> j.amount] \in held
  /\ j.at = "repair" => Exists(j.key, held)

JobsAreSound == \A w \in Workers : Sound(job[w], refunded, notes)

(* Workers and retries hold rows that are in use. *)
RowsInUse ==
  \A w \in Workers :
    /\ job[w].row # 0 => ops[job[w].row].status # "FREE"
    /\ job[w].of # 0 => ops[job[w].of].status # "FREE"

(* The inductive invariant. *)
IInv ==
  /\ Shapes /\ NamesAreReal /\ RowsWithinLedger /\ JobsAreSound /\ RowsInUse
  /\ LinksMatchNotes /\ NotesWithinLedger

----------------------------------------------------------------------------
(* Facts about the helpers.                                                 *)

(* A new row is a free one: among numbers there is a least.                 *)
LEMMA NextRowIsFree ==
  ASSUME FreeRows # {}
  PROVE  NextRow \in FreeRows
<1>1. FreeRows \subseteq Nat
  BY OpIdsAssumption DEF FreeRows
<1>2. PICK o \in FreeRows : \A p \in FreeRows : <<p, o>> \notin OpToRel(<, Nat)
  BY <1>1, NatLessThanWellFounded, WFMin, Zenon
<1>3. \A p \in FreeRows : ~(p < o)
  BY <1>1, <1>2, Zenon DEF OpToRel
<1>4. o \in Nat /\ \A p \in FreeRows : p \in Nat
  BY <1>1
<1>5. \A p \in FreeRows : o <= p
  BY <1>3, <1>4
<1> QED BY <1>5 DEF NextRow

(* Keys are names, and no note is not. *)
LEMMA KeyTypes ==
  /\ \A c \in Nat \ {0} : DeltaKey(c) \in Keys /\ LegacyKey(c) \in Keys
  /\ \A c : DeltaKey(c)[2] = c /\ LegacyKey(c)[2] = c
  /\ NoNote \notin Keys
BY DEF DeltaKey, LegacyKey, NoNote, Keys

(* What a step may do to the rows: a row stays in use, what it asks for is  *)
(* real, and a name it gets is a note's.                                    *)
RowMoves(old, new) ==
  /\ old.status # "FREE" => new.status # "FREE"
  /\ new.status # "FREE" =>
       \/ old.status # "FREE" /\ new.amount = old.amount
       \/ new.amount \in 1..refunded
  /\ new.note \in {old.note, NoNote} \/ Exists(new.note, notes')

Moves(rows) == rows \in [OpIds -> Row] /\ \A o \in OpIds : RowMoves(ops[o], rows[o])

(* Nothing is a move. *)
LEMMA StayMoves ==
  ASSUME Shapes
  PROVE  Moves(ops)
BY DEF Moves, RowMoves, Shapes

(* Closing a retry is none of the rows' business. *)
LEMMA ClosedMoves ==
  ASSUME NEW w \in Workers, NEW rows, Moves(rows)
  PROVE  Moves(Closed(w, rows))
<1> DEFINE x == job[w].of
           after == [rows EXCEPT ![x].retry = "none"]
<1>1. rows \in [OpIds -> Row]
  BY DEF Moves
<1>2. after \in [OpIds -> Row]
  BY <1>1 DEF Row
<1>3. ASSUME NEW o \in OpIds
      PROVE  /\ after[o].status = rows[o].status /\ after[o].amount = rows[o].amount
             /\ after[o].note = rows[o].note
  BY <1>1 DEF Row
<1>4. Moves(after)
  BY <1>2, <1>3 DEF Moves, RowMoves
<1> QED BY <1>4 DEF Closed

(* A row with another status, or another note, is a row. *)
LEMMA StatusTyped ==
  ASSUME NEW rows \in [OpIds -> Row], NEW x, NEW s \in Statuses
  PROVE  [rows EXCEPT ![x].status = s] \in [OpIds -> Row]
<1>1. ASSUME NEW r \in Row
      PROVE  [r EXCEPT !.status = s] \in Row
  BY DEF Row
<1> QED BY <1>1

LEMMA NoteTyped ==
  ASSUME NEW rows \in [OpIds -> Row], NEW x, NEW k \in Keys
  PROVE  [rows EXCEPT ![x].note = k] \in [OpIds -> Row]
<1>1. ASSUME NEW r \in Row
      PROVE  [r EXCEPT !.note = k] \in Row
  BY DEF Row
<1> QED BY <1>1

(* An outcome on a row in use is a move. *)
LEMMA FailedMoves ==
  ASSUME Shapes, RowsInUse, NEW w \in Workers
  PROVE  Moves(Failed(w))
<1> DEFINE x == job[w].row
           after == IF x = 0 THEN ops ELSE [ops EXCEPT ![x].status = "FAILED"]
<1>0. ops \in [OpIds -> Row]
  BY DEF Shapes
<1>1. after \in [OpIds -> Row]
  BY <1>0, StatusTyped DEF Statuses
<1>2. ASSUME NEW o \in OpIds
      PROVE  /\ after[o].status \in {ops[o].status, "FAILED"} /\ after[o].note = ops[o].note
             /\ after[o].status # ops[o].status => ops[o].status # "FREE"
             /\ after[o].amount = ops[o].amount
  BY DEF Shapes, Row, RowsInUse
<1>3. Moves(after)
  BY <1>1, <1>2 DEF Moves, RowMoves
<1> QED BY <1>3, ClosedMoves DEF Failed

LEMMA SettleMoves ==
  ASSUME Shapes, RowsInUse, NEW w \in Workers, NEW s \in {"SUCCEEDED", "PARTIAL"},
         NEW k \in Keys, Exists(k, notes'), job[w].row # 0
  PROVE  Moves(Settle(w, s, k))
<1> DEFINE x == job[w].row
           after == [ops EXCEPT ![x].status = s, ![x].note = k]
<1>0. ops \in [OpIds -> Row]
  BY DEF Shapes
<1>1. after \in [OpIds -> Row]
  <2>1. s \in Statuses
    BY DEF Statuses
  <2>2. [ops EXCEPT ![x].status = s] \in [OpIds -> Row]
    BY <1>0, <2>1, StatusTyped
  <2>3. [[ops EXCEPT ![x].status = s] EXCEPT ![x].note = k] \in [OpIds -> Row]
    BY <2>2, NoteTyped
  <2>4. after = [[ops EXCEPT ![x].status = s] EXCEPT ![x].note = k]
    OBVIOUS
  <2> QED BY <2>3, <2>4
<1>2. ASSUME NEW o \in OpIds
      PROVE  /\ after[o].status \in {ops[o].status, s} /\ after[o].note \in {ops[o].note, k}
             /\ after[o].status # ops[o].status => ops[o].status # "FREE"
             /\ after[o].amount = ops[o].amount
  BY DEF Shapes, Row, RowsInUse
<1>3. Moves(after)
  BY <1>1, <1>2 DEF Moves, RowMoves
<1> QED BY <1>3, ClosedMoves DEF Settle

(* A new row asks for what the ledger has. *)
LEMMA NewRowMoves ==
  ASSUME Shapes, FreeRows # {}, NEW s \in {"PENDING", "RUNNING"}, NEW k \in Keys,
         NEW c \in 1..refunded, NEW q \in BOOLEAN
  PROVE  Moves([ops EXCEPT ![NextRow] = NewRow(s, k, c, q)])
<1> DEFINE new == NewRow(s, k, c, q)
           after == [ops EXCEPT ![NextRow] = new]
<1>1. new \in Row /\ new.amount = c /\ new.note = NoNote /\ new.status # "FREE"
  BY DEF Shapes, NewRow, Row, Statuses
<1> HIDE DEF new
<1>2. after \in [OpIds -> Row]
  BY <1>1 DEF Shapes
<1>3. ASSUME NEW o \in OpIds
      PROVE  RowMoves(ops[o], after[o])
  BY <1>1 DEF Shapes, RowMoves
<1> QED BY <1>2, <1>3 DEF Moves, new

(* Queueing a note is a move. *)
LEMMA EnqueueMoves ==
  ASSUME Shapes, NEW amount \in Nat, Enqueue(amount)
  PROVE  Moves(ops')
<1> DEFINE note == Lesser(amount, Uncovered)
           key == DeltaKey(covered + note)
<1>1. CASE ops' = ops
  BY <1>1, StayMoves
<1>2. CASE ops' # ops
  <2>0. note \in Int
    BY DEF Shapes, Lesser, Uncovered
  <2>1. FreeRows # {} /\ ~(note <= 0)
        /\ ops' = [ops EXCEPT ![NextRow] = NewRow("PENDING", key, note, TRUE)]
    BY <1>2 DEF Enqueue
  <2>2. note \in 1..refunded /\ covered + note \in Nat \ {0}
    BY <2>0, <2>1 DEF Shapes, Lesser, Uncovered
  <2>3. key \in Keys
    BY <2>2, KeyTypes
  <2> HIDE DEF note, key
  <2> QED BY <2>1, <2>2, <2>3, NewRowMoves
<1> QED BY <1>1, <1>2

----------------------------------------------------------------------------
(* The initial state. *)
LEMMA InitIInv == Init => IInv
<1> USE DEF Init
<1>1. FreeRow \in Row /\ Idle \in Job
  BY DEF FreeRow, Idle, Row, Job, Statuses, Places
<1>2. Init => Shapes
  BY <1>1, StepsAssumption DEF Shapes
<1>3. Init => NamesAreReal /\ RowsWithinLedger
  BY DEF NamesAreReal, RowsWithinLedger, FreeRow
<1>4. Init => JobsAreSound /\ RowsInUse
  BY DEF JobsAreSound, Sound, RowsInUse, Idle, Preparing, Noted
<1>5. Init => LinksMatchNotes /\ NotesWithinLedger
  BY DEF LinksMatchNotes, NotesWithinLedger
<1> QED BY <1>2, <1>3, <1>4, <1>5 DEF IInv

----------------------------------------------------------------------------
(* The steps.                                                               *)

(* The ledger and Xero only grow. *)
Grows == refunded \in Nat /\ refunded' \in Nat /\ refunded <= refunded' /\ notes \subseteq notes'

LEMMA StepGrows ==
  ASSUME Shapes, [Next]_vars
  PROVE  Grows
<1> USE DEF Grows, Shapes, ledger
<1>1. CASE RecordRefund
  BY <1>1, StepsAssumption, DeltaAssumption DEF RecordRefund
<1>2. CASE \E s \in 1..Steps : EnqueueStep(s) \/ LoseEnqueue(s)
  BY <1>2 DEF EnqueueStep, LoseEnqueue
<1>3. CASE ReconcileCredits \/ \E o \in OpIds : QueueRetry(o)
  BY <1>3 DEF ReconcileCredits, QueueRetry
<1>9. CASE ResetStale
  <2>1. UNCHANGED <<refunded, notes>>
    BY <1>9, Zenon DEF ResetStale
  <2> QED BY <2>1
<1>4. ASSUME NEW w \in Workers, NEW o \in OpIds, ClaimRow(w, o) \/ ClaimRetry(w, o)
      PROVE  Grows
  BY <1>4 DEF ClaimRow, ClaimRetry
<1>5. ASSUME NEW w \in Workers, Look(w) \/ CloseCovered(w) \/ SkipLegacy(w) \/ Prepare(w)
      PROVE  Grows
  BY <1>5 DEF Look, CloseCovered, SkipLegacy, Prepare
<1>6. ASSUME NEW w \in Workers, CreateNote(w) \/ RefuseNote(w) \/ PayNote(w) \/ RecordNote(w)
      PROVE  Grows
  BY <1>6 DEF CreateNote, RefuseNote, PayNote, RecordNote
<1>7. ASSUME NEW w \in Workers, FailJob(w) \/ RepairPartial(w) \/ Crash(w)
      PROVE  Grows
  BY <1>7 DEF FailJob, RepairPartial, Crash
<1>8. CASE UNCHANGED vars
  BY <1>8 DEF vars
<1> QED
  BY <1>1, <1>2, <1>3, <1>4, <1>5, <1>6, <1>7, <1>8, <1>9
     DEF Next, CreateXeroCreditNote

(* What a worker prepares: a key whose watermark the ledger it read allows. *)
LEMMA BillFits ==
  ASSUME Shapes, JobsAreSound, NEW w \in Workers, job[w].at = "count", job[w].seen > covered
  PROVE  /\ Bill(w) \in 1..refunded
         /\ covered + Bill(w) \in Nat \ {0} /\ covered + Bill(w) <= refunded
         /\ Bill(w) <= covered + Bill(w)
<1>1. job[w].amount \in 1..refunded /\ job[w].seen \in Nat /\ job[w].seen <= refunded
  BY DEF JobsAreSound, Sound, Preparing, Shapes, Job
<1> QED BY <1>1 DEF Bill, Lesser, Shapes

(* What Prepare starts is within the ledger, in either mode. *)
LEMMA PreparedFits ==
  ASSUME Shapes, JobsAreSound, NEW w \in Workers, Prepare(w)
  PROVE  \E c \in 1..refunded, k \in Keys :
           Start(w, c, k) /\ k[2] <= refunded /\ c <= k[2]
<1>1. CASE job[w].delta
  <2>1. Start(w, Bill(w), DeltaKey(covered + Bill(w))) /\ job[w].seen > covered
        /\ job[w].at = "count"
    BY <1>1 DEF Prepare, Step
  <2> QED BY <2>1, BillFits, KeyTypes
<1>2. CASE ~job[w].delta
  <2>1. Start(w, job[w].amount, LegacyKey(job[w].amount)) /\ job[w].at = "count"
    BY <1>2 DEF Prepare, Step
  <2>2. job[w].amount \in 1..refunded
    BY <2>1 DEF JobsAreSound, Sound, Preparing
  <2>3. job[w].amount \in Nat \ {0} /\ job[w].amount <= job[w].amount
    BY <2>2 DEF Shapes
  <2>4. LegacyKey(job[w].amount) \in Keys /\ LegacyKey(job[w].amount)[2] = job[w].amount
    BY <2>3, KeyTypes
  <2>5. job[w].amount <= refunded
    BY <2>2 DEF Shapes
  <2> QED BY <2>1, <2>2, <2>3, <2>4, <2>5
<1> QED BY <1>1, <1>2

(* Every step moves the rows. *)
LEMMA StepMoves ==
  ASSUME IInv, [Next]_vars
  PROVE  Moves(ops')
<1> USE DEF IInv, ledger
<1> USE StayMoves
<1>1. CASE RecordRefund
  BY <1>1 DEF RecordRefund
<1>2. ASSUME NEW s \in 1..Steps, EnqueueStep(s) \/ LoseEnqueue(s)
      PROVE  Moves(ops')
  <2>1. CASE EnqueueStep(s)
    BY <1>2, <2>1, DeltaAssumption, EnqueueMoves DEF EnqueueStep
  <2>2. CASE LoseEnqueue(s)
    BY <2>2 DEF LoseEnqueue
  <2> QED BY <1>2, <2>1, <2>2
<1>3. CASE ReconcileCredits
  BY <1>3, EnqueueMoves DEF ReconcileCredits, Shapes
<1>4. ASSUME NEW o \in OpIds, QueueRetry(o)
      PROVE  Moves(ops')
  <2>1. ops' = [ops EXCEPT ![o].retry = "PENDING"]
    BY <1>4 DEF QueueRetry
  <2> QED BY <2>1 DEF Shapes, Moves, RowMoves, Row
<1>5. ASSUME NEW w \in Workers, NEW o \in OpIds, ClaimRow(w, o)
      PROVE  Moves(ops')
  <2>1. ops' = [ops EXCEPT ![o].status = "RUNNING"] /\ ops[o].status # "FREE"
    BY <1>5 DEF ClaimRow
  <2> QED BY <2>1 DEF Shapes, Moves, RowMoves, Row, Statuses
<1>6. ASSUME NEW w \in Workers, NEW o \in OpIds, ClaimRetry(w, o)
      PROVE  Moves(ops')
  <2>1. PICK r \in {"RUNNING", "none"} : ops' = [ops EXCEPT ![o].retry = r]
    BY <1>6 DEF ClaimRetry
  <2> QED BY <2>1 DEF Shapes, Moves, RowMoves, Row
<1>7. ASSUME NEW w \in Workers, Look(w) \/ PayNote(w) \/ Crash(w)
      PROVE  Moves(ops')
  BY <1>7 DEF Look, PayNote, Crash
<1>8. ASSUME NEW w \in Workers, CloseCovered(w)
      PROVE  Moves(ops')
  <2>1. CASE job[w].row = 0
    BY <1>8, <2>1, ClosedMoves DEF CloseCovered
  <2>2. CASE job[w].row # 0
    <3>1. PICK l \in links : ops' = Settle(w, "SUCCEEDED", l.key)
      BY <1>8, <2>2 DEF CloseCovered
    <3>2. l.key \in Keys /\ Exists(l.key, notes')
      BY <1>8 DEF CloseCovered, Shapes, LinksMatchNotes, Exists
    <3> QED BY <2>2, <3>1, <3>2, SettleMoves
  <2> QED BY <2>1, <2>2
<1>9. ASSUME NEW w \in Workers, SkipLegacy(w)
      PROVE  Moves(ops')
  BY <1>9, ClosedMoves DEF SkipLegacy
<1>10. ASSUME NEW w \in Workers, Prepare(w)
       PROVE  Moves(ops')
  <2>1. PICK c \in 1..refunded, k \in Keys : Start(w, c, k)
    BY <1>10, PreparedFits
  <2>2. CASE job[w].row # 0
    <3>1. ops' = [ops EXCEPT ![job[w].row].amount = c]
      BY <2>1, <2>2 DEF Start
    <3>2. ops' \in [OpIds -> Row]
      <4>1. c \in Nat
        BY DEF Shapes
      <4> QED BY <3>1, <4>1, ZenonT(60) DEF Shapes, Row
    <3>3. ASSUME NEW o \in OpIds
          PROVE  /\ ops'[o].status = ops[o].status /\ ops'[o].note = ops[o].note
                 /\ ops'[o].amount \in {ops[o].amount, c}
      BY <3>1 DEF Shapes, Row
    <3> QED BY <3>2, <3>3 DEF Moves, RowMoves
  <2>3. CASE job[w].row = 0
    <3>1. \/ ops' = ops
          \/ /\ FreeRows # {}
             /\ ops' = [ops EXCEPT ![NextRow] = NewRow("RUNNING", k, c, FALSE)]
      BY <2>1, <2>3 DEF Start
    <3> QED BY <3>1, NewRowMoves
  <2> QED BY <2>2, <2>3
<1>11. ASSUME NEW w \in Workers, CreateNote(w) \/ RefuseNote(w) \/ FailJob(w)
       PROVE  Moves(ops')
  BY <1>11, FailedMoves DEF CreateNote, RefuseNote, FailJob
<1>12. ASSUME NEW w \in Workers, RecordNote(w)
       PROVE  Moves(ops')
  <2>1. PICK s \in {"SUCCEEDED", "PARTIAL"} : ops' = Settle(w, s, job[w].key)
    BY <1>12 DEF RecordNote
  <2>2. job[w].at \in Noted /\ notes' = notes
    BY <1>12 DEF RecordNote, Noted
  <2>3. job[w].key \in Keys /\ Exists(job[w].key, notes')
    BY <2>2 DEF JobsAreSound, Sound, Exists
  <2>4. CASE job[w].row # 0
    BY <2>1, <2>3, <2>4, SettleMoves
  <2>5. CASE job[w].row = 0
    <3>1. [ops EXCEPT ![0].status = s, ![0].note = job[w].key] = ops
      BY OpIdsAssumption DEF Shapes
    <3> QED BY <2>1, <2>5, <3>1, ClosedMoves DEF Settle
  <2> QED BY <2>4, <2>5
<1>13. ASSUME NEW w \in Workers, RepairPartial(w)
       PROVE  Moves(ops')
  <2> DEFINE after == [ops EXCEPT ![job[w].of].status = "SUCCEEDED"]
  <2>1. Moves(after)
    <3>1. after \in [OpIds -> Row]
      BY ZenonT(60) DEF Shapes, Row, Statuses
    <3>2. ASSUME NEW o \in OpIds
          PROVE  RowMoves(ops[o], after[o])
      <4>1. /\ after[o].status \in {ops[o].status, "SUCCEEDED"}
            /\ after[o].amount = ops[o].amount /\ after[o].note = ops[o].note
        BY DEF Shapes, Row
      <4>2. after[o].status # ops[o].status => ops[o].status # "FREE"
        BY OpIdsAssumption DEF Shapes, Row, RowsInUse
      <4> HIDE DEF after
      <4> QED BY <4>1, <4>2 DEF RowMoves
    <3> QED BY <3>1, <3>2 DEF Moves
  <2>2. ops' = Closed(w, after) \/ ops' = Closed(w, ops)
    BY <1>13 DEF RepairPartial
  <2> QED BY <2>1, <2>2, ClosedMoves
<1>14. CASE ResetStale
  <2>1. ops' \in [OpIds -> Row]
    <3>1. ASSUME NEW o \in OpIds, NEW s \in {ops[o].status, "FAILED"},
                 NEW r \in {ops[o].retry, "none"}
          PROVE  [ops[o] EXCEPT !.status = s, !.retry = r] \in Row
      BY DEF Shapes, Row, Statuses
    <3>2. \A o \in OpIds : \E s \in {ops[o].status, "FAILED"}, r \in {ops[o].retry, "none"} :
            ops'[o] = [ops[o] EXCEPT !.status = s, !.retry = r]
      BY <1>14 DEF ResetStale
    <3>3. ASSUME NEW o \in OpIds
          PROVE  ops'[o] \in Row
      <4>1. PICK s \in {ops[o].status, "FAILED"}, r \in {ops[o].retry, "none"} :
              ops'[o] = [ops[o] EXCEPT !.status = s, !.retry = r]
        BY <3>2
      <4>2. [ops[o] EXCEPT !.status = s, !.retry = r] \in Row
        BY <3>1
      <4> QED BY <4>1, <4>2
    <3>4. ops' = [o \in OpIds |-> ops'[o]]
      BY <1>14 DEF ResetStale
    <3> QED BY <3>3, <3>4
  <2>2. ASSUME NEW o \in OpIds
        PROVE  RowMoves(ops[o], ops'[o])
    <3>1. /\ ops'[o].status \in {ops[o].status, "FAILED"}
          /\ ops'[o].status # ops[o].status => ops[o].status # "FREE"
          /\ ops'[o].amount = ops[o].amount /\ ops'[o].note = ops[o].note
      BY <1>14 DEF ResetStale, Shapes, Row
    <3> QED BY <3>1 DEF RowMoves
  <2> QED BY <2>1, <2>2 DEF Moves
<1>15. CASE UNCHANGED vars
  BY <1>15 DEF vars
<1> QED
  BY <1>1, <1>2, <1>3, <1>4, <1>5, <1>6, <1>7, <1>8, <1>9, <1>10, <1>11, <1>12, <1>13,
     <1>14, <1>15 DEF Next, CreateXeroCreditNote

(* What a step may do to a worker's job. *)
Carries(j) ==
  /\ j \in Job /\ Sound(j, refunded', notes')
  /\ j.row # 0 => ops'[j.row].status # "FREE"
  /\ j.of # 0 => ops'[j.of].status # "FREE"
JobMoves(w) == job' = [job EXCEPT ![w] = job'[w]] /\ Carries(job'[w])

(* What was sound stays so. *)
LEMMA SoundStays ==
  ASSUME Grows, NEW j \in Job, Sound(j, refunded, notes)
  PROVE  Sound(j, refunded', notes')
BY DEF Grows, Sound, Exists, Job, Keys

(* A worker at rest carries nothing. *)
LEMMA IdleCarries ==
  ASSUME refunded' \in Nat
  PROVE  Carries(Idle)
BY DEF Carries, Idle, Job, Places, Sound, Preparing, Noted

(* What was carried before the step still is. *)
LEMMA OthersCarry ==
  ASSUME IInv, Grows, Moves(ops'), NEW w \in Workers
  PROVE  Carries(job[w])
<1>1. job[w] \in Job /\ Sound(job[w], refunded, notes)
  BY DEF IInv, Shapes, JobsAreSound
<1>2. job[w].row \in OpIds \union {0} /\ job[w].of \in OpIds \union {0}
  BY <1>1 DEF Job
<1>3. \A o \in OpIds : ops[o].status # "FREE" => ops'[o].status # "FREE"
  BY DEF Moves, RowMoves
<1> QED BY <1>1, <1>2, <1>3, SoundStays DEF Carries, IInv, RowsInUse

(* One job at a time. *)
LEMMA JobsFollow ==
  ASSUME IInv, Grows, Moves(ops'), NEW w \in Workers, JobMoves(w)
  PROVE  job' \in [Workers -> Job] /\ JobsAreSound' /\ RowsInUse'
<1>1. \A v \in Workers : Carries(job'[v])
  BY OthersCarry DEF JobMoves, IInv, Shapes
<1>2. job' \in [Workers -> Job]
  BY <1>1 DEF JobMoves, Carries, IInv, Shapes
<1> QED BY <1>1, <1>2 DEF Carries, JobsAreSound, RowsInUse

LEMMA JobsStay ==
  ASSUME IInv, Grows, Moves(ops'), job' = job
  PROVE  job' \in [Workers -> Job] /\ JobsAreSound' /\ RowsInUse'
<1>1. \A v \in Workers : Carries(job'[v])
  BY OthersCarry
<1> QED BY <1>1 DEF Carries, JobsAreSound, RowsInUse, IInv, Shapes

(* A worker that leaves is at rest. *)
LEMMA LeaveMoves ==
  ASSUME IInv, Grows, NEW w \in Workers, Leave(w)
  PROVE  JobMoves(w)
<1>1. job'[w] = Idle /\ job' = [job EXCEPT ![w] = job'[w]]
  BY DEF Leave, IInv, Shapes
<1> QED BY <1>1, IdleCarries DEF JobMoves, Grows

(* Every step of the workers, one job at a time. *)
LEMMA StepJobs ==
  ASSUME IInv, [Next]_vars, Grows, Moves(ops')
  PROVE  job' \in [Workers -> Job] /\ JobsAreSound' /\ RowsInUse'
<1> USE JobsStay, JobsFollow
<1>1. CASE \/ RecordRefund \/ ReconcileCredits \/ ResetStale \/ UNCHANGED vars
           \/ \E s \in 1..Steps : EnqueueStep(s) \/ LoseEnqueue(s)
           \/ \E o \in OpIds : QueueRetry(o)
  <2>1. job' = job
    BY <1>1, Zenon DEF RecordRefund, ReconcileCredits, ResetStale, EnqueueStep, LoseEnqueue,
                QueueRetry, vars
  <2> QED BY <2>1
<1>2. ASSUME NEW w \in Workers, NEW o \in OpIds, ClaimRow(w, o)
      PROVE  JobMoves(w)
  <2> DEFINE j == [Idle EXCEPT !.at = "look", !.row = o, !.amount = ops[o].amount,
                               !.delta = TRUE]
  <2>1. job' = [job EXCEPT ![w] = j] /\ ops[o].status # "FREE"
    BY <1>2 DEF ClaimRow
  <2>2. ops[o].amount \in 1..refunded' /\ ops[o].amount \in Nat /\ ops'[o].status # "FREE"
    BY <2>1 DEF IInv, RowsWithinLedger, Grows, Moves, RowMoves, Shapes, Row
  <2>3. /\ j.at = "look" /\ j.row = o /\ j.of = 0 /\ j.amount = ops[o].amount
        /\ j.seen = 0 /\ j \in Job
    BY <2>2 DEF Idle, Job, Places
  <2>4. Carries(j)
    BY <2>2, <2>3 DEF Carries, Sound, Preparing, Noted, Grows
  <2>5. job'[w] = j
    BY <2>1 DEF IInv, Shapes
  <2> QED BY <2>1, <2>4, <2>5 DEF JobMoves
<1>3. ASSUME NEW w \in Workers, NEW o \in OpIds, ClaimRetry(w, o), job' # job
      PROVE  JobMoves(w)
  <2>1. ops[o].status # "FREE"
    BY <1>3 DEF ClaimRetry, Retryable
  <2>2. ops[o].amount \in 1..refunded' /\ ops[o].amount \in Nat /\ ops'[o].status # "FREE"
    BY <2>1 DEF IInv, RowsWithinLedger, Grows, Moves, RowMoves, Shapes, Row
  <2>3. CASE ops[o].note # NoNote
    <3> DEFINE j == [Idle EXCEPT !.at = "repair", !.of = o, !.key = ops[o].note]
    <3>1. job' = [job EXCEPT ![w] = j]
      BY <1>3, <2>3 DEF ClaimRetry
    <3>2. ops[o].note \in Keys /\ Exists(ops[o].note, notes')
      BY <2>3 DEF IInv, NamesAreReal, Exists, Grows, Shapes, Row
    <3>3. /\ j.at = "repair" /\ j.row = 0 /\ j.of = o /\ j.key = ops[o].note
          /\ j.seen = 0 /\ j \in Job
      BY <3>2 DEF Idle, Job, Places
    <3>4. Carries(j)
      BY <2>2, <3>2, <3>3 DEF Carries, Sound, Preparing, Noted, Grows
    <3>5. job'[w] = j
      BY <3>1 DEF IInv, Shapes
    <3> QED BY <3>1, <3>4, <3>5 DEF JobMoves
  <2>4. CASE ops[o].note = NoNote
    <3> DEFINE j == [Idle EXCEPT !.at = "look", !.of = o, !.amount = ops[o].amount,
                                 !.delta = ops[o].queued]
    <3>1. job' = [job EXCEPT ![w] = j]
      BY <1>3, <2>4 DEF ClaimRetry
    <3>2. ops[o].queued \in BOOLEAN
      BY DEF IInv, Shapes, Row
    <3>3. /\ j.at = "look" /\ j.row = 0 /\ j.of = o /\ j.amount = ops[o].amount
          /\ j.seen = 0 /\ j \in Job
      BY <2>2, <3>2 DEF Idle, Job, Places
    <3>4. Carries(j)
      BY <2>2, <3>3 DEF Carries, Sound, Preparing, Noted, Grows
    <3>5. job'[w] = j
      BY <3>1 DEF IInv, Shapes
    <3> QED BY <3>1, <3>4, <3>5 DEF JobMoves
  <2> QED BY <2>3, <2>4
<1>4. ASSUME NEW w \in Workers, Look(w)
      PROVE  JobMoves(w)
  <2> DEFINE j == [job[w] EXCEPT !.at = "count", !.seen = refunded]
  <2>1. job' = [job EXCEPT ![w] = j] /\ job[w].at = "look" /\ refunded' = refunded
    BY <1>4 DEF Look, Step, ledger, IInv, Shapes
  <2>2. job[w] \in Job /\ Sound(job[w], refunded, notes)
    BY DEF IInv, Shapes, JobsAreSound
  <2>3. /\ j \in Job /\ j.at = "count" /\ j.seen = refunded
        /\ j.amount = job[w].amount /\ j.row = job[w].row /\ j.of = job[w].of
    BY <2>2 DEF Job, Places, Grows
  <2>4. Carries(j)
    BY <2>1, <2>2, <2>3, OthersCarry DEF Carries, Sound, Preparing, Noted, Grows
  <2>5. job'[w] = j
    BY <2>1 DEF IInv, Shapes
  <2> QED BY <2>1, <2>4, <2>5 DEF JobMoves
<1>5. ASSUME NEW w \in Workers, CloseCovered(w) \/ SkipLegacy(w) \/ RefuseNote(w)
             \/ RecordNote(w) \/ RepairPartial(w) \/ FailJob(w) \/ Crash(w)
      PROVE  JobMoves(w)
  <2>1. Leave(w)
    BY <1>5, Zenon DEF CloseCovered, SkipLegacy, RefuseNote, RecordNote, RepairPartial, FailJob,
                Crash
  <2> QED BY <2>1, LeaveMoves
<1>6. ASSUME NEW w \in Workers, Prepare(w)
      PROVE  JobMoves(w)
  <2>1. PICK c \in 1..refunded, k \in Keys : Start(w, c, k) /\ k[2] <= refunded /\ c <= k[2]
    BY <1>6, PreparedFits DEF IInv
  <2>2. refunded' = refunded /\ notes' = notes
    BY <1>6 DEF Prepare, ledger
  <2>3. job[w] \in Job /\ Sound(job[w], refunded, notes) /\ c \in Nat
    BY DEF IInv, Shapes, JobsAreSound
  <2>4. PICK o \in OpIds \union {0} :
          /\ job' = [job EXCEPT ![w] = [@ EXCEPT !.at = "send", !.amount = c, !.key = k,
                                                 !.row = o]]
          /\ o # 0 /\ ops'[o].status # "FREE"
    <3>1. CASE job[w].row # 0
      <4>1. job' = [job EXCEPT ![w] = [@ EXCEPT !.at = "send", !.amount = c, !.key = k,
                                                !.row = job[w].row]]
        BY <2>1, <2>3, <3>1, ZenonT(60) DEF Start, Job, IInv, Shapes
      <4>2. Carries(job[w])
        BY OthersCarry
      <4> QED BY <2>3, <3>1, <4>1, <4>2 DEF Carries, Job
    <3>2. CASE job[w].row = 0
      <4>1. PICK o \in OpIds :
              /\ job' = [job EXCEPT ![w].at = "send", ![w].amount = c, ![w].key = k,
                                    ![w].row = o]
              /\ \/ ops' = ops /\ o \in ActiveWith(k)
                 \/ ops' = [ops EXCEPT ![o] = NewRow("RUNNING", k, c, FALSE)]
        BY <2>1, <3>2, NextRowIsFree DEF Start, ActiveWith, FreeRows
      <4>2. ops'[o].status # "FREE"
        BY <4>1 DEF ActiveWith, Active, NewRow, IInv, Shapes
      <4> QED BY <4>1, <4>2, OpIdsAssumption DEF IInv, Shapes
    <3> QED BY <3>1, <3>2
  <2> DEFINE j == [job[w] EXCEPT !.at = "send", !.amount = c, !.key = k, !.row = o]
  <2>5. /\ j \in Job /\ j.at = "send" /\ j.seen = job[w].seen /\ j.amount = c
        /\ j.key = k /\ j.row = o /\ j.of = job[w].of
    BY <2>3 DEF Job, Places
  <2>6. Carries(j)
    BY <2>1, <2>2, <2>3, <2>4, <2>5, OthersCarry DEF Carries, Sound, Preparing, Noted, Keys
  <2>7. job'[w] = j /\ job' = [job EXCEPT ![w] = j]
    BY <2>4 DEF IInv, Shapes
  <2> QED BY <2>6, <2>7 DEF JobMoves
<1>7. ASSUME NEW w \in Workers, CreateNote(w)
      PROVE  JobMoves(w)
  <2>1. CASE Leave(w)
    BY <2>1, LeaveMoves
  <2>2. CASE job' = [job EXCEPT ![w].at = "pay"]
    <3> DEFINE j == [job[w] EXCEPT !.at = "pay"]
    <3>1. job[w].at = "send" /\ Request(w) \in notes' /\ refunded' = refunded
      BY <1>7 DEF CreateNote, Step, ledger
    <3>2. job[w] \in Job /\ Sound(job[w], refunded, notes)
      BY DEF IInv, Shapes, JobsAreSound
    <3>3. /\ j \in Job /\ j.at = "pay" /\ j.seen = job[w].seen /\ j.amount = job[w].amount
          /\ j.key = job[w].key /\ j.row = job[w].row /\ j.of = job[w].of
      BY <3>2 DEF Job, Places
    <3>4. Carries(j)
      BY <3>1, <3>2, <3>3, OthersCarry DEF Carries, Sound, Preparing, Noted, Request
    <3>5. job'[w] = j /\ job' = [job EXCEPT ![w] = j]
      BY <2>2 DEF IInv, Shapes
    <3> QED BY <3>4, <3>5 DEF JobMoves
  <2> QED BY <1>7, <2>1, <2>2 DEF CreateNote
<1>8. ASSUME NEW w \in Workers, PayNote(w)
      PROVE  JobMoves(w)
  <2>1. PICK at \in {"record", "recordPartial"} : job' = [job EXCEPT ![w].at = at]
    BY <1>8 DEF PayNote
  <2> DEFINE j == [job[w] EXCEPT !.at = at]
  <2>2. job[w].at = "pay" /\ notes' = notes /\ refunded' = refunded
    BY <1>8 DEF PayNote, Step, ledger
  <2>3. job[w] \in Job /\ Sound(job[w], refunded, notes)
    BY DEF IInv, Shapes, JobsAreSound
  <2>4. /\ j \in Job /\ j.at \in {"record", "recordPartial"} /\ j.seen = job[w].seen
        /\ j.amount = job[w].amount
        /\ j.key = job[w].key /\ j.row = job[w].row /\ j.of = job[w].of
    BY <2>3 DEF Job, Places
  <2>5. Carries(j)
    BY <2>2, <2>3, <2>4, OthersCarry DEF Carries, Sound, Preparing, Noted
  <2>6. job'[w] = j /\ job' = [job EXCEPT ![w] = j]
    BY <2>1 DEF IInv, Shapes
  <2> QED BY <2>5, <2>6 DEF JobMoves
<1> QED
  BY <1>1, <1>2, <1>3, <1>4, <1>5, <1>6, <1>7, <1>8 DEF Next, CreateXeroCreditNote

(* The links and the notes agree, and the notes stay within the ledger.     *)
LEMMA StepNotes ==
  ASSUME IInv, [Next]_vars, Grows
  PROVE  LinksMatchNotes' /\ NotesWithinLedger'
<1> USE DEF IInv, LinksMatchNotes, NotesWithinLedger
<1>1. CASE UNCHANGED <<notes, links>>
  BY <1>1 DEF Grows, Shapes, Note, Keys
<1>2. ASSUME NEW w \in Workers, SkipLegacy(w)
      PROVE  LinksMatchNotes' /\ NotesWithinLedger'
  <2>1. UNCHANGED notes /\ refunded' = refunded
    BY <1>2 DEF SkipLegacy, ledger
  <2>2. \/ links' = links
        \/ /\ links' = links \union {[key |-> field, amount |-> 0]}
           /\ field \notin {l.key : l \in links} /\ Exists(field, notes)
    BY <1>2 DEF SkipLegacy, NamesAreReal
  <2> QED BY <2>1, <2>2 DEF Exists
<1>3. ASSUME NEW w \in Workers, CreateNote(w)
      PROVE  LinksMatchNotes' /\ NotesWithinLedger'
  <2>1. /\ notes' = notes \union {Request(w)} /\ links' = links /\ refunded' = refunded
        /\ ~Refused(w) /\ job[w].at = "send"
    BY <1>3 DEF CreateNote, ledger, Step
  <2>2. /\ job[w].key[2] <= refunded /\ job[w].amount \in 1..job[w].key[2]
        /\ job[w].key \in Keys
    BY <2>1 DEF JobsAreSound, Sound
  <2>3. Request(w).key = job[w].key /\ Request(w).amount = job[w].amount
    BY DEF Request
  <2>4. \A n \in notes : n.key = job[w].key => n = Request(w)
    BY <2>1 DEF Refused, Request, Shapes, Note
  <2>5. job[w].amount <= job[w].key[2]
    BY <2>2 DEF Keys
  <2>6. LinksMatchNotes'
    BY <2>1, <2>3, <2>4
  <2>7. NotesWithinLedger'
    BY <2>1, <2>2, <2>3, <2>5
  <2> QED BY <2>6, <2>7
<1>4. ASSUME NEW w \in Workers, RecordNote(w)
      PROVE  LinksMatchNotes' /\ NotesWithinLedger'
  <2>1. UNCHANGED notes /\ refunded' = refunded /\ links' = Linked(Request(w))
        /\ job[w].at \in Noted
    BY <1>4 DEF RecordNote, ledger, Noted
  <2>2. Request(w) \in notes
    BY <2>1 DEF JobsAreSound, Sound, Request
  <2> QED BY <2>1, <2>2 DEF Linked
<1>5. CASE \/ RecordRefund \/ ReconcileCredits \/ ResetStale \/ UNCHANGED vars
           \/ \E s \in 1..Steps : EnqueueStep(s) \/ LoseEnqueue(s)
           \/ \E o \in OpIds : QueueRetry(o)
  <2>1. UNCHANGED <<notes, links>>
    BY <1>5, Zenon DEF RecordRefund, ReconcileCredits, ResetStale, EnqueueStep, LoseEnqueue,
                QueueRetry, vars
  <2> QED BY <2>1, <1>1
<1>6. ASSUME NEW w \in Workers,
             \/ \E o \in OpIds : ClaimRow(w, o) \/ ClaimRetry(w, o)
             \/ Look(w) \/ CloseCovered(w) \/ Prepare(w) \/ RefuseNote(w) \/ PayNote(w)
             \/ RepairPartial(w) \/ FailJob(w) \/ Crash(w)
      PROVE  UNCHANGED <<notes, links>>
  BY <1>6, Zenon DEF ClaimRow, ClaimRetry, Look, CloseCovered, Prepare, RefuseNote, PayNote,
              RepairPartial, FailJob, Crash
<1> QED
  BY <1>1, <1>2, <1>3, <1>4, <1>5, <1>6 DEF Next, CreateXeroCreditNote

(* What a row asks for stays within the ledger. *)
LEMMA StepRows ==
  ASSUME IInv, Grows, Moves(ops'),
         \A o \in OpIds : ops[o].amount \in Nat
  PROVE  RowsWithinLedger'
BY DEF IInv, RowsWithinLedger, Moves, RowMoves, Grows

(* Names are taken from notes, and notes are never deleted. *)
LEMMA StepNames ==
  ASSUME IInv, [Next]_vars, Grows, Moves(ops')
  PROVE  NamesAreReal' /\ field' \in Keys \union {NoNote}
<1> USE DEF IInv
<1>1. \A o \in OpIds : ops'[o].note # NoNote => Exists(ops'[o].note, notes')
  BY DEF Moves, RowMoves, NamesAreReal, Exists, Grows
<1>2. \/ field' = field
      \/ \E l \in links : field' = l.key
      \/ \E w \in Workers : field' = job[w].key /\ job[w].at \in {"send", "repair"}
                            /\ (job[w].at = "send" => Request(w) \in notes')
  <2>1. CASE \/ RecordRefund \/ ReconcileCredits \/ ResetStale \/ UNCHANGED vars
             \/ \E s \in 1..Steps : EnqueueStep(s) \/ LoseEnqueue(s)
             \/ \E o \in OpIds : QueueRetry(o)
    BY <2>1, Zenon DEF RecordRefund, ReconcileCredits, ResetStale, EnqueueStep, LoseEnqueue,
                QueueRetry, vars
  <2>2. ASSUME NEW w \in Workers,
               \/ \E o \in OpIds : ClaimRow(w, o) \/ ClaimRetry(w, o)
               \/ Look(w) \/ Prepare(w) \/ RefuseNote(w) \/ PayNote(w) \/ RecordNote(w)
               \/ FailJob(w) \/ Crash(w)
        PROVE  field' = field
    BY <2>2, Zenon DEF ClaimRow, ClaimRetry, Look, Prepare, RefuseNote, PayNote, RecordNote,
                FailJob, Crash
  <2>3. ASSUME NEW w \in Workers, CloseCovered(w) \/ SkipLegacy(w)
        PROVE  field' = field \/ \E l \in links : field' = l.key
    BY <2>3, Zenon DEF CloseCovered, SkipLegacy
  <2>4. ASSUME NEW w \in Workers, CreateNote(w) \/ RepairPartial(w)
        PROVE  \/ field' = field
               \/ /\ field' = job[w].key /\ job[w].at \in {"send", "repair"}
                  /\ job[w].at = "send" => Request(w) \in notes'
    BY <2>4 DEF CreateNote, RepairPartial, Step
  <2> QED BY <2>1, <2>2, <2>3, <2>4 DEF Next, CreateXeroCreditNote
<1>3. field' \in Keys \union {NoNote} /\ (field' # NoNote => Exists(field', notes'))
  <2>1. CASE field' = field
    BY <2>1 DEF NamesAreReal, Exists, Grows, Shapes
  <2>2. CASE \E l \in links : field' = l.key
    BY <2>2 DEF LinksMatchNotes, Exists, Grows, Shapes
  <2>3. ASSUME NEW w \in Workers, field' = job[w].key, job[w].at = "send",
               Request(w) \in notes'
        PROVE  field' \in Keys /\ Exists(field', notes')
    BY <2>3 DEF JobsAreSound, Sound, Request, Exists
  <2>4. ASSUME NEW w \in Workers, field' = job[w].key, job[w].at = "repair"
        PROVE  field' \in Keys /\ Exists(field', notes')
    BY <2>4 DEF JobsAreSound, Sound, Exists, Grows, Shapes, Note
  <2> QED BY <1>2, <2>1, <2>2, <2>3, <2>4
<1> QED BY <1>1, <1>3 DEF NamesAreReal

(* What the ledger, Xero and the links may hold. *)
Books ==
  /\ step \in 0..Steps /\ refunded \in Nat /\ covered \in Nat /\ faults \in Nat
  /\ unsent \subseteq 1..Steps /\ lost \subseteq 1..Steps
  /\ notes \subseteq Note /\ links \subseteq [key : Keys, amount : Nat]
  /\ paid \subseteq Keys /\ adopted \subseteq OpIds

LEMMA StepBooks ==
  ASSUME IInv, [Next]_vars, Grows
  PROVE  Books'
<1> USE DEF IInv, Books, Shapes, Grows, Fault, ledger
<1>1. CASE RecordRefund
  BY <1>1, StepsAssumption DEF RecordRefund
<1>2. CASE \E s \in 1..Steps : EnqueueStep(s) \/ LoseEnqueue(s)
  BY <1>2 DEF EnqueueStep, LoseEnqueue
<1>3. CASE ReconcileCredits \/ \E o \in OpIds : QueueRetry(o)
  BY <1>3 DEF ReconcileCredits, QueueRetry
<1>4. CASE ResetStale
  <2>1. UNCHANGED <<step, refunded, covered, faults, unsent, lost, notes, links, paid, adopted>>
    BY <1>4, Zenon DEF ResetStale, ledger
  <2> QED BY <2>1
<1>5. ASSUME NEW w \in Workers, NEW o \in OpIds, ClaimRow(w, o) \/ ClaimRetry(w, o)
      PROVE  Books'
  BY <1>5 DEF ClaimRow, ClaimRetry
<1>6. ASSUME NEW w \in Workers,
             Look(w) \/ CloseCovered(w) \/ RefuseNote(w) \/ FailJob(w) \/ Crash(w)
      PROVE  Books'
  BY <1>6 DEF Look, CloseCovered, RefuseNote, FailJob, Crash
<1>7. ASSUME NEW w \in Workers, SkipLegacy(w)
      PROVE  Books'
  <2>1. \/ links' = links
        \/ links' = links \union {[key |-> field, amount |-> 0]} /\ field # NoNote
    BY <1>7 DEF SkipLegacy
  <2>2. UNCHANGED <<step, refunded, covered, faults, unsent, lost, notes, paid, adopted>>
    BY <1>7 DEF SkipLegacy
  <2> QED BY <2>1, <2>2
<1>8. ASSUME NEW w \in Workers, Prepare(w)
      PROVE  Books'
  <2>1. PICK c \in 1..refunded, k \in Keys : Start(w, c, k)
    BY <1>8, PreparedFits
  <2>2. adopted' \subseteq OpIds
    BY <2>1, ZenonT(60) DEF Start, ActiveWith
  <2>3. UNCHANGED <<step, refunded, covered, faults, unsent, lost, notes, links, paid>>
    BY <1>8 DEF Prepare
  <2> QED BY <2>2, <2>3
<1>9. ASSUME NEW w \in Workers, CreateNote(w) \/ RecordNote(w) \/ PayNote(w) \/ RepairPartial(w)
      PROVE  Books'
  <2>1. job[w].at \in Noted \union {"send", "repair"}
    BY <1>9 DEF CreateNote, RecordNote, PayNote, RepairPartial, Step, Noted
  <2>2. job[w].key \in Keys
    BY <2>1 DEF JobsAreSound, Sound, Exists, Note
  <2>3. CASE CreateNote(w)
    <3>1. job[w].key \in Keys /\ job[w].amount \in 1..job[w].key[2]
      BY <2>3 DEF CreateNote, Step, JobsAreSound, Sound
    <3>2. Request(w) \in Note
      BY <3>1 DEF Request, Note, Keys
    <3>3. notes' = notes \union {Request(w)} /\ faults' \in Nat
      BY <2>3 DEF CreateNote
    <3>4. UNCHANGED <<step, refunded, covered, unsent, lost, links, paid, adopted>>
      BY <2>3 DEF CreateNote
    <3> QED BY <3>2, <3>3, <3>4
  <2>4. CASE RecordNote(w)
    <3>1. job[w] \in Job
      OBVIOUS
    <3>2. Request(w) \in [key : Keys, amount : Nat] /\ job[w].amount \in Nat
      BY <2>2, <3>1 DEF Request, Job
    <3>3. links' = Linked(Request(w)) /\ covered' \in {covered, covered + job[w].amount}
      BY <2>4 DEF RecordNote
    <3>4. UNCHANGED <<step, refunded, faults, unsent, lost, notes, paid, adopted>>
      BY <2>4 DEF RecordNote
    <3> QED BY <3>2, <3>3, <3>4 DEF Linked
  <2>5. CASE PayNote(w)
    BY <2>2, <2>5 DEF PayNote
  <2>6. CASE RepairPartial(w)
    BY <2>2, <2>6 DEF RepairPartial
  <2> QED BY <1>9, <2>3, <2>4, <2>5, <2>6
<1>10. CASE UNCHANGED vars
  BY <1>10 DEF vars
<1> QED
  BY <1>1, <1>2, <1>3, <1>4, <1>5, <1>6, <1>7, <1>8, <1>9, <1>10 DEF Next, CreateXeroCreditNote

(* The invariant holds in every reachable state. *)
LEMMA Invariant == Spec => []IInv
<1>1. ASSUME IInv, [Next]_vars
      PROVE  IInv'
  <2>1. Grows
    BY <1>1, StepGrows DEF IInv
  <2>2. Moves(ops')
    BY <1>1, StepMoves
  <2>3. job' \in [Workers -> Job] /\ JobsAreSound' /\ RowsInUse'
    BY <1>1, <2>1, <2>2, StepJobs
  <2>4. LinksMatchNotes' /\ NotesWithinLedger'
    BY <1>1, <2>1, StepNotes
  <2>5. NamesAreReal' /\ field' \in Keys \union {NoNote}
    BY <1>1, <2>1, <2>2, StepNames
  <2>6. RowsWithinLedger'
    <3>1. \A o \in OpIds : ops[o].amount \in Nat
      BY <1>1 DEF IInv, Shapes, Row
    <3> QED BY <1>1, <2>1, <2>2, <3>1, StepRows
  <2>7. Shapes'
    BY <1>1, <2>1, <2>2, <2>3, <2>5, StepBooks DEF Books, Shapes, Moves
  <2> QED BY <2>3, <2>4, <2>5, <2>6, <2>7 DEF IInv
<1> QED BY InitIInv, <1>1, PTL DEF Spec

(* Each link names one note Xero holds, for the cents recorded with it, and *)
(* no idempotency key ever made two notes - for any number of workers,      *)
(* crashes, lost answers and retries.                                       *)
THEOREM LinksAreReal == Spec => []LinksMatchNotes
<1>1. IInv => LinksMatchNotes
  BY DEF IInv
<1> QED BY Invariant, <1>1, PTL

(* No note's watermark, and so no note, exceeds what has been refunded,     *)
(* however stale the ledger was when its amount was computed.               *)
THEOREM NoNoteBeyondTheLedger == Spec => []NotesWithinLedger
<1>1. IInv => NotesWithinLedger
  BY DEF IInv
<1> QED BY Invariant, <1>1, PTL

----------------------------------------------------------------------------
(* Notes without their refund payment.                                      *)

Done == {"SUCCEEDED", "PARTIAL", "FAILED"}

(* A row a worker holds is RUNNING, and nobody else holds it.               *)
RowsAreHeld ==
  /\ \A w \in Workers : job[w].row # 0 => ops[job[w].row].status = "RUNNING"
  /\ \A v, w \in Workers : v # w /\ job[v].row # 0 => job[v].row # job[w].row

(* Whoever sends or records holds a row; whoever records without an error   *)
(* has paid; a repair works for the note of its operation.                  *)
JobsAreHonest ==
  \A w \in Workers :
    /\ job[w].at \in Noted \union {"send"} => job[w].row # 0
    /\ job[w].at = "record" => job[w].key \in paid
    /\ job[w].at = "repair" =>
         /\ job[w].of # 0 /\ ops[job[w].of].status \in Done
         /\ ops[job[w].of].note = job[w].key

(* None of it holds once a retry was given a row of somebody else.          *)
Known == adopted = {} => RowsAreHeld /\ JobsAreHonest /\ UnpaidNoteIsKnown

(* The rows but one keep their status and their note. *)
OnlyRow(x) ==
  \A o \in OpIds \ {x} : ops'[o].status = ops[o].status /\ ops'[o].note = ops[o].note

(* A row that is done keeps both. *)
DoneStays ==
  \A o \in OpIds : ops[o].status \in Done =>
    ops'[o].status = ops[o].status /\ ops'[o].note = ops[o].note

LEMMA ClosedKeeps ==
  ASSUME NEW w \in Workers, NEW rows \in [OpIds -> Row], NEW o \in OpIds
  PROVE  Closed(w, rows)[o].status = rows[o].status /\ Closed(w, rows)[o].note = rows[o].note
BY DEF Closed, Row

LEMMA ClosedOnly ==
  ASSUME Shapes, NEW w \in Workers, ops' = Closed(w, ops)
  PROVE  OnlyRow(0)
BY ClosedKeeps DEF Shapes, OnlyRow

LEMMA OutcomeRows ==
  ASSUME Shapes, NEW x, NEW s \in Statuses, NEW k \in Keys
  PROVE  /\ [ops EXCEPT ![x].status = s] \in [OpIds -> Row]
         /\ [ops EXCEPT ![x].status = s, ![x].note = k] \in [OpIds -> Row]
<1>1. ASSUME NEW r \in Row
      PROVE  [r EXCEPT !.status = s] \in Row /\ [r EXCEPT !.status = s, !.note = k] \in Row
  BY DEF Row
<1> QED BY <1>1 DEF Shapes

LEMMA FailedOnly ==
  ASSUME Shapes, NEW w \in Workers, ops' = Failed(w)
  PROVE  OnlyRow(job[w].row)
<1> DEFINE x == job[w].row
           after == IF x = 0 THEN ops ELSE [ops EXCEPT ![x].status = "FAILED"]
<1>1. after \in [OpIds -> Row]
  <2>1. "FAILED" \in Statuses
    BY DEF Statuses
  <2>2. CASE x = 0
    BY <2>2 DEF Shapes
  <2>3. CASE x # 0
    <3>1. DeltaKey(1) \in Keys
      BY KeyTypes
    <3> QED BY <2>1, <2>3, <3>1, OutcomeRows
  <2> QED BY <2>2, <2>3
<1>2. \A o \in OpIds \ {x} : after[o] = ops[o]
  BY DEF Shapes
<1>3. ops' = Closed(w, after)
  BY DEF Failed
<1> HIDE DEF after
<1> QED BY <1>1, <1>2, <1>3, ClosedKeeps DEF OnlyRow

LEMMA SettleOnly ==
  ASSUME Shapes, NEW w \in Workers, NEW s \in Done, NEW k \in Keys,
         ops' = Settle(w, s, k)
  PROVE  /\ OnlyRow(job[w].row)
         /\ job[w].row # 0 => ops'[job[w].row].status = s /\ ops'[job[w].row].note = k
<1> DEFINE x == job[w].row
           after == [ops EXCEPT ![x].status = s, ![x].note = k]
<1>1. after \in [OpIds -> Row]
  <2>1. s \in Statuses
    BY DEF Statuses, Done
  <2> QED BY <2>1, OutcomeRows
<1>2. \A o \in OpIds \ {x} : after[o] = ops[o]
  BY DEF Shapes
<1>3. x \in OpIds => after[x].status = s /\ after[x].note = k
  BY DEF Shapes, Row
<1>4. ops' = Closed(w, after)
  BY DEF Settle
<1>5. x \in OpIds \union {0}
  BY DEF Shapes, Job
<1> HIDE DEF after
<1> QED BY <1>1, <1>2, <1>3, <1>4, <1>5, ClosedKeeps DEF OnlyRow

(* A worker that leaves its row, done, to nobody. *)
LEMMA LeavesHeld ==
  ASSUME Shapes, RowsAreHeld, JobsAreHonest, NEW w \in Workers, Leave(w),
         OnlyRow(job[w].row), paid \subseteq paid'
  PROVE  RowsAreHeld' /\ JobsAreHonest' /\ DoneStays
<1>1. \A v \in Workers : job'[v] = IF v = w THEN Idle ELSE job[v]
  BY DEF Leave, Shapes
<1>2. \A v \in Workers : job[v].row \in OpIds \union {0} /\ job[v].of \in OpIds \union {0}
  BY DEF Shapes, Job
<1>3. DoneStays
  BY <1>2, OpIdsAssumption DEF OnlyRow, DoneStays, RowsAreHeld, Done
<1>4. RowsAreHeld'
  BY <1>1, <1>2 DEF RowsAreHeld, OnlyRow, Idle
<1>5. JobsAreHonest'
  BY <1>1, <1>2, <1>3 DEF JobsAreHonest, DoneStays, Idle, Noted
<1> QED BY <1>3, <1>4, <1>5

(* Nothing new was linked, and what was known still is. *)
LEMMA KnownStays ==
  ASSUME UnpaidNoteIsKnown, adopted = {}, DoneStays, paid \subseteq paid',
         \A l \in links' : l \in links \/ l.amount = 0 \/ l.key \in paid'
  PROVE  UnpaidNoteIsKnown'
BY DEF UnpaidNoteIsKnown, DoneStays, Done, Retryable

(* A step that leaves rows and jobs' places alone. *)
LEMMA StillHeld ==
  ASSUME Shapes, RowsAreHeld, JobsAreHonest, OnlyRow(0), job' = job, paid \subseteq paid'
  PROVE  RowsAreHeld' /\ JobsAreHonest' /\ DoneStays
<1>1. \A v \in Workers : job[v].row \in OpIds \union {0} /\ job[v].of \in OpIds \union {0}
  BY DEF Shapes, Job
<1>2. DoneStays /\ \A o \in OpIds : ops'[o].status = ops[o].status
  BY OpIdsAssumption DEF OnlyRow, DoneStays
<1> QED BY <1>1, <1>2 DEF RowsAreHeld, JobsAreHonest, DoneStays

(* A step that takes a free row into use and leaves the jobs alone. *)
LEMMA QueuedHeld ==
  ASSUME Shapes, RowsAreHeld, JobsAreHonest, NEW amount, Enqueue(amount), job' = job,
         paid' = paid
  PROVE  RowsAreHeld' /\ JobsAreHonest' /\ DoneStays
<1>1. ops' = ops \/ \E x \in OpIds : ops[x].status = "FREE" /\ OnlyRow(x)
  <2>1. CASE ops' # ops
    <3>1. FreeRows # {} /\ \A o \in OpIds \ {NextRow} : ops'[o] = ops[o]
      BY <2>1 DEF Enqueue, Shapes
    <3> QED BY <3>1, NextRowIsFree DEF FreeRows, OnlyRow
  <2> QED BY <2>1
<1>2. \A v \in Workers : job[v].row \in OpIds \union {0} /\ job[v].of \in OpIds \union {0}
  BY DEF Shapes, Job
<1>3. DoneStays /\ \A o \in OpIds : ops[o].status = "RUNNING" => ops'[o].status = "RUNNING"
  BY <1>1 DEF OnlyRow, DoneStays, Done
<1> QED BY <1>2, <1>3 DEF RowsAreHeld, JobsAreHonest, DoneStays

(* Each step keeps it. *)
LEMMA StepKnown ==
  ASSUME IInv, Known, [Next]_vars, adopted' = {}
  PROVE  RowsAreHeld' /\ JobsAreHonest' /\ UnpaidNoteIsKnown'
<1> DEFINE Goal == RowsAreHeld' /\ JobsAreHonest' /\ UnpaidNoteIsKnown'
<1>0. adopted = {}
  <2>1. \A w \in Workers : Prepare(w) => adopted \subseteq adopted'
    BY ZenonT(60) DEF Prepare, Start
  <2>2. ~(\E w \in Workers : Prepare(w)) => adopted' = adopted
    BY Zenon DEF Next, CreateXeroCreditNote, vars, ledger, RecordRefund, EnqueueStep, LoseEnqueue,
           ReconcileCredits, QueueRetry, ClaimRow, ClaimRetry, Look, CloseCovered,
           SkipLegacy, CreateNote, RefuseNote, PayNote, RecordNote, FailJob,
           RepairPartial, Crash, ResetStale
  <2> QED BY <2>1, <2>2
<1>a. Shapes /\ RowsAreHeld /\ JobsAreHonest /\ UnpaidNoteIsKnown
  BY <1>0 DEF Known, IInv
<1> USE <1>0, <1>a
<1>1. CASE RecordRefund \/ (\E s \in 1..Steps : LoseEnqueue(s)) \/ UNCHANGED vars
  <2>1. UNCHANGED <<ops, job, paid, links>>
    BY <1>1 DEF RecordRefund, LoseEnqueue, vars
  <2>2. OnlyRow(0)
    BY <2>1 DEF OnlyRow
  <2> QED BY <2>1, <2>2, StillHeld, KnownStays
<1>2. CASE (\E s \in 1..Steps : EnqueueStep(s)) \/ ReconcileCredits
  <2>1. UNCHANGED <<job, paid, links>> /\ \E amount : Enqueue(amount)
    BY <1>2 DEF EnqueueStep, ReconcileCredits
  <2> QED BY <2>1, QueuedHeld, KnownStays
<1>3. ASSUME NEW o \in OpIds, QueueRetry(o)
      PROVE  Goal
  <2>1. UNCHANGED <<job, paid, links>> /\ ops' = [ops EXCEPT ![o].retry = "PENDING"]
    BY <1>3 DEF QueueRetry
  <2>2. OnlyRow(0)
    BY <2>1 DEF OnlyRow, Shapes, Row
  <2> QED BY <2>1, <2>2, StillHeld, KnownStays
<1>4. ASSUME NEW w \in Workers, NEW o \in OpIds, ClaimRow(w, o)
      PROVE  Goal
  <2>1. /\ UNCHANGED <<paid, links>> /\ ops[o].status = "PENDING"
        /\ ops' = [ops EXCEPT ![o].status = "RUNNING"]
    BY <1>4 DEF ClaimRow
  <2>2. job' = [job EXCEPT ![w] = job'[w]] /\ job'[w].row = o /\ job'[w].at = "look"
    BY <1>4 DEF ClaimRow, Idle, Shapes
  <2>3. OnlyRow(o) /\ ops'[o].status = "RUNNING"
    BY <2>1 DEF OnlyRow, Shapes, Row
  <2>4. DoneStays
    BY <2>1, <2>3 DEF DoneStays, OnlyRow, Done
  <2>5. \A v \in Workers : /\ job[v].row \in OpIds \union {0} /\ job[v].of \in OpIds \union {0}
                           /\ job[v].row # o /\ (v # w => job'[v] = job[v])
    <3>1. \A v \in Workers : job[v].row \in OpIds \union {0} /\ job[v].of \in OpIds \union {0}
      BY DEF Shapes, Job
    <3>2. \A v \in Workers : v # w => job'[v] = job[v]
      BY <2>2 DEF Shapes
    <3>3. \A v \in Workers : job[v].row # o
      BY <2>1, OpIdsAssumption DEF RowsAreHeld
    <3> QED BY <3>1, <3>2, <3>3
  <2>6. RowsAreHeld'
    BY <2>2, <2>3, <2>5 DEF RowsAreHeld, OnlyRow
  <2>7. JobsAreHonest'
    BY <2>1, <2>2, <2>4, <2>5 DEF JobsAreHonest, DoneStays, Noted
  <2> QED BY <2>1, <2>4, <2>6, <2>7, KnownStays
<1>5. ASSUME NEW w \in Workers, NEW o \in OpIds, ClaimRetry(w, o)
      PROVE  Goal
  <2>1. UNCHANGED <<paid, links>> /\ \E r : ops' = [ops EXCEPT ![o].retry = r]
    BY <1>5 DEF ClaimRetry
  <2>2. OnlyRow(0)
    BY <2>1 DEF OnlyRow, Shapes, Row
  <2>3. CASE job' = job
    BY <2>1, <2>2, <2>3, StillHeld, KnownStays
  <2>4. CASE job' # job
    <3>1. /\ job' = [job EXCEPT ![w] = job'[w]] /\ ops[o].status \in Retryable
          /\ job'[w].row = 0 /\ job'[w].of = o
          /\ \/ job'[w].at = "look"
             \/ job'[w].at = "repair" /\ job'[w].key = ops[o].note
      <4>1. CASE ops[o].note # NoNote
        <5>1. ops[o].status \in Retryable /\ job' = [job EXCEPT ![w] =
                [Idle EXCEPT !.at = "repair", !.of = o, !.key = ops[o].note]]
          BY <1>5, <2>4, <4>1 DEF ClaimRetry
        <5> QED BY <5>1 DEF Idle, Shapes
      <4>2. CASE ops[o].note = NoNote
        <5>1. ops[o].status \in Retryable /\ job' = [job EXCEPT ![w] =
                [Idle EXCEPT !.at = "look", !.of = o, !.amount = ops[o].amount,
                             !.delta = ops[o].queued]]
          BY <1>5, <2>4, <4>2 DEF ClaimRetry
        <5> QED BY <5>1 DEF Idle, Shapes
      <4> QED BY <4>1, <4>2
    <3>2. \A v \in Workers : /\ job[v].row \in OpIds \union {0} /\ job[v].of \in OpIds \union {0}
                             /\ (v # w => job'[v] = job[v])
      BY <3>1 DEF Shapes, Job
    <3>3. DoneStays /\ \A p \in OpIds : ops'[p].status = ops[p].status /\ ops'[p].note = ops[p].note
      BY <2>2, OpIdsAssumption DEF OnlyRow, DoneStays
    <3>4. RowsAreHeld'
      BY <3>1, <3>2, <3>3 DEF RowsAreHeld
    <3>5. JobsAreHonest'
      BY <2>1, <3>1, <3>2, <3>3, OpIdsAssumption DEF JobsAreHonest, Noted, Done, Retryable
    <3> QED BY <2>1, <3>3, <3>4, <3>5, KnownStays
  <2> QED BY <2>3, <2>4
<1>6. ASSUME NEW w \in Workers, Look(w) \/ PayNote(w)
      PROVE  Goal
  <2>1. UNCHANGED <<ops, links>> /\ paid \subseteq paid'
    BY <1>6 DEF Look, PayNote
  <2>2. /\ job' = [job EXCEPT ![w] = job'[w]] /\ job'[w].row = job[w].row
        /\ job'[w].of = job[w].of /\ job'[w].key = job[w].key
        /\ \/ job'[w].at = "count"
           \/ job'[w].at = "record" /\ job[w].key \in paid' /\ job[w].row # 0
           \/ job'[w].at = "recordPartial" /\ job[w].row # 0
    BY <1>6 DEF Look, PayNote, Step, Shapes, Job, JobsAreHonest, Noted
  <2>3. \A v \in Workers : v # w => job'[v] = job[v]
    BY <2>2 DEF Shapes
  <2>4. RowsAreHeld' /\ DoneStays
    BY <2>1, <2>2, <2>3 DEF RowsAreHeld, DoneStays
  <2>5. JobsAreHonest'
    BY <2>1, <2>2, <2>3 DEF JobsAreHonest, Noted
  <2> QED BY <2>1, <2>4, <2>5, KnownStays
<1>7. ASSUME NEW w \in Workers, CloseCovered(w)
      PROVE  Goal
  <2>1. Leave(w) /\ UNCHANGED <<paid, links>>
    BY <1>7 DEF CloseCovered
  <2>2. OnlyRow(job[w].row)
    <3>1. CASE job[w].row = 0
      BY <1>7, <3>1, ClosedOnly DEF CloseCovered
    <3>2. CASE job[w].row # 0
      <4>1. PICK l \in links : ops' = Settle(w, "SUCCEEDED", l.key)
        BY <1>7, <3>2 DEF CloseCovered
      <4>2. l.key \in Keys
        BY DEF Shapes
      <4> QED BY <4>1, <4>2, SettleOnly DEF Done
    <3> QED BY <3>1, <3>2
  <2> QED BY <2>1, <2>2, LeavesHeld, KnownStays
<1>8. ASSUME NEW w \in Workers, SkipLegacy(w)
      PROVE  Goal
  <2>1. Leave(w) /\ UNCHANGED paid /\ ops' = Closed(w, ops)
    BY <1>8 DEF SkipLegacy
  <2>2. \A l \in links' : l \in links \/ l.amount = 0
    BY <1>8 DEF SkipLegacy
  <2>3. OnlyRow(job[w].row)
    BY <2>1, ClosedOnly, OpIdsAssumption DEF OnlyRow
  <2> QED BY <2>1, <2>2, <2>3, LeavesHeld, KnownStays
<1>9. ASSUME NEW w \in Workers, Prepare(w)
      PROVE  Goal
  <2>1. PICK c \in 1..refunded, k \in Keys : Start(w, c, k)
    BY <1>9, PreparedFits DEF IInv
  <2>2. UNCHANGED <<paid, links>>
    BY <1>9 DEF Prepare
  <2>3. \A v \in Workers : job[v].row \in OpIds \union {0} /\ job[v].of \in OpIds \union {0}
    BY DEF Shapes, Job
  <2>4. CASE job[w].row # 0
    <3>1. /\ ops' = [ops EXCEPT ![job[w].row].amount = c]
          /\ job' = [job EXCEPT ![w].at = "send", ![w].amount = c, ![w].key = k]
      BY <2>1, <2>4 DEF Start
    <3>2. OnlyRow(0)
      BY <3>1 DEF OnlyRow, Shapes, Row
    <3>3. /\ job'[w].row = job[w].row /\ job'[w].at = "send"
          /\ \A v \in Workers : v # w => job'[v] = job[v]
      BY <3>1 DEF Shapes, Job
    <3>4. DoneStays /\ \A p \in OpIds : ops'[p].status = ops[p].status
      BY <3>2, OpIdsAssumption DEF OnlyRow, DoneStays
    <3>5. RowsAreHeld'
      BY <2>3, <3>3, <3>4 DEF RowsAreHeld
    <3>6. JobsAreHonest'
      BY <2>2, <2>3, <2>4, <3>3, <3>4 DEF JobsAreHonest, DoneStays, Noted
    <3> QED BY <2>2, <3>4, <3>5, <3>6, KnownStays
  <2>5. CASE job[w].row = 0
    <3>1. /\ FreeRows # {}
          /\ ops' = [ops EXCEPT ![NextRow] = NewRow("RUNNING", k, c, FALSE)]
          /\ job' = [job EXCEPT ![w].at = "send", ![w].amount = c, ![w].key = k,
                                ![w].row = NextRow]
      BY <2>1, <2>5 DEF Start
    <3>2. NextRow \in OpIds /\ ops[NextRow].status = "FREE" /\ NextRow # 0
      BY <3>1, NextRowIsFree, OpIdsAssumption DEF FreeRows
    <3>3. OnlyRow(NextRow) /\ ops'[NextRow].status = "RUNNING"
      BY <3>1, <3>2 DEF OnlyRow, Shapes, NewRow
    <3>4. /\ job'[w].row = NextRow /\ job'[w].at = "send"
          /\ \A v \in Workers : v # w => job'[v] = job[v]
      BY <3>1 DEF Shapes, Job
    <3>5. DoneStays
      BY <3>2, <3>3 DEF OnlyRow, DoneStays, Done
    <3>6. RowsAreHeld'
      BY <2>3, <3>2, <3>3, <3>4 DEF RowsAreHeld, OnlyRow
    <3>7. JobsAreHonest'
      BY <2>2, <2>3, <3>2, <3>4, <3>5 DEF JobsAreHonest, DoneStays, Noted
    <3> QED BY <2>2, <3>5, <3>6, <3>7, KnownStays
  <2> QED BY <2>4, <2>5
<1>10. ASSUME NEW w \in Workers, CreateNote(w)
       PROVE  Goal
  <2>1. UNCHANGED <<paid, links>>
    BY <1>10 DEF CreateNote
  <2>2. CASE Leave(w)
    <3>1. ops' = ops \/ ops' = Failed(w)
      BY <1>10, <2>2 DEF CreateNote
    <3>2. OnlyRow(job[w].row)
      BY <3>1, FailedOnly DEF OnlyRow
    <3> QED BY <2>1, <2>2, <3>2, LeavesHeld, KnownStays
  <2>3. CASE job' = [job EXCEPT ![w].at = "pay"] /\ ops' = ops
    <3>1. /\ job'[w].row = job[w].row /\ job'[w].at = "pay" /\ job[w].row # 0
          /\ \A v \in Workers : v # w => job'[v] = job[v]
      BY <1>10, <2>3 DEF CreateNote, Step, Shapes, Job, JobsAreHonest
    <3>2. RowsAreHeld' /\ DoneStays
      BY <2>3, <3>1 DEF RowsAreHeld, DoneStays
    <3>3. JobsAreHonest'
      BY <2>1, <2>3, <3>1 DEF JobsAreHonest, Noted
    <3> QED BY <2>1, <3>2, <3>3, KnownStays
  <2> QED BY <1>10, <2>2, <2>3 DEF CreateNote
<1>11. ASSUME NEW w \in Workers, RefuseNote(w) \/ FailJob(w) \/ Crash(w)
       PROVE  Goal
  <2>1. Leave(w) /\ UNCHANGED <<paid, links>> /\ (ops' = Failed(w) \/ ops' = ops)
    BY <1>11 DEF RefuseNote, FailJob, Crash
  <2>2. OnlyRow(job[w].row)
    BY <2>1, FailedOnly DEF OnlyRow
  <2> QED BY <2>1, <2>2, LeavesHeld, KnownStays
<1>12. ASSUME NEW w \in Workers, RecordNote(w)
       PROVE  Goal
  <2>1. /\ Leave(w) /\ UNCHANGED paid /\ links' = Linked(Request(w))
        /\ job[w].at \in {"record", "recordPartial"}
    BY <1>12 DEF RecordNote
  <2>2. job[w].key \in Keys /\ job[w].row # 0 /\ job[w].row \in OpIds
    BY <2>1 DEF IInv, JobsAreSound, Sound, JobsAreHonest, Noted, Shapes, Job
  <2>3. PICK s \in {"SUCCEEDED", "PARTIAL"} :
          ops' = Settle(w, s, job[w].key) /\ (s = "SUCCEEDED" => job[w].at = "record")
    BY <1>12, <2>1 DEF RecordNote, Step
  <2>4. /\ OnlyRow(job[w].row)
        /\ ops'[job[w].row].status = s /\ ops'[job[w].row].note = job[w].key
    BY <2>2, <2>3, SettleOnly DEF Done
  <2>5. RowsAreHeld' /\ JobsAreHonest' /\ DoneStays
    BY <2>1, <2>4, LeavesHeld
  <2>6. job[w].key \in paid \/ (ops'[job[w].row].status \in Retryable
                                /\ ops'[job[w].row].note = job[w].key)
    BY <2>1, <2>3, <2>4 DEF JobsAreHonest, Retryable
  <2>7. \A l \in links' : l \in links \/ l.key = job[w].key
    BY <2>1 DEF Linked, Request
  <2>8. UnpaidNoteIsKnown'
    BY <2>1, <2>2, <2>5, <2>6, <2>7 DEF UnpaidNoteIsKnown, DoneStays, Done, Retryable
  <2> QED BY <2>5, <2>8
<1>13. ASSUME NEW w \in Workers, RepairPartial(w)
       PROVE  Goal
  <2>1. Leave(w) /\ UNCHANGED links /\ paid \subseteq paid' /\ job[w].at = "repair"
    BY <1>13 DEF RepairPartial, Step
  <2>2. CASE ops' = Closed(w, ops)
    <3>1. OnlyRow(job[w].row)
      BY <2>2, ClosedOnly, OpIdsAssumption DEF OnlyRow
    <3> QED BY <2>1, <3>1, LeavesHeld, KnownStays
  <2>3. CASE ops' = Closed(w, [ops EXCEPT ![job[w].of].status = "SUCCEEDED"])
             /\ paid' = paid \union {job[w].key}
    <3> DEFINE x == job[w].of
               after == [ops EXCEPT ![x].status = "SUCCEEDED"]
    <3>1. x \in OpIds /\ ops[x].status \in Done /\ ops[x].note = job[w].key
      BY <2>1 DEF JobsAreHonest, Shapes, Job
    <3>2. after \in [OpIds -> Row]
      BY ZenonT(60) DEF Shapes, Row, Statuses
    <3>3. /\ \A o \in OpIds \ {x} : after[o] = ops[o]
          /\ after[x].status = "SUCCEEDED" /\ after[x].note = ops[x].note
      BY <3>1 DEF Shapes, Row
    <3>4. OnlyRow(x) /\ ops'[x].status = "SUCCEEDED" /\ ops'[x].note = ops[x].note
      <4> HIDE DEF after
      <4> QED BY <2>3, <3>1, <3>2, <3>3, ClosedKeeps, ZenonT(60) DEF OnlyRow, after
    <3>5. \A v \in Workers : /\ job[v].row \in OpIds \union {0} /\ job[v].of \in OpIds \union {0}
                             /\ job'[v] = IF v = w THEN Idle ELSE job[v]
      BY <2>1 DEF Leave, Shapes, Job
    <3>6. RowsAreHeld'
      BY <3>1, <3>4, <3>5 DEF RowsAreHeld, OnlyRow, Done, Idle
    <3>7. JobsAreHonest'
      BY <2>1, <3>1, <3>4, <3>5 DEF JobsAreHonest, OnlyRow, Done, Idle, Noted
    <3>8. UnpaidNoteIsKnown'
      <4>1. ASSUME NEW l \in links, l.amount # 0, l.key \notin paid'
            PROVE  \E o \in OpIds : ops'[o].status \in Retryable /\ ops'[o].note = l.key
        <5>1. PICK o \in OpIds : ops[o].status \in Retryable /\ ops[o].note = l.key
          BY <2>1, <4>1 DEF UnpaidNoteIsKnown
        <5>2. o # x
          BY <2>3, <3>1, <4>1, <5>1
        <5> QED BY <3>4, <5>1, <5>2 DEF OnlyRow
      <4> QED BY <2>1, <4>1 DEF UnpaidNoteIsKnown
    <3> QED BY <3>6, <3>7, <3>8
  <2> QED BY <1>13, <2>2, <2>3 DEF RepairPartial
<1>14. CASE ResetStale
  <2>1. UNCHANGED <<job, paid, links>>
    BY <1>14, Zenon DEF ResetStale
  <2>2. \A o \in OpIds : /\ ops'[o].note = ops[o].note
                         /\ ops'[o].status = IF ops[o].status = "RUNNING" /\ ~Held(o)
                                             THEN "FAILED" ELSE ops[o].status
    BY <1>14 DEF ResetStale, Shapes, Row
  <2>3. \A v \in Workers : job[v].row \in OpIds \union {0} /\ job[v].of \in OpIds \union {0}
    BY DEF Shapes, Job
  <2>4. DoneStays
    BY <2>2 DEF DoneStays, Done
  <2>5. RowsAreHeld'
    BY <2>1, <2>2, <2>3 DEF RowsAreHeld, Held
  <2>6. JobsAreHonest'
    BY <2>1, <2>3, <2>4 DEF JobsAreHonest, DoneStays
  <2> QED BY <2>1, <2>4, <2>5, <2>6, KnownStays
<1> QED
  BY <1>1, <1>2, <1>3, <1>4, <1>5, <1>6, <1>7, <1>8, <1>9, <1>10, <1>11, <1>12, <1>13,
     <1>14 DEF Next, CreateXeroCreditNote

(* A note recorded without its refund payment can be found by the operator: *)
(* its operation is one to retry, whatever crashed, was lost, or was        *)
(* repaired meanwhile - as long as no retry was given another worker's row. *)
THEOREM UnpaidNotesAreKnown == Spec => []UnpaidNoteIsKnown
<1>1. Init => Known
  BY DEF Init, Known, RowsAreHeld, JobsAreHonest, UnpaidNoteIsKnown, Idle, Noted
<1>2. IInv /\ Known /\ [Next]_vars => Known'
  BY StepKnown DEF Known
<1>3. Known => UnpaidNoteIsKnown
  BY DEF Known, UnpaidNoteIsKnown
<1> QED BY <1>1, <1>2, <1>3, Invariant, PTL DEF Spec

----------------------------------------------------------------------------
(* The running total.                                                       *)

(* What the links of one set carry, together. *)
Covers(L) == Sum([l \in L |-> l.amount], L)

(* The links are finitely many, and the running total is their sum. *)
TotalIsRight == IsFiniteSet(links) /\ covered = Covers(links)

(* A link without cents adds nothing; a link under a new name adds its own. *)
LEMMA LinkAdds ==
  ASSUME NEW L, IsFiniteSet(L), \A l \in L : l.amount \in Nat,
         NEW k, k \notin L, k.amount \in Nat
  PROVE  IsFiniteSet(L \union {k}) /\ Covers(L \union {k}) = Covers(L) + k.amount
<1> DEFINE M == L \union {k}
           f == [l \in M |-> l.amount]
           g == [l \in L |-> l.amount]
<1>1. IsFiniteSet(M)
  BY FS_AddElement
<1>2. \A l \in M : f[l] \in Int /\ f[l] = l.amount
  OBVIOUS
<1>3. Sum(f, M) = f[k] + Sum(f, L)
  <2> HIDE DEF f
  <2> QED BY <1>2, SumAdd
<1>4. \A l \in L : g[l] \in Int /\ f[l] = g[l]
  OBVIOUS
<1>5. Sum(f, L) = Sum(g, L) /\ Sum(g, L) \in Int
  <2> HIDE DEF f, g
  <2> QED BY <1>4, SumSame, SumInt
<1>6. f[k] = k.amount
  OBVIOUS
<1>7. Covers(M) = Sum(f, M) /\ Covers(L) = Sum(g, L)
  BY DEF Covers
<1>8. Covers(M) = Covers(L) + k.amount
  <2> HIDE DEF f, g, M
  <2> QED BY <1>3, <1>5, <1>6, <1>7
<1> QED BY <1>1, <1>8

LEMMA LinkLeaves ==
  ASSUME NEW L, IsFiniteSet(L), \A l \in L : l.amount \in Nat,
         NEW k \in L, k.amount = 0
  PROVE  IsFiniteSet(L \ {k}) /\ Covers(L \ {k}) = Covers(L)
<1> DEFINE M == L \ {k}
<1>1. IsFiniteSet(M)
  BY FS_RemoveElement
<1>2. Covers(M \union {k}) = Covers(M) + k.amount
  BY <1>1, LinkAdds
<1>3. M \union {k} = L
  OBVIOUS
<1>4. Covers(M) \in Int
  <2> DEFINE g == [l \in M |-> l.amount]
  <2>1. \A l \in M : g[l] \in Int
    OBVIOUS
  <2>2. Sum(g, M) \in Int
    <3> HIDE DEF g
    <3> QED BY <1>1, <2>1, SumInt
  <2> QED BY <2>2 DEF Covers
<1>5. Covers(L) = Covers(M) + 0
  BY <1>2, <1>3
<1>6. Covers(L) = Covers(M)
  <2> HIDE DEF M
  <2> QED BY <1>4, <1>5
<1> QED BY <1>1, <1>6

(* Every step keeps the total.  Recording a note overwrites the link of its *)
(* name: that one either says the same, and nothing changes, or was made by *)
(* a retry without the note and says no cents.                               *)
LEMMA StepTotal ==
  ASSUME IInv, TotalIsRight, [Next]_vars
  PROVE  TotalIsRight'
<1> USE DEF IInv
<1>1. \A l \in links : l.amount \in Nat
  BY DEF Shapes
<1>2. CASE UNCHANGED <<links, covered>>
  BY <1>2 DEF TotalIsRight, Covers
<1>3. ASSUME NEW w \in Workers, SkipLegacy(w)
      PROVE  TotalIsRight'
  <2> DEFINE k == [key |-> field, amount |-> 0]
  <2>1. covered' = covered /\ (links' = links \/ links' = links \union {k})
    BY <1>3 DEF SkipLegacy
  <2>2. CASE links' = links
    BY <2>1, <2>2 DEF TotalIsRight, Covers
  <2>3. CASE links' = links \union {k} /\ k \notin links
    <3>1. IsFiniteSet(links') /\ Covers(links') = Covers(links) + 0
      BY <1>1, <2>3, LinkAdds DEF TotalIsRight
    <3>2. covered \in Int
      BY DEF Shapes
    <3> QED BY <2>1, <3>1, <3>2 DEF TotalIsRight, Covers
  <2>4. CASE links' = links \union {k} /\ k \in links
    BY <2>1, <2>2, <2>4
  <2> QED BY <2>1, <2>2, <2>3, <2>4
<1>4. ASSUME NEW w \in Workers, RecordNote(w)
      PROVE  TotalIsRight'
  <2> DEFINE k == Request(w)
             rest == {l \in links : l.key # k.key}
  <2>1. /\ links' = rest \union {k}
        /\ covered' = IF k \in links THEN covered ELSE covered + k.amount
        /\ k \in notes /\ k.amount \in Nat
    BY <1>4 DEF RecordNote, Linked, Request, JobsAreSound, Sound, Noted, Shapes, Job
  <2>2. \A l \in links : l.key = k.key => l.amount \in {0, k.amount}
    BY <2>1 DEF LinksMatchNotes
  <2>3. CASE k \in links
    <3>1. rest \union {k} = links
      BY <2>3 DEF LinksMatchNotes
    <3> QED BY <2>1, <2>3, <3>1, <1>2
  <2>4. CASE k \notin links
    <3>1. IsFiniteSet(rest) /\ Covers(rest) = covered
      <4>1. CASE rest = links
        BY <4>1 DEF TotalIsRight
      <4>2. CASE rest # links
        <5>1. PICK old \in links : old.key = k.key
          BY <4>2
        <5>2. rest = links \ {old}
          BY <5>1 DEF LinksMatchNotes
        <5>3. old.amount = 0
          <6>1. old = [key |-> old.key, amount |-> old.amount]
            BY DEF Shapes
          <6>2. k = [key |-> k.key, amount |-> k.amount]
            BY DEF Request
          <6> QED BY <2>2, <2>4, <5>1, <6>1, <6>2
        <5> QED BY <1>1, <5>2, <5>3, LinkLeaves DEF TotalIsRight
      <4> QED BY <4>1, <4>2
    <3>2. \A l \in rest : l.amount \in Nat
      BY <1>1
    <3>3. k \notin rest
      BY <2>4
    <3> HIDE DEF rest, k
    <3>4. IsFiniteSet(rest \union {k}) /\ Covers(rest \union {k}) = Covers(rest) + k.amount
      BY <2>1, <3>1, <3>2, <3>3, LinkAdds
    <3> QED BY <2>1, <2>4, <3>1, <3>4 DEF TotalIsRight, Covers
  <2> QED BY <2>3, <2>4
<1> QED
  BY <1>2, <1>3, <1>4
  DEF Next, vars, ledger, CreateXeroCreditNote, RecordRefund, EnqueueStep, LoseEnqueue,
      ReconcileCredits, QueueRetry, ClaimRow, ClaimRetry, Look, CloseCovered, Prepare,
      CreateNote, RefuseNote, PayNote, FailJob, RepairPartial, Crash, ResetStale

(* Type correctness: in every reachable state the variables hold what they  *)
(* may, and the running total is the sum the code computes over the active  *)
(* links - whichever worker linked a note first, and with what metadata.    *)
THEOREM TypeCorrect == Spec => []TypeOK
<1>1. Init => TotalIsRight
  <2>1. ASSUME Init
        PROVE  Covers({}) = 0
    BY SumEmpty DEF Covers
  <2> QED BY <2>1, FS_EmptySet DEF Init, TotalIsRight, Covers
<1>2. IInv /\ TotalIsRight /\ [Next]_vars => TotalIsRight'
  BY StepTotal
<1>3. IInv /\ TotalIsRight => TypeOK
  BY DEF IInv, TotalIsRight, TypeOK, Covers
<1> QED BY <1>1, <1>2, <1>3, Invariant, PTL DEF Spec

============================================================================
