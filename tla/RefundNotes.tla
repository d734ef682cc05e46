---------------------------- MODULE RefundNotes ----------------------------
(***************************************************************************)
(* The Xero outbox for the refund credit notes of one card payment.  A     *)
(* refund is recorded in the payment's ledger in steps; every step queues  *)
(* an operation row, a worker claims the row and creates the note in Xero, *)
(* and an operator retries what failed.  Rows of other queue types go      *)
(* through the same claim, completion and failure.                         *)
(***************************************************************************)
EXTENDS Integers, FiniteSets, Sums

CONSTANTS
  Workers,      \* runs of the outbox worker or of the retry worker
  Steps,        \* how many times the card is refunded
  Delta,        \* the cents of each step
  OpIds,        \* the operation rows there is room for (bound)
  MaxFaults     \* crashes, errors and lost answers of one behaviour (bound)

ASSUME StepsAssumption == Steps \in Nat
ASSUME DeltaAssumption == Delta \in [1..Steps -> Nat \ {0}]
ASSUME OpIdsAssumption == OpIds \subseteq Nat \ {0}
ASSUME FaultsAssumption == MaxFaults \in Nat

VARIABLES
  step,      \* the refund steps recorded so far
  refunded,  \* payment.refundedAmountCents
  unsent,    \* recorded steps whose enqueue call has not run yet
  lost,      \* recorded steps whose enqueue call failed
  ops,       \* the XeroSyncOperation rows of this payment's notes
  links,     \* the active REFUND_CREDIT_NOTE links with their metadata amount
  covered,   \* what the links cover, kept as a running total
  field,     \* payment.xeroRefundCreditNoteId
  notes,     \* the credit notes Xero holds
  paid,      \* the notes whose refund payment Xero holds
  adopted,   \* rows a retry was given although it had not claimed them
  job,       \* what each worker is in the middle of
  faults

ledger == <<step, refunded, unsent, lost>>
vars == <<step, refunded, unsent, lost, ops, links, covered, field, notes, paid,
          adopted, job, faults>>

-----------------------------------------------------------------------------
(* Rows, keys and notes.  A note is named by the idempotency key it was     *)
(* created under: Xero answers a repeated key with the note it holds.       *)

Active == {"PENDING", "RUNNING"}
Retryable == {"FAILED", "PARTIAL"}

DeltaKey(watermark) == <<"v2", watermark>>
LegacyKey(amount) == <<"v1", amount>>
NoNote == <<"none", 0>>
Keys == {"v1", "v2"} \X (Nat \ {0})

FreeRow == [status |-> "FREE", key |-> NoNote, amount |-> 0, queued |-> FALSE,
            note |-> NoNote, retry |-> "none"]

NewRow(status, key, amount, queued) ==
  [status |-> status, key |-> key, amount |-> amount, queued |-> queued,
   note |-> NoNote, retry |-> "none"]

Idle == [at |-> "idle", row |-> 0, of |-> 0, amount |-> 0, delta |-> FALSE,
         seen |-> 0, key |-> NoNote]

Lesser(a, b) == IF a < b THEN a ELSE b

ActiveWith(key) == {o \in OpIds : ops[o].status \in Active /\ ops[o].key = key}
FreeRows == {o \in OpIds : ops[o].status = "FREE"}
NextRow == CHOOSE o \in FreeRows : \A p \in FreeRows : o <= p

Uncovered == refunded - covered

Fault == faults < MaxFaults /\ faults' = faults + 1

-----------------------------------------------------------------------------
(* Recording a refund and queueing its note.                                *)

RecordRefund ==
  /\ step < Steps
  /\ step' = step + 1
  /\ refunded' = refunded + Delta[step + 1]
  /\ unsent' = unsent \union {step + 1}
  /\ UNCHANGED <<lost, ops, links, covered, field, notes, paid, adopted, job, faults>>

(* The amount is capped by what no note covers, and the watermark is the    *)
(* total covered once this note exists.  A row in flight under the same     *)
(* watermark takes the place of a new one.                                  *)
Enqueue(amount) ==
  LET note == Lesser(amount, Uncovered)
      key  == DeltaKey(covered + note)
  IN IF note <= 0 \/ ActiveWith(key) # {}
     THEN ops' = ops
     ELSE /\ FreeRows # {}
          /\ ops' = [ops EXCEPT ![NextRow] = NewRow("PENDING", key, note, TRUE)]

EnqueueStep(s) ==
  /\ s \in unsent
  /\ unsent' = unsent \ {s}
  /\ Enqueue(Delta[s])
  /\ UNCHANGED <<step, refunded, lost, links, covered, field, notes, paid, adopted,
                 job, faults>>

(* The enqueue runs after the ledger's commit and its errors are only       *)
(* logged.                                                                  *)
LoseEnqueue(s) ==
  /\ s \in unsent
  /\ unsent' = unsent \ {s}
  /\ lost' = lost \union {s}
  /\ UNCHANGED <<step, refunded, ops, links, covered, field, notes, paid, adopted,
                 job, faults>>

(* Mutant: the reconciliation only looks at payments that have no note at all. *)
ReconcileUnnoted ==
  /\ Uncovered > 0
  /\ field = NoNote
  /\ Enqueue(refunded)
  /\ UNCHANGED <<ledger, adopted, links, covered, field, notes,
                 paid, job, faults>>

(* The daily reconciliation queues whatever the ledger shows uncovered.     *)
ReconcileCredits ==
  /\ Uncovered > 0
  /\ Enqueue(refunded)
  /\ UNCHANGED <<ledger, links, covered, field, notes, paid, adopted,
                 job, faults>>

-----------------------------------------------------------------------------
(* A worker picks up work.                                                  *)

ClaimRow(w, o) ==
  /\ job[w] = Idle
  /\ ops[o].status = "PENDING"
  /\ ops' = [ops EXCEPT ![o].status = "RUNNING"]
  /\ job' = [job EXCEPT ![w] = [Idle EXCEPT !.at = "look", !.row = o,
                                            !.amount = ops[o].amount,
                                            !.delta = TRUE]]
  /\ UNCHANGED <<ledger, adopted, links, covered, field, notes, paid, faults>>

(* An operator's retry is a row of its own, one at a time per operation.    *)
QueueRetry(o) ==
  /\ ops[o].status \in Retryable
  /\ ops[o].status = "PARTIAL" => ops[o].note # NoNote
  /\ ops[o].retry = "none"
  /\ ops' = [ops EXCEPT ![o].retry = "PENDING"]
  /\ UNCHANGED <<ledger, links, covered, field, notes, paid, adopted,
                 job, faults>>

(* The retry worker claims the retry, and asks again whether the operation  *)
(* still is one to retry.  An operation that knows its note is only repaired;*)
(* any other creates the note again, in delta mode when the row was queued  *)
(* by the outbox, and under a row that does not exist yet.                   *)
ClaimRetry(w, o) ==
  /\ job[w] = Idle
  /\ ops[o].retry = "PENDING"
  /\ IF ops[o].status \in Retryable
     THEN /\ ops' = [ops EXCEPT ![o].retry = "RUNNING"]
          /\ job' = [job EXCEPT ![w] =
               IF ops[o].note # NoNote
               THEN [Idle EXCEPT !.at = "repair", !.of = o, !.key = ops[o].note]
               ELSE [Idle EXCEPT !.at = "look", !.of = o,
                                 !.amount = ops[o].amount,
                                 !.delta = ops[o].queued]]
     ELSE /\ ops' = [ops EXCEPT ![o].retry = "none"]
          /\ job' = job
  /\ UNCHANGED <<ledger, adopted, links, covered, field, notes, paid, faults>>

-----------------------------------------------------------------------------
(* Creating the note.  row = 0 stands for an operation not yet started.     *)

Step(w, at) == job[w].at = at

(* The job is over; the retry it worked for, if any, is closed.             *)
Closed(w, rows) ==
  IF job[w].of = 0 THEN rows ELSE [rows EXCEPT ![job[w].of].retry = "none"]

Leave(w) == job' = [job EXCEPT ![w] = Idle]

Settle(w, status, note) ==
  Closed(w, [ops EXCEPT ![job[w].row].status = status, ![job[w].row].note = note])

Failed(w) ==
  Closed(w, IF job[w].row = 0 THEN ops
            ELSE [ops EXCEPT ![job[w].row].status = "FAILED"])

Look(w) ==
  /\ Step(w, "look")
  /\ job' = [job EXCEPT ![w].at = "count", ![w].seen = refunded]
  /\ UNCHANGED <<ledger, adopted, ops, links, covered, field, notes, paid,
                 faults>>

(* Nothing uncovered: the operation is closed against a note that exists.   *)
CloseCovered(w) ==
  /\ Step(w, "count")
  /\ job[w].delta
  /\ job[w].seen <= covered
  /\ \E l \in links :
       /\ field' = l.key
       /\ ops' = IF job[w].row = 0 THEN Closed(w, ops)
                 ELSE Settle(w, "SUCCEEDED", l.key)
  /\ Leave(w)
  /\ UNCHANGED <<ledger, adopted, links, covered, notes, paid, faults>>

(* A retry that lost its delta mode stops at any note the payment has.  A    *)
(* note that was not linked is linked now, without metadata: it counts 0.    *)
SkipLegacy(w) ==
  /\ Step(w, "count")
  /\ ~job[w].delta
  /\ \/ /\ field # NoNote
        /\ field' = field
        /\ links' = IF field \in {l.key : l \in links} THEN links
                    ELSE links \union {[key |-> field, amount |-> 0]}
     \/ /\ field = NoNote
        /\ \E l \in links : field' = l.key
        /\ links' = links
  /\ ops' = Closed(w, ops)
  /\ Leave(w)
  /\ UNCHANGED <<ledger, adopted, covered, notes, paid, faults>>

(* Mutant: the amount asked for at enqueue is billed as it is. *)
BillAsAsked(w) == job[w].amount

Bill(w) == Lesser(job[w].amount, job[w].seen - covered)

(* The payload of a claimed row is overwritten with what will be sent; a    *)
(* retry starts a row, or is given the active one that holds its key.       *)
Start(w, amount, key) ==
  IF job[w].row # 0
  THEN /\ adopted' = adopted
       /\ ops' = [ops EXCEPT ![job[w].row].amount = amount]
       /\ job' = [job EXCEPT ![w].at = "send", ![w].amount = amount, ![w].key = key]
  ELSE \/ \E o \in ActiveWith(key) :
            /\ ops' = ops
            /\ adopted' = adopted \union {o}
            /\ job' = [job EXCEPT ![w].at = "send", ![w].amount = amount,
                                  ![w].key = key, ![w].row = o]
       \/ /\ ActiveWith(key) = {}
          /\ FreeRows # {}
          /\ adopted' = adopted
          /\ ops' = [ops EXCEPT ![NextRow] = NewRow("RUNNING", key, amount, FALSE)]
          /\ job' = [job EXCEPT ![w].at = "send", ![w].amount = amount,
                                ![w].key = key, ![w].row = NextRow]

Prepare(w) ==
  /\ Step(w, "count")
  /\ \/ /\ job[w].delta
        /\ job[w].seen > covered
        /\ Start(w, Bill(w), DeltaKey(covered + Bill(w)))
     \/ /\ ~job[w].delta
        /\ field = NoNote /\ links = {}
        /\ Start(w, job[w].amount, LegacyKey(job[w].amount))
  /\ UNCHANGED <<ledger, links, covered, field, notes, paid, faults>>

(* Xero: a new key makes a note, a known key with the same request answers  *)
(* with the note it made, a known key with another request is refused.      *)
Request(w) == [key |-> job[w].key, amount |-> job[w].amount]
Refused(w) == \E n \in notes : n.key = job[w].key /\ n.amount # job[w].amount

CreateNote(w) ==
  /\ Step(w, "send")
  /\ ~Refused(w)
  /\ notes' = notes \union {Request(w)}
  /\ \/ /\ field' = job[w].key
        /\ job' = [job EXCEPT ![w].at = "pay"]
        /\ UNCHANGED <<ops, faults>>
     \/ /\ Fault          \* the answer is lost, or the process dies with it
        /\ ops' \in {Failed(w), ops}
        /\ Leave(w)
        /\ field' = field
  /\ UNCHANGED <<ledger, adopted, links, covered, paid>>

RefuseNote(w) ==
  /\ Step(w, "send")
  /\ Refused(w)
  /\ ops' = Failed(w)
  /\ Leave(w)
  /\ UNCHANGED <<ledger, adopted, links, covered, field, notes, paid, faults>>

(* The refund payment against the bank account; its error is kept aside.    *)
PayNote(w) ==
  /\ Step(w, "pay")
  /\ \/ /\ paid' = paid \union {job[w].key}
        /\ job' = [job EXCEPT ![w].at = "record"]
        /\ faults' = faults
     \/ /\ Fault
        /\ paid' \in {paid, paid \union {job[w].key}}
        /\ job' = [job EXCEPT ![w].at = "recordPartial"]
  /\ UNCHANGED <<ledger, adopted, ops, links, covered, field, notes>>

(* One link per note; recording it again overwrites its metadata. *)
Linked(l) == {k \in links : k.key # l.key} \union {l}

(* Mutant: the total counts a note again when a second worker links it. *)
RecordNoteCountsTwice(w) ==
  /\ job[w].at \in {"record", "recordPartial"}
  /\ ops' = Settle(w, IF Step(w, "record") THEN "SUCCEEDED" ELSE "PARTIAL",
                   job[w].key)
  /\ links' = Linked(Request(w))
  /\ covered' = covered + job[w].amount
  /\ Leave(w)
  /\ UNCHANGED <<ledger, adopted, field, notes, paid, faults>>

(* Mutant: the link's metadata records the watermark as the amount. *)
RecordNoteAsWatermark(w) ==
  LET link == [key |-> job[w].key, amount |-> job[w].key[2]]
  IN /\ job[w].at \in {"record", "recordPartial"}
     /\ ops' = Settle(w, IF Step(w, "record") THEN "SUCCEEDED" ELSE "PARTIAL",
                      job[w].key)
     /\ links' = Linked(link)
     /\ covered' = IF link \in links THEN covered ELSE covered + link.amount
     /\ Leave(w)
     /\ UNCHANGED <<ledger, adopted, field, notes, paid, faults>>

(* Mutant: the failed refund payment does not make the operation partial. *)
RecordNoteAsDone(w) ==
  /\ job[w].at \in {"record", "recordPartial"}
  /\ ops' = Settle(w, "SUCCEEDED", job[w].key)
  /\ links' = Linked(Request(w))
  /\ covered' = IF Request(w) \in links THEN covered ELSE covered + job[w].amount
  /\ Leave(w)
  /\ UNCHANGED <<ledger, adopted, field, notes, paid, faults>>

(* The row's outcome and the note's link are one transaction.               *)
RecordNote(w) ==
  /\ job[w].at \in {"record", "recordPartial"}
  /\ ops' = Settle(w, IF Step(w, "record") THEN "SUCCEEDED" ELSE "PARTIAL",
                   job[w].key)
  /\ links' = Linked(Request(w))
  /\ covered' = IF Request(w) \in links THEN covered ELSE covered + job[w].amount
  /\ Leave(w)
  /\ UNCHANGED <<ledger, adopted, field, notes, paid, faults>>

(* The repair of a partial operation: pay the note again, close the row.    *)
RepairPartial(w) ==
  /\ Step(w, "repair")
  /\ \/ /\ paid' = paid \union {job[w].key}
        /\ ops' = Closed(w, [ops EXCEPT ![job[w].of].status = "SUCCEEDED"])
        /\ faults' = faults
     \/ /\ Fault
        /\ paid' \in {paid, paid \union {job[w].key}}
        /\ ops' = Closed(w, ops)
  /\ field' = job[w].key
  /\ Leave(w)
  /\ UNCHANGED <<ledger, adopted, links, covered, notes>>

(* An error before Xero is asked, or in the last transaction.               *)
FailJob(w) ==
  /\ job[w].at \in {"look", "count", "send", "record", "recordPartial"}
  /\ Fault
  /\ ops' = Failed(w)
  /\ Leave(w)
  /\ UNCHANGED <<ledger, adopted, links, covered, field, notes, paid>>

(* The process dies: the row, and the retry, stay RUNNING.                  *)
Crash(w) ==
  /\ job[w] # Idle
  /\ Fault
  /\ Leave(w)
  /\ UNCHANGED <<ledger, adopted, ops, links, covered, field, notes, paid>>

(* The operator's reset of rows that have been RUNNING for a quarter of an  *)
(* hour, which no live worker is.                                           *)
Held(o) == \E w \in Workers : job[w].row = o
RetryHeld(o) == \E w \in Workers : job[w].of = o

ResetStale ==
  LET stale(o) == ops[o].status = "RUNNING" /\ ~Held(o)
      orphan(o) == ops[o].retry = "RUNNING" /\ ~RetryHeld(o)
  IN /\ \E o \in OpIds : stale(o) \/ orphan(o)
     /\ ops' = [o \in OpIds |->
          [ops[o] EXCEPT !.status = IF stale(o) THEN "FAILED" ELSE @,
                         !.retry  = IF orphan(o) THEN "none" ELSE @]]
     /\ UNCHANGED <<ledger, links, covered, field, notes, paid, adopted,
                    job, faults>>

-----------------------------------------------------------------------------
Init ==
  /\ step = 0 /\ refunded = 0 /\ unsent = {} /\ lost = {}
  /\ ops = [o \in OpIds |-> FreeRow]
  /\ links = {} /\ covered = 0 /\ field = NoNote
  /\ notes = {} /\ paid = {} /\ adopted = {}
  /\ job = [w \in Workers |-> Idle]
  /\ faults = 0

CreateXeroCreditNote(w) ==
  \/ Look(w) \/ CloseCovered(w) \/ SkipLegacy(w) \/ Prepare(w) \/ CreateNote(w)
  \/ RefuseNote(w) \/ PayNote(w) \/ RecordNote(w) \/ FailJob(w)

Next ==
  \/ RecordRefund
  \/ \E s \in 1..Steps : EnqueueStep(s) \/ LoseEnqueue(s)
  \/ ReconcileCredits
  \/ \E o \in OpIds : QueueRetry(o)
  \/ \E w \in Workers, o \in OpIds : ClaimRow(w, o) \/ ClaimRetry(w, o)
  \/ \E w \in Workers : CreateXeroCreditNote(w) \/ RepairPartial(w) \/ Crash(w)
  \/ ResetStale

(* The outbox worker and the reconciliation are crons, and every step of a  *)
(* run is taken or the run dies; resetting a stale row is the operator's,    *)
(* who is shown the count.  Nobody has to retry.                             *)
Fairness ==
  /\ \A s \in 1..Steps : WF_vars(EnqueueStep(s))
  /\ WF_vars(ReconcileCredits)
  /\ \A o \in OpIds : SF_vars(\E w \in Workers : ClaimRow(w, o))
  /\ \A w \in Workers : WF_vars(CreateXeroCreditNote(w)) /\ WF_vars(RepairPartial(w))
  /\ WF_vars(ResetStale)

Spec == Init /\ [][Next]_vars
FairSpec == Spec /\ Fairness

-----------------------------------------------------------------------------
(* Properties.                                                              *)

Statuses == {"FREE", "PENDING", "RUNNING", "SUCCEEDED", "PARTIAL", "FAILED"}
Places == {"idle", "look", "count", "send", "pay", "record", "recordPartial",
           "repair"}
Row == [status : Statuses, key : Keys \union {NoNote}, amount : Nat,
        queued : BOOLEAN, note : Keys \union {NoNote},
        retry : {"none", "PENDING", "RUNNING"}]
Job == [at : Places, row : OpIds \union {0}, of : OpIds \union {0}, amount : Nat,
        delta : BOOLEAN, seen : Nat, key : Keys \union {NoNote}]
Note == [key : Keys, amount : Nat \ {0}]

(* What every variable may hold. *)
Shapes ==
  /\ step \in 0..Steps /\ refunded \in Nat /\ covered \in Nat /\ faults \in Nat
  /\ unsent \subseteq 1..Steps /\ lost \subseteq 1..Steps
  /\ ops \in [OpIds -> Row]
  /\ job \in [Workers -> Job]
  /\ notes \subseteq Note /\ links \subseteq [key : Keys, amount : Nat]
  /\ paid \subseteq Keys /\ field \in Keys \union {NoNote}
  /\ adopted \subseteq OpIds

(* Type invariant; the running total is the sum the code computes           *)
(* (sumCoveredRefundCreditNoteCents).                                        *)
TypeOK == Shapes /\ covered = Sum([l \in links |-> l.amount], links)

(* What the database believes of Xero is so: each link names one note Xero   *)
(* holds, for the cents the link's metadata says, if it says any.  The       *)
(* coverage every later delta is cut to rests on this; it has to survive two *)
(* workers, lost answers and retries under another row.                      *)
LinksMatchNotes ==
  /\ \A l \in links : \E n \in notes : n.key = l.key /\ l.amount \in {0, n.amount}
  /\ \A m, n \in notes : m.key = n.key => m = n
  /\ \A k, l \in links : k.key = l.key => k = l

(* No single note reaches beyond the ledger: its watermark is at most what   *)
(* has been refunded, whatever was asked for when it was queued and however  *)
(* stale the ledger was when it was read.                                    *)
NotesWithinLedger == \A n \in notes : n.key[2] <= refunded /\ n.amount <= n.key[2]

(* A note recorded without its refund payment is known by a row an operator  *)
(* can retry, unless a retry was given a row another worker also ran.  (A     *)
(* link without cents was made by a retry that never had the note.)          *)
UnpaidNoteIsKnown ==
  adopted = {} => \A l \in links : l.amount = 0 \/ l.key \in paid \/
    \E o \in OpIds : ops[o].status \in Retryable /\ ops[o].note = l.key

(* When nothing fails, the notes come to cover the ledger, even when every   *)
(* enqueue after a refund was lost or its delta was cut to a stale ledger:   *)
(* the daily reconciliation queues the rest.                                 *)
BooksConverge == [](faults = 0) => (step = Steps ~> covered >= refunded)

=============================================================================
