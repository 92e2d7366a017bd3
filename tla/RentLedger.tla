----------------------------- MODULE RentLedger -----------------------------
(***************************************************************************)
(* The money core of the API: recording a payment against a rent charge,   *)
(* voiding one, the gapless receipt book, and the nightly overdue sweep    *)
(* (PaymentsService, ReceiptNumberService, FinanceCalculationService,      *)
(* RentGenerationService.markOverdue), for one organization.               *)
(*                                                                         *)
(* Every HTTP request is a process with a program counter.  One step is    *)
(* what the handler does between two waits on PostgreSQL.  Reads before    *)
(* the transaction see committed rows; inside it (READ COMMITTED) a row    *)
(* lock is held to the end, and what the transaction wrote is its "draft"  *)
(* until the commit makes all of it visible at once.                       *)
(*                                                                         *)
(* A create request makes at most one payment, so the payment, and its     *)
(* receipt, go by the name of the request that makes it.  A client that    *)
(* lost the answer and retries is a second request with the same key.      *)
(***************************************************************************)
EXTENDS Integers, Functions

CONSTANTS
    Creates,     \* requests to POST /payments
    Voids,       \* requests to POST /payments/:id/void
    Charges,     \* rent records, as generated
    Expected,    \* RentRecord.expectedAmount of each charge, in minor units
    DueDate,     \* RentRecord.dueDate of each charge, as a day number
    Inputs,      \* the bodies a create request may carry
    LastDay,     \* bound: the calendar stops here
    YearOf,      \* the year a day belongs to
    None         \* an absent reference, key, payment, receipt, lock holder

Requests == Creates \cup Voids
Days == 0..LastDay
Years == {YearOf[d] : d \in Days}
RentStatus == {"PENDING", "PARTIALLY_PAID", "PAID", "OVERDUE"}

Keys == {i.key : i \in Inputs}
Refs == {i.ref : i \in Inputs}

PaymentRow == [charge : Charges, amount : Nat, key : Keys \cup {None},
               ref : Refs \cup {None}, status : {"COMPLETED", "VOIDED"}]
ReceiptRow == [year : Years, number : Nat, voided : BOOLEAN]

\* A body names a charge, an amount and a date; reference and key are optional.
ASSUME LedgerConstants ==
    /\ LastDay \in Nat
    /\ YearOf \in [Days -> Nat]
    /\ Expected \in [Charges -> Nat]
    /\ DueDate \in [Charges -> Nat]
    /\ Creates \cap Voids = {}
    /\ None \notin Requests \cup PaymentRow \cup ReceiptRow
    /\ \A i \in Inputs : /\ i.charge \in Charges
                         /\ i.amount \in Nat
                         /\ i.date \in Nat

VARIABLES
    today,        \* the server's calendar day
    charge,       \* RentRecord: paid, balance, status
    payment,      \* Payment rows, None where the request recorded nothing
    receipt,      \* Receipt rows
    lastNumber,   \* NumberSequence.lastValue per year
    chargeLock,   \* the transaction holding a rent record FOR UPDATE
    counterLock,  \* the transaction holding a year's number row FOR UPDATE
    pc,           \* where each request is
    input,        \* the body of a create request
    target,       \* the payment a void request read before its transaction
    draft,        \* the uncommitted rent record values and receipt number
    result        \* how each request was answered

rows == <<charge, payment, receipt, lastNumber>>
locks == <<chargeLock, counterLock>>
vars == <<today, rows, locks, pc, input, target, draft, result>>

-----------------------------------------------------------------------------
(* The formulas of FinanceCalculationService.                              *)

BalanceUnclamped(expected, paid) == expected - paid

\* balanceOf: never negative.
BalanceOf(expected, paid) ==
    IF expected < paid THEN 0 ELSE expected - paid

StatusLateFirst(expected, paid, due, now) ==
    IF due < now THEN "OVERDUE"
    ELSE IF BalanceOf(expected, paid) = 0 THEN "PAID"
    ELSE IF paid > 0 THEN "PARTIALLY_PAID" ELSE "PENDING"

\* rentStatusOf: settled first, then late, then partly paid.
RentStatusOf(expected, paid, due, now) ==
    CASE BalanceOf(expected, paid) = 0                             -> "PAID"
      [] BalanceOf(expected, paid) > 0 /\ due < now                -> "OVERDUE"
      [] BalanceOf(expected, paid) > 0 /\ due >= now /\ paid > 0   -> "PARTIALLY_PAID"
      [] OTHER                                                     -> "PENDING"

\* The rent record a transaction will write when `paid' is its new total.
NewDraft(c, paid) ==
    [paid    |-> paid,
     balance |-> BalanceOf(Expected[c], paid),
     status  |-> RentStatusOf(Expected[c], paid, DueDate[c], today),
     number  |-> 0]

NoDraft == [paid |-> 0, balance |-> 0, status |-> "PENDING", number |-> 0]

-----------------------------------------------------------------------------
(* What the queries see: committed rows, and the index entries of          *)
(* transactions still open.                                                *)

Recorded == {p \in Creates : payment[p] # None}
Completed == {p \in Recorded : payment[p].status = "COMPLETED"}

KeyTaken(key) == \E p \in Recorded : key # None /\ payment[p].key = key
NoRefIndex(ref) == FALSE
RefTaken(ref) == \E p \in Recorded : ref # None /\ payment[p].ref = ref

\* `other' holds an uncommitted entry, new or being removed, in a unique index
\* of Payment that the insert of r would collide with: PostgreSQL makes r wait.
IndexWait(r, other) ==
    \/ /\ other \in Creates \ {r}
       /\ pc[other] \in {"numbering", "committing"}
       /\ \/ input[r].key # None /\ input[other].key = input[r].key
          \/ input[r].ref # None /\ input[other].ref = input[r].ref
    \/ /\ other \in Voids
       /\ pc[other] = "committing"
       /\ input[r].ref # None /\ payment[target[other]].ref = input[r].ref

NeverLocked(c) == TRUE
ChargeFree(c) == chargeLock[c] = None
NumbersUnlocked(y) == TRUE
CounterFree(y) == counterLock[y] = None

InFlight(r) == pc[r] \notin {"idle", "done"}
InTransaction(r) == pc[r] \in {"inserting", "numbering", "committing"}

-----------------------------------------------------------------------------
Init ==
    /\ today = 0
    /\ charge = [c \in Charges |-> [paid |-> 0, balance |-> Expected[c],
                                    status |-> "PENDING"]]
    /\ payment = [p \in Creates |-> None]
    /\ receipt = [p \in Creates |-> None]
    /\ lastNumber = [y \in Years |-> 0]
    /\ chargeLock = [c \in Charges |-> None]
    /\ counterLock = [y \in Years |-> None]
    /\ pc = [r \in Requests |-> "idle"]
    /\ input = [r \in Creates |-> None]
    /\ target = [v \in Voids |-> None]
    /\ draft = [r \in Requests |-> NoDraft]
    /\ result = [r \in Requests |-> "none"]

Goto(r, label) == pc' = [pc EXCEPT ![r] = label]

Answer(r, outcome) ==
    /\ Goto(r, "done")
    /\ result' = [result EXCEPT ![r] = outcome]

KeepLocks(r) == UNCHANGED <<locks, draft>>

\* The end of a transaction, committed or rolled back: its locks go, and its draft.
Release(r) ==
    /\ chargeLock' = [c \in Charges |->
                         IF chargeLock[c] = r THEN None ELSE chargeLock[c]]
    /\ counterLock' = [y \in Years |->
                         IF counterLock[y] = r THEN None ELSE counterLock[y]]
    /\ draft' = [draft EXCEPT ![r] = NoDraft]

-----------------------------------------------------------------------------
(* PaymentsService.create                                                  *)

\* amount > 0 and paymentDate no later than today.
Valid(i) == i.amount > 0 /\ i.date <= today

\* The idempotency key is looked up first: a key already used is answered with
\* the payment it made, whatever else the body says.
Replay(r) ==
    /\ pc[r] = "idle"
    /\ \E i \in Inputs :
          /\ KeyTaken(i.key)
          /\ input' = [input EXCEPT ![r] = i]
    /\ Answer(r, "replayed")
    /\ UNCHANGED <<today, rows, locks, target, draft>>

Receive(r) ==
    /\ pc[r] = "idle"
    /\ \E i \in Inputs :
          /\ ~KeyTaken(i.key)
          /\ input' = [input EXCEPT ![r] = i]
          /\ \/ Valid(i) /\ Goto(r, "checking") /\ UNCHANGED result
             \/ ~Valid(i) /\ Answer(r, "invalid")
    /\ UNCHANGED <<today, rows, locks, target, draft>>

\* The readable pre-check for a reference already banked.
CheckReference(r) ==
    /\ pc[r] = "checking"
    /\ \/ /\ \E p \in Completed : input[r].ref # None /\ payment[p].ref = input[r].ref
          /\ Answer(r, "duplicate")
       \/ /\ \A p \in Completed : input[r].ref # None => payment[p].ref # input[r].ref
          /\ Goto(r, "locking")
          /\ UNCHANGED result
    /\ UNCHANGED <<today, rows, locks, input, target, draft>>

AnyAmount(r) == TRUE
Affordable(r) ==
    input[r].amount <= BalanceOf(Expected[input[r].charge], charge[input[r].charge].paid)

\* SELECT ... FOR UPDATE on the rent record, then the sums from what it holds.
LockCharge(r) ==
    LET c == input[r].charge IN
    /\ pc[r] = "locking"
    /\ ChargeFree(c)
    /\ Affordable(r)
    /\ chargeLock' = [chargeLock EXCEPT ![c] = r]
    /\ draft' = [draft EXCEPT ![r] = NewDraft(c, charge[c].paid + input[r].amount)]
    /\ Goto(r, "inserting")
    /\ UNCHANGED <<today, rows, counterLock, input, target, result>>

RefuseOverpayment(r) ==
    /\ pc[r] = "locking"
    /\ ChargeFree(input[r].charge)
    /\ ~Affordable(r)
    /\ Answer(r, "overpaid")
    /\ UNCHANGED <<today, rows, locks, input, target, draft>>

\* INSERT INTO Payment: waits for a rival entry in the unique indexes, fails
\* on a committed one (P2002, the transaction rolls back, answered 409).
InsertPayment(r) ==
    /\ pc[r] = "inserting"
    /\ \A other \in Requests : ~IndexWait(r, other)
    /\ \/ /\ KeyTaken(input[r].key) \/ RefTaken(input[r].ref)
          /\ Answer(r, "conflict")
          /\ Release(r)
       \/ /\ ~KeyTaken(input[r].key) /\ ~RefTaken(input[r].ref)
          /\ Goto(r, "numbering")
          /\ UNCHANGED <<locks, draft, result>>
    /\ UNCHANGED <<today, rows, input, target>>

YearOfRequest(r) == YearOf[input[r].date]

\* ReceiptNumberService.next: the year's counter row, locked and read.
TakeNumber(r) ==
    LET y == YearOfRequest(r) IN
    /\ pc[r] = "numbering"
    /\ CounterFree(y)
    /\ counterLock' = [counterLock EXCEPT ![y] = r]
    /\ draft' = [draft EXCEPT ![r].number = lastNumber[y] + 1]
    /\ Goto(r, "committing")
    /\ UNCHANGED <<today, rows, chargeLock, input, target, result>>

\* The rent record, the payment, the counter and the receipt, together; the
\* client has not been told yet.
CommitPayment(r) ==
    LET i == input[r]
        d == draft[r]
        y == YearOfRequest(r)
    IN
    /\ pc[r] = "committing"
    /\ charge' = [charge EXCEPT ![i.charge] =
                     [paid |-> d.paid, balance |-> d.balance, status |-> d.status]]
    /\ payment' = [payment EXCEPT ![r] =
                     [charge |-> i.charge, amount |-> i.amount, key |-> i.key,
                      ref |-> i.ref, status |-> "COMPLETED"]]
    /\ receipt' = [receipt EXCEPT ![r] =
                     [year |-> y, number |-> d.number, voided |-> FALSE]]
    /\ lastNumber' = [lastNumber EXCEPT ![y] = d.number]
    /\ Release(r)
    /\ Goto(r, "telling")
    /\ UNCHANGED <<today, input, target, result>>

\* The audit row and the notices are written, then the answer goes out.
TellRecorded(r) ==
    /\ pc[r] = "telling"
    /\ Answer(r, "recorded")
    /\ UNCHANGED <<today, rows, locks, input, target, draft>>

-----------------------------------------------------------------------------
(* PaymentsService.void                                                    *)

\* The payment and its status are read before the transaction begins.
ReadPayment(v) ==
    /\ pc[v] = "idle"
    /\ \E p \in Creates :
          \/ payment[p] = None /\ Answer(v, "not_found") /\ UNCHANGED target
          \/ /\ p \in Recorded \ Completed
             /\ Answer(v, "already_voided")
             /\ UNCHANGED target
          \/ /\ p \in Completed
             /\ target' = [target EXCEPT ![v] = p]
             /\ Goto(v, "locking")
             /\ UNCHANGED result
    /\ UNCHANGED <<today, rows, locks, input, draft>>

\* The rent record is locked and read; the status of the payment is not.
LockForVoid(v) ==
    LET p == payment[target[v]] IN
    /\ pc[v] = "locking"
    /\ ChargeFree(p.charge)
    /\ chargeLock' = [chargeLock EXCEPT ![p.charge] = v]
    /\ draft' = [draft EXCEPT ![v] = NewDraft(p.charge, charge[p.charge].paid - p.amount)]
    /\ Goto(v, "committing")
    /\ UNCHANGED <<today, rows, counterLock, input, target, result>>

NoCheck(v) == TRUE
\* CHECK RentRecord_amounts_sane lets the new values through.
CheckHolds(v) == draft[v].paid >= 0

FreeTheKey(row) == [row EXCEPT !.status = "VOIDED", !.ref = None, !.key = None]
KeepStatus(row) == [row EXCEPT !.ref = None]
\* The reference is given back, the idempotency key is not.
VoidedRow(row) == [row EXCEPT !.status = "VOIDED", !.ref = None]

ReceiptLeft(p) == UNCHANGED receipt
\* receipt.updateMany: the number stays, the receipt is marked.
VoidReceipt(p) == receipt' = [receipt EXCEPT ![p].voided = TRUE]

CommitVoid(v) ==
    LET c == payment[target[v]].charge
        d == draft[v]
    IN
    /\ pc[v] = "committing"
    /\ CheckHolds(v)
    /\ payment' = [payment EXCEPT ![target[v]] = VoidedRow(payment[target[v]])]
    /\ charge' = [charge EXCEPT ![c] =
                     [paid |-> d.paid, balance |-> d.balance, status |-> d.status]]
    /\ VoidReceipt(target[v])
    /\ Release(v)
    /\ Goto(v, "telling")
    /\ UNCHANGED <<today, lastNumber, input, target, result>>

\* The payment is read again for the answer.
TellVoided(v) ==
    /\ pc[v] = "telling"
    /\ Answer(v, "voided")
    /\ UNCHANGED <<today, rows, locks, input, target, draft>>

\* A negative paidAmount breaks the CHECK: everything rolls back, answered 500.
RefuseVoid(v) ==
    /\ pc[v] = "committing"
    /\ ~CheckHolds(v)
    /\ Release(v)
    /\ Answer(v, "failed")
    /\ UNCHANGED <<today, rows, input, target>>

-----------------------------------------------------------------------------
AbortAsConflict(r) ==
    /\ InFlight(r)
    /\ Release(r)
    /\ Answer(r, "conflict")
    /\ UNCHANGED <<today, rows, input, target>>

\* Something awaited throws, answered 500: a read, the transaction (it is lost or
\* times out, and rolls back), or, after the commit, its acknowledgement or what
\* the notices and the answer have to read.  What was committed stays.
Abort(r) ==
    /\ InFlight(r)
    /\ Release(r)
    /\ Answer(r, "failed")
    /\ UNCHANGED <<today, rows, input, target>>

LatePending(c) == charge[c].status = "PENDING"
                  /\ DueDate[c] < today /\ charge[c].balance > 0
Late(c) == charge[c].status \in {"PENDING", "PARTIALLY_PAID"}
           /\ DueDate[c] < today /\ charge[c].balance > 0

\* RentGenerationService.markOverdue: one UPDATE, which waits for the rows it
\* matches that a transaction holds.
MarkOverdue ==
    /\ \E c \in Charges : Late(c)
    /\ \A c \in Charges : Late(c) => ChargeFree(c)
    /\ charge' = [c \in Charges |->
                     IF Late(c) THEN [charge[c] EXCEPT !.status = "OVERDUE"]
                                ELSE charge[c]]
    /\ UNCHANGED <<today, payment, receipt, lastNumber, locks,
                   pc, input, target, draft, result>>

Tick ==
    /\ today < LastDay
    /\ today' = today + 1
    /\ UNCHANGED <<rows, locks, pc, input, target, draft, result>>

\* Nothing in flight: the API waits for requests.
Quiet ==
    /\ \A r \in Requests : pc[r] \in {"idle", "done"}
    /\ UNCHANGED vars

CreateStep(r) ==
    \/ CheckReference(r) \/ LockCharge(r) \/ RefuseOverpayment(r)
    \/ InsertPayment(r) \/ TakeNumber(r) \/ CommitPayment(r) \/ TellRecorded(r)

VoidStep(v) == LockForVoid(v) \/ CommitVoid(v) \/ RefuseVoid(v) \/ TellVoided(v)

Next ==
    \/ \E r \in Creates : Replay(r) \/ Receive(r) \/ CreateStep(r)
    \/ \E v \in Voids : ReadPayment(v) \/ VoidStep(v)
    \/ \E r \in Requests : Abort(r)
    \/ MarkOverdue
    \/ Tick
    \/ Quiet

Spec == Init /\ [][Next]_vars

\* The server runs a handler it has started to its end, and the nightly job
\* runs every night; nobody has to send a request or lose a connection.
Fairness ==
    /\ \A r \in Creates : WF_vars(CreateStep(r))
    /\ \A v \in Voids : WF_vars(VoidStep(v))
    /\ WF_vars(MarkOverdue)

FairSpec == Spec /\ Fairness

-----------------------------------------------------------------------------
(* Properties.                                                             *)

\* Rows and request states have their types.  paidAmount and balance are never
\* negative once committed (CHECK RentRecord_amounts_sane).
TypeOK ==
    /\ today \in Days
    /\ charge \in [Charges -> [paid : Nat, balance : Nat, status : RentStatus]]
    /\ payment \in [Creates -> PaymentRow \cup {None}]
    /\ receipt \in [Creates -> ReceiptRow \cup {None}]
    /\ lastNumber \in [Years -> Nat]
    /\ chargeLock \in [Charges -> Requests \cup {None}]
    /\ counterLock \in [Years -> Requests \cup {None}]
    /\ pc \in [Requests -> {"idle", "checking", "locking", "inserting",
                            "numbering", "committing", "telling", "done"}]
    /\ input \in [Creates -> Inputs \cup {None}]
    /\ target \in [Voids -> Creates \cup {None}]
    /\ draft \in [Requests -> [paid : Int, balance : Nat, status : RentStatus,
                               number : Nat]]
    /\ result \in [Requests -> {"none", "replayed", "invalid", "duplicate",
                                "overpaid", "conflict", "recorded", "not_found",
                                "already_voided", "voided", "failed"}]

AmountOf == [p \in Recorded |-> payment[p].amount]
CompletedOn(c) == {p \in Completed : payment[p].charge = c}
SumCompleted(c) == SumFunctionOnSet(AmountOf, CompletedOn(c))

\* The reconciliation test over the whole database: a charge's paidAmount is
\* the sum of its completed payments, between any two transactions.
Reconciled == \A c \in Charges : charge[c].paid = SumCompleted(c)

\* Whatever voids do, every shilling a charge counts as paid is backed by a
\* completed payment.
PaidIsBacked == \A c \in Charges : charge[c].paid <= SumCompleted(c)

\* No payment is taken beyond the charge and the stored balance is the derived
\* one: the CHECKs on RentRecord never have to stop a payment (a 500).
AmountsSane ==
    \A c \in Charges : /\ charge[c].paid <= Expected[c]
                       /\ charge[c].balance = Expected[c] - charge[c].paid

StatusFits(c, row) ==
    /\ row.status = "PAID" => row.balance = 0
    /\ row.status = "OVERDUE" => DueDate[c] < today /\ row.balance > 0
    /\ row.status = "PARTIALLY_PAID" => row.paid > 0 /\ row.balance > 0
    /\ row.status = "PENDING" => row.paid = 0
    /\ row.balance = 0 /\ Expected[c] > 0 => row.status = "PAID"

\* The stored status never contradicts the amounts beside it: PAID has nothing
\* owing, OVERDUE is late and owing, PARTIALLY_PAID lies between, PENDING has
\* received nothing; and a charge of more than zero that is settled says so.
StatusTellsTruth == \A c \in Charges : StatusFits(c, charge[c])

\* Every year's receipt book holds the numbers 1, 2, ... up to its counter,
\* each on one receipt: no gap after a rollback, no number twice.
GaplessReceipts ==
    /\ \A p \in Creates : receipt[p] # None =>
          /\ receipt[p].number >= 1
          /\ receipt[p].number <= lastNumber[receipt[p].year]
    /\ \A y \in Years : \A n \in 1..lastNumber[y] :
          \E p \in Creates : /\ receipt[p] # None
                             /\ receipt[p].year = y
                             /\ receipt[p].number = n
    /\ \A p, q \in Creates :
          receipt[p] # None /\ receipt[q] # None /\ p # q
             => receipt[p].year # receipt[q].year \/ receipt[p].number # receipt[q].number

\* A payment and its receipt exist together, and are voided together.
ReceiptMirrorsPayment ==
    \A p \in Creates :
        /\ receipt[p] = None <=> payment[p] = None
        /\ payment[p] # None => (receipt[p].voided <=> payment[p].status = "VOIDED")

\* A retried request does not take the money twice, and one transaction code
\* is banked on one completed payment.
NoDoubleTaking ==
    \A p, q \in Recorded :
        p # q => /\ payment[p].key # None => payment[p].key # payment[q].key
                 /\ payment[p].ref # None => payment[p].ref # payment[q].ref

\* What a client may conclude from its answer.  "recorded": the payment is there.
\* A refusal: this request took nothing.  "replayed": the money was taken under
\* the key.  "voided": the payment is.  "failed" says nothing of the money: the
\* request may have failed after its commit.
AnswersTruthful ==
    /\ \A r \in Creates :
          /\ result[r] = "recorded" => payment[r] # None
          /\ result[r] \in {"replayed", "invalid", "duplicate", "overpaid", "conflict"}
                => payment[r] = None
          /\ result[r] = "replayed" => KeyTaken(input[r].key)
    /\ \A v \in Voids : result[v] = "voided" => payment[target[v]].status = "VOIDED"

-----------------------------------------------------------------------------
(* The inductive invariant behind the safety properties.                   *)

Inserted(r) == pc[r] \in {"numbering", "committing"}

\* A draft was computed from the row its transaction still holds.
FreshDraft(r, c, delta) ==
    /\ chargeLock[c] = r
    /\ draft[r].paid = charge[c].paid + delta
    /\ draft[r].balance = Expected[c] - draft[r].paid
    /\ draft[r].paid >= 0 => StatusFits(c, draft[r])

\* Where a create request is decides what it holds and what is recorded of it.
CreateInv(r) ==
    /\ InFlight(r) => /\ input[r] \in Inputs
                      /\ input[r].amount > 0
                      /\ input[r].date \in Days
    /\ InTransaction(r) => /\ FreshDraft(r, input[r].charge, input[r].amount)
                           /\ draft[r].paid <= Expected[input[r].charge]
    /\ Inserted(r) => ~KeyTaken(input[r].key) /\ ~RefTaken(input[r].ref)
    /\ pc[r] = "committing" =>
          /\ counterLock[YearOfRequest(r)] = r
          /\ draft[r].number = lastNumber[YearOfRequest(r)] + 1
    /\ result[r] # "none" => pc[r] = "done"
    /\ pc[r] = "telling" \/ result[r] = "recorded" => payment[r] # None
    /\ payment[r] # None => pc[r] = "telling" \/ result[r] \in {"recorded", "failed"}
    /\ result[r] = "replayed" => KeyTaken(input[r].key)

\* A void works on a recorded payment, with the charge in its hands.
VoidInv(v) ==
    /\ pc[v] \in {"idle", "locking", "committing", "telling", "done"}
    /\ pc[v] \in {"locking", "committing"} => target[v] \in Recorded
    /\ pc[v] = "committing" =>
          FreshDraft(v, payment[target[v]].charge, - payment[target[v]].amount)
    /\ result[v] # "none" => pc[v] = "done"
    /\ pc[v] = "telling" \/ result[v] = "voided" =>
          /\ target[v] \in Recorded
          /\ payment[target[v]].status = "VOIDED"

\* Two open transactions never hold colliding index entries.
IndexInv ==
    \A r, s \in Creates :
        r # s /\ Inserted(r) /\ Inserted(s) =>
            /\ input[r].key # None => input[r].key # input[s].key
            /\ input[r].ref # None => input[r].ref # input[s].ref

ProcessInv ==
    /\ \A r \in Creates : CreateInv(r)
    /\ \A v \in Voids : VoidInv(v)

LedgerInv ==
    /\ TypeOK
    /\ ProcessInv
    /\ IndexInv
    /\ AmountsSane
    /\ StatusTellsTruth
    /\ GaplessReceipts
    /\ ReceiptMirrorsPayment
    /\ NoDoubleTaking

\* Payments are append-only: charge, amount and key never change, a void is
\* never undone, and a receipt keeps its year and number.
AppendOnly ==
    [][\A p \in Recorded :
          /\ payment'[p] # None /\ receipt'[p] # None
          /\ payment'[p].charge = payment[p].charge
          /\ payment'[p].amount = payment[p].amount
          /\ payment'[p].key = payment[p].key
          /\ payment[p].status = "VOIDED" => payment'[p].status = "VOIDED"
          /\ receipt'[p].year = receipt[p].year
          /\ receipt'[p].number = receipt[p].number
      ]_vars

\* A request that entered the handler is answered.
EveryRequestAnswered ==
    \A r \in Requests : (pc[r] # "idle") ~> (pc[r] = "done")

\* A charge past its due date with money owing ends up OVERDUE or settled.
LateChargesSurface ==
    \A c \in Charges :
        (DueDate[c] < today /\ charge[c].balance > 0)
            ~> (charge[c].status = "OVERDUE" \/ charge[c].balance = 0)

\* The abstract book this module implements.
Book == INSTANCE PaymentBook WITH
            Slots <- Creates,
            paid <- [c \in Charges |-> charge[c].paid]

\* Recording and voiding look like single steps on the book: the locked
\* transaction loses no update and undoes no payment twice.
ImplementsBook == Book!Spec
=============================================================================
