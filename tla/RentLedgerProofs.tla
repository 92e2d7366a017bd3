-------------------------- MODULE RentLedgerProofs --------------------------
(***************************************************************************)
(* What holds of RentLedger, and of the Figures over it, for any number of *)
(* requests, voiders, charges, bodies and days.                            *)
(***************************************************************************)
EXTENDS Figures, FiniteSums

\* The first state: no request, no payment, every charge owing in full.
LEMMA InitLedger == Init => LedgerInv
<1> SUFFICES ASSUME Init PROVE LedgerInv
    OBVIOUS
<1> USE LedgerConstants DEF Init, Requests, NoDraft
<1>1. TypeOK
    BY DEF TypeOK, RentStatus, Days, Years
<1>2. ProcessInv
    BY DEF ProcessInv, CreateInv, VoidInv, InFlight, InTransaction, Inserted, KeyTaken, Recorded
<1>3. IndexInv
    BY DEF IndexInv, Inserted
<1>4. AmountsSane /\ StatusTellsTruth
    BY DEF AmountsSane, StatusTellsTruth, StatusFits
<1>5. GaplessReceipts /\ ReceiptMirrorsPayment /\ NoDoubleTaking
    BY DEF GaplessReceipts, ReceiptMirrorsPayment, NoDoubleTaking, Recorded, Years
<1> QED
    BY <1>1, <1>2, <1>3, <1>4, <1>5 DEF LedgerInv

-----------------------------------------------------------------------------
(* Types.                                                                  *)

USE DEF InFlight, InTransaction, Inserted

\* NewDraft is a draft whatever the total it is given.
LEMMA DraftType ==
    ASSUME TypeOK, NEW c \in Charges, NEW paid \in Int
    PROVE  NewDraft(c, paid) \in [paid : Int, balance : Nat, status : RentStatus, number : Nat]
BY LedgerConstants DEF NewDraft, BalanceOf, RentStatusOf, RentStatus, TypeOK, Days

\* A transaction that has ended holds nothing and drafts nothing.
LEMMA ReleaseType ==
    ASSUME TypeOK, NEW r \in Requests, Release(r)
    PROVE  /\ chargeLock' \in [Charges -> Requests \cup {None}]
           /\ counterLock' \in [Years -> Requests \cup {None}]
           /\ draft' \in [Requests -> [paid : Int, balance : Nat, status : RentStatus, number : Nat]]
           /\ \A s \in Requests \ {r} : draft'[s] = draft[s]
BY DEF TypeOK, Release, NoDraft, RentStatus

\* Each step keeps the types; the invariant gives the amounts their sign.
LEMMA TypeStep == LedgerInv /\ [Next]_vars => TypeOK'
<1> SUFFICES ASSUME LedgerInv, [Next]_vars PROVE TypeOK'
    OBVIOUS
<1> USE LedgerConstants DEF Requests
<1>0. TypeOK /\ ProcessInv
    BY DEF LedgerInv
<1>1. ASSUME NEW r \in Creates, Replay(r) PROVE TypeOK'
    BY <1>0, <1>1 DEF TypeOK, Replay, Answer, Goto, rows, locks
<1>2. ASSUME NEW r \in Creates, Receive(r) PROVE TypeOK'
    <2>1. \/ Answer(r, "invalid")
          \/ Goto(r, "checking") /\ UNCHANGED result
        BY <1>2 DEF Receive
    <2>2. PICK i \in Inputs : input' = [input EXCEPT ![r] = i]
        BY <1>2 DEF Receive
    <2>3. input' \in [Creates -> Inputs \cup {None}]
        BY <1>0, <2>2 DEF TypeOK
    <2>4. UNCHANGED <<today, rows, locks, target, draft>>
        BY <1>2 DEF Receive
    <2> QED
        BY <1>0, <2>1, <2>3, <2>4 DEF TypeOK, Answer, Goto, rows, locks
<1>3. ASSUME NEW r \in Creates, CheckReference(r) PROVE TypeOK'
    <2>1. \/ Answer(r, "duplicate")
          \/ Goto(r, "locking") /\ UNCHANGED result
        BY <1>3 DEF CheckReference
    <2>2. UNCHANGED <<today, rows, locks, input, target, draft>>
        BY <1>3 DEF CheckReference
    <2> QED
        BY <1>0, <2>1, <2>2 DEF TypeOK, Answer, Goto, rows, locks
<1>4. ASSUME NEW r \in Creates, LockCharge(r) PROVE TypeOK'
    <2>1. input[r] \in Inputs /\ input[r].charge \in Charges /\ input[r].amount \in Nat
        BY <1>0, <1>4 DEF LockCharge, ProcessInv, CreateInv
    <2>2. NewDraft(input[r].charge, charge[input[r].charge].paid + input[r].amount)
             \in [paid : Int, balance : Nat, status : RentStatus, number : Nat]
        <3>1. charge[input[r].charge].paid + input[r].amount \in Int
            BY <1>0, <2>1 DEF TypeOK
        <3> QED
            BY <1>0, <2>1, <3>1, DraftType
    <2> QED
        <3>1. draft' \in [Requests -> [paid : Int, balance : Nat, status : RentStatus,
                                      number : Nat]]
            BY <1>0, <1>4, <2>2 DEF TypeOK, LockCharge
        <3> QED
            BY <1>0, <1>4, <2>1, <3>1 DEF TypeOK, LockCharge, Goto, rows
<1>5. ASSUME NEW r \in Creates, RefuseOverpayment(r) PROVE TypeOK'
    BY <1>0, <1>5 DEF TypeOK, RefuseOverpayment, Answer, Goto, rows, locks
<1>6. ASSUME NEW r \in Creates, InsertPayment(r) PROVE TypeOK'
    <2>1. \/ Answer(r, "conflict") /\ Release(r)
          \/ Goto(r, "numbering") /\ UNCHANGED <<locks, draft, result>>
        BY <1>6 DEF InsertPayment
    <2>2. UNCHANGED <<today, rows, input, target>>
        BY <1>6 DEF InsertPayment
    <2> QED
        BY <1>0, <2>1, <2>2, ReleaseType DEF TypeOK, Answer, Goto, rows, locks
<1>7. ASSUME NEW r \in Creates, TakeNumber(r) PROVE TypeOK'
    <2>1. YearOfRequest(r) \in Years
        BY <1>0, <1>7 DEF TakeNumber, ProcessInv, CreateInv, YearOfRequest, Years
    <2> QED
        BY <1>0, <1>7, <2>1 DEF TypeOK, TakeNumber, Goto, rows
<1>8. ASSUME NEW r \in Creates, CommitPayment(r) PROVE TypeOK'
    <2>1. YearOfRequest(r) \in Years
        BY <1>0, <1>8 DEF CommitPayment, ProcessInv, CreateInv, YearOfRequest, Years
    <2>2. /\ input[r] \in Inputs
          /\ input[r].charge \in Charges
          /\ input[r].amount \in Nat
          /\ input[r].key \in Keys
          /\ input[r].ref \in Refs
        BY <1>0, <1>8 DEF CommitPayment, ProcessInv, CreateInv, Keys, Refs
    <2>3. draft[r].paid \in Nat
        BY <1>0, <1>8, <2>2 DEF CommitPayment, ProcessInv, CreateInv, FreshDraft, TypeOK
    <2>4. charge' \in [Charges -> [paid : Nat, balance : Nat, status : RentStatus]]
        BY <1>0, <1>8, <2>2, <2>3 DEF CommitPayment, TypeOK
    <2>5. payment' \in [Creates -> PaymentRow \cup {None}]
        BY <1>0, <1>8, <2>2 DEF CommitPayment, TypeOK, PaymentRow
    <2>6. receipt' \in [Creates -> ReceiptRow \cup {None}]
        BY <1>0, <1>8, <2>1 DEF CommitPayment, TypeOK, ReceiptRow
    <2> QED
        BY <1>0, <1>8, <2>1, <2>4, <2>5, <2>6, ReleaseType DEF TypeOK, CommitPayment, Goto
<1>9. ASSUME NEW v \in Voids, ReadPayment(v) PROVE TypeOK'
    <2>1. PICK p \in Creates :
              \/ Answer(v, "not_found") /\ UNCHANGED target
              \/ Answer(v, "already_voided") /\ UNCHANGED target
              \/ /\ target' = [target EXCEPT ![v] = p]
                 /\ Goto(v, "locking") /\ UNCHANGED result
        BY <1>9 DEF ReadPayment
    <2>2. UNCHANGED <<today, rows, locks, input, draft>>
        BY <1>9 DEF ReadPayment
    <2>3. target' \in [Voids -> Creates \cup {None}]
        BY <1>0, <2>1 DEF TypeOK, Answer
    <2> QED
        BY <1>0, <2>1, <2>2, <2>3 DEF TypeOK, Answer, Goto, rows, locks
<1>10. ASSUME NEW v \in Voids, LockForVoid(v) PROVE TypeOK'
    <2>1. target[v] \in Creates /\ payment[target[v]] \in PaymentRow
        BY <1>0, <1>10 DEF LockForVoid, ProcessInv, VoidInv, TypeOK, Recorded
    <2>2. payment[target[v]].charge \in Charges /\ payment[target[v]].amount \in Nat
        BY <2>1 DEF PaymentRow
    <2>3. NewDraft(payment[target[v]].charge,
                   charge[payment[target[v]].charge].paid - payment[target[v]].amount)
             \in [paid : Int, balance : Nat, status : RentStatus, number : Nat]
        <3>1. charge[payment[target[v]].charge].paid - payment[target[v]].amount \in Int
            BY <1>0, <2>2 DEF TypeOK
        <3> QED
            BY <1>0, <2>2, <3>1, DraftType
    <2> QED
        <3>1. draft' \in [Requests -> [paid : Int, balance : Nat, status : RentStatus,
                                      number : Nat]]
            BY <1>0, <1>10, <2>3 DEF TypeOK, LockForVoid
        <3> QED
            BY <1>0, <1>10, <2>2, <3>1 DEF TypeOK, LockForVoid, Goto, rows
<1>11. ASSUME NEW v \in Voids, CommitVoid(v) PROVE TypeOK'
    <2>1. target[v] \in Creates /\ payment[target[v]] \in PaymentRow
        BY <1>0, <1>11 DEF CommitVoid, ProcessInv, VoidInv, TypeOK, Recorded
    <2>2. VoidedRow(payment[target[v]]) \in PaymentRow
        BY <2>1 DEF PaymentRow, VoidedRow
    <2>3. charge' \in [Charges -> [paid : Nat, balance : Nat, status : RentStatus]]
        BY <1>0, <1>11, <2>1 DEF CommitVoid, TypeOK, PaymentRow, CheckHolds
    <2>4. receipt' \in [Creates -> ReceiptRow \cup {None}]
        <3>1. receipt[target[v]] \in ReceiptRow
            BY <1>0, <2>1 DEF LedgerInv, ReceiptMirrorsPayment, TypeOK
        <3> QED
            BY <1>0, <1>11, <2>1, <3>1 DEF CommitVoid, VoidReceipt, TypeOK, ReceiptRow
    <2> QED
        BY <1>0, <1>11, <2>1, <2>2, <2>3, <2>4, ReleaseType DEF TypeOK, CommitVoid, Goto
<1>12. ASSUME NEW v \in Voids, RefuseVoid(v) PROVE TypeOK'
    BY <1>0, <1>12, ReleaseType DEF TypeOK, RefuseVoid, Answer, Goto, rows
<1>13. ASSUME NEW r \in Requests, Abort(r) PROVE TypeOK'
    BY <1>0, <1>13, ReleaseType DEF TypeOK, Abort, Answer, Goto, rows
<1>14. CASE MarkOverdue
    <2>1. charge' \in [Charges -> [paid : Nat, balance : Nat, status : RentStatus]]
        BY <1>0, <1>14 DEF TypeOK, MarkOverdue, RentStatus
    <2> QED
        BY <1>0, <1>14, <2>1 DEF TypeOK, MarkOverdue, locks
<1>15. CASE Tick
    BY <1>0, <1>15 DEF TypeOK, Tick, Days, rows, locks
<1>16. CASE Quiet \/ UNCHANGED vars
    BY <1>0, <1>16 DEF TypeOK, Quiet, vars, rows, locks
<1>17. ASSUME NEW r \in Requests, TellRecorded(r) \/ TellVoided(r) PROVE TypeOK'
    BY <1>0, <1>17 DEF TypeOK, TellRecorded, TellVoided, Answer, Goto, rows, locks
<1> QED
    BY <1>1, <1>2, <1>3, <1>4, <1>5, <1>6, <1>7, <1>8, <1>9, <1>10, <1>11, <1>12, <1>13,
       <1>14, <1>15, <1>16, <1>17 DEF Next, CreateStep, VoidStep

-----------------------------------------------------------------------------
(* Steps that leave the committed rows alone.                              *)

RowsInv ==
    /\ AmountsSane
    /\ StatusTellsTruth
    /\ GaplessReceipts
    /\ ReceiptMirrorsPayment
    /\ NoDoubleTaking

\* What is said of rows holds while no row changes.
LEMMA RowsUnchanged == RowsInv /\ UNCHANGED <<today, rows>> => RowsInv'
BY DEF RowsInv, rows, AmountsSane, StatusTellsTruth, StatusFits, GaplessReceipts,
       ReceiptMirrorsPayment, NoDoubleTaking, Recorded

\* A request that only reads, is refused before its transaction, or is answered
\* after it.
LEMMA ReadStep ==
    ASSUME LedgerInv, TypeOK',
           NEW r \in Creates,
           \/ Replay(r) \/ Receive(r) \/ CheckReference(r) \/ RefuseOverpayment(r)
           \/ TellRecorded(r)
    PROVE  ProcessInv' /\ IndexInv'
<1> USE LedgerConstants DEF Requests
<1>0. TypeOK /\ ProcessInv /\ IndexInv
    BY DEF LedgerInv
<1>1. UNCHANGED <<today, rows, locks, target, draft>>
    BY DEF Replay, Receive, CheckReference, RefuseOverpayment, TellRecorded
<1>2. /\ \A s \in Requests \ {r} : pc'[s] = pc[s] /\ result'[s] = result[s]
      /\ \A s \in Creates \ {r} : input'[s] = input[s]
    BY <1>0 DEF Replay, Receive, CheckReference, RefuseOverpayment, TellRecorded, Answer,
        Goto, TypeOK
<1>3. \A s \in Creates \ {r} : CreateInv(s)'
    BY <1>0, <1>1, <1>2 DEF ProcessInv, CreateInv, FreshDraft, StatusFits, KeyTaken, RefTaken,
        Recorded, YearOfRequest, rows, locks
<1>4. \A v \in Voids : VoidInv(v)'
    BY <1>0, <1>1, <1>2 DEF ProcessInv, VoidInv, FreshDraft, StatusFits, Recorded, rows, locks
<1>5. CASE Replay(r)
    <2>1. pc'[r] = "done" /\ result'[r] = "replayed" /\ KeyTaken(input'[r].key)
        BY <1>0, <1>5 DEF Replay, Answer, Goto, TypeOK
    <2>2. payment[r] = None
        BY <1>0, <1>5 DEF Replay, ProcessInv, CreateInv, TypeOK
    <2>3. CreateInv(r)'
        BY <1>1, <2>1, <2>2 DEF CreateInv, KeyTaken, Recorded, rows
    <2> QED
        BY <1>0, <1>1, <1>2, <1>3, <1>4, <2>1, <2>3 DEF ProcessInv, IndexInv
<1>6. CASE Receive(r)
    <2>1. PICK i \in Inputs :
             /\ input' = [input EXCEPT ![r] = i]
             /\ \/ Valid(i) /\ Goto(r, "checking") /\ UNCHANGED result
                \/ ~Valid(i) /\ Answer(r, "invalid")
        BY <1>6 DEF Receive
    <2>2. payment[r] = None /\ result[r] = "none"
        BY <1>0, <1>6 DEF Receive, ProcessInv, CreateInv, TypeOK
    <2>3. input'[r] = i
        BY <1>0, <2>1 DEF TypeOK
    <2>4. CASE Valid(i) /\ Goto(r, "checking") /\ UNCHANGED result
        <3>1. pc'[r] = "checking" /\ result'[r] = "none" /\ i.amount > 0 /\ i.date \in Days
            BY <1>0, <2>2, <2>4 DEF TypeOK, Goto, Valid, Days
        <3>2. CreateInv(r)'
            BY <1>1, <2>2, <2>3, <3>1 DEF CreateInv, rows, Days
        <3> QED
            BY <1>0, <1>1, <1>2, <1>3, <1>4, <3>1, <3>2 DEF ProcessInv, IndexInv
    <2>5. CASE Answer(r, "invalid")
        <3>1. pc'[r] = "done" /\ result'[r] = "invalid"
            BY <1>0, <2>5 DEF TypeOK, Answer, Goto
        <3>2. CreateInv(r)'
            BY <1>1, <2>2, <3>1 DEF CreateInv, rows
        <3> QED
            BY <1>0, <1>1, <1>2, <1>3, <1>4, <3>1, <3>2 DEF ProcessInv, IndexInv
    <2> QED
        BY <2>1, <2>4, <2>5
<1>7. CASE CheckReference(r) \/ RefuseOverpayment(r)
    <2>1. \/ pc'[r] = "locking" /\ result'[r] = result[r]
          \/ pc'[r] = "done" /\ result'[r] \in {"duplicate", "overpaid"}
        BY <1>0, <1>7 DEF CheckReference, RefuseOverpayment, TypeOK, Answer, Goto
    <2>2. payment[r] = None /\ result[r] = "none" /\ pc[r] \in {"checking", "locking"}
        BY <1>0, <1>7 DEF CheckReference, RefuseOverpayment, ProcessInv, CreateInv, TypeOK
    <2>3. input' = input
        BY <1>7 DEF CheckReference, RefuseOverpayment
    <2>4. CreateInv(r)'
        BY <1>0, <1>1, <2>1, <2>2, <2>3 DEF ProcessInv, CreateInv, rows
    <2> QED
        BY <1>0, <1>1, <1>2, <1>3, <1>4, <2>1, <2>4 DEF ProcessInv, IndexInv
<1>8. CASE TellRecorded(r)
    <2>1. pc'[r] = "done" /\ result'[r] = "recorded"
        BY <1>0, <1>8 DEF TellRecorded, TypeOK, Answer, Goto
    <2>2. payment[r] # None
        BY <1>0, <1>8 DEF TellRecorded, ProcessInv, CreateInv
    <2>3. CreateInv(r)'
        BY <1>1, <2>1, <2>2 DEF CreateInv, rows
    <2> QED
        BY <1>0, <1>1, <1>2, <1>3, <1>4, <1>8, <2>1, <2>3 DEF ProcessInv, IndexInv, TellRecorded
<1> QED
    BY <1>5, <1>6, <1>7, <1>8

\* A void that is answered after its commit.
LEMMA TellVoidedStep ==
    ASSUME LedgerInv, TypeOK', NEW v \in Voids, TellVoided(v)
    PROVE  ProcessInv' /\ IndexInv'
<1> USE LedgerConstants DEF Requests
<1>0. TypeOK /\ ProcessInv /\ IndexInv
    BY DEF LedgerInv
<1>1. UNCHANGED <<today, rows, locks, input, target, draft>> /\ pc[v] = "telling"
    BY DEF TellVoided
<1>2. /\ pc'[v] = "done" /\ result'[v] = "voided"
      /\ \A s \in Requests \ {v} : pc'[s] = pc[s] /\ result'[s] = result[s]
    BY <1>0 DEF TellVoided, Answer, Goto, TypeOK
<1>3. \A s \in Creates : CreateInv(s)'
    BY <1>0, <1>1, <1>2 DEF ProcessInv, CreateInv, FreshDraft, StatusFits, KeyTaken, RefTaken,
        Recorded, YearOfRequest, rows, locks
<1>4. \A w \in Voids \ {v} : VoidInv(w)'
    BY <1>0, <1>1, <1>2 DEF ProcessInv, VoidInv, FreshDraft, StatusFits, Recorded, rows, locks
<1>5. VoidInv(v)'
    BY <1>0, <1>1, <1>2 DEF ProcessInv, VoidInv, Recorded, rows
<1> QED
    BY <1>0, <1>1, <1>2, <1>3, <1>4, <1>5 DEF ProcessInv, IndexInv

\* A void request that only reads the payment it will reverse.
LEMMA ReadVoidStep ==
    ASSUME LedgerInv, TypeOK', NEW v \in Voids, ReadPayment(v)
    PROVE  ProcessInv' /\ IndexInv'
<1> USE LedgerConstants DEF Requests
<1>0. TypeOK /\ ProcessInv /\ IndexInv
    BY DEF LedgerInv
<1>1. UNCHANGED <<today, rows, locks, input, draft>> /\ pc[v] = "idle"
    BY DEF ReadPayment
<1>2. PICK p \in Creates :
          \/ Answer(v, "not_found") /\ UNCHANGED target
          \/ Answer(v, "already_voided") /\ UNCHANGED target
          \/ /\ p \in Recorded
             /\ target' = [target EXCEPT ![v] = p]
             /\ Goto(v, "locking") /\ UNCHANGED result
    BY DEF ReadPayment, Completed
<1>3. /\ \A s \in Requests \ {v} : pc'[s] = pc[s] /\ result'[s] = result[s]
      /\ \A w \in Voids \ {v} : target'[w] = target[w]
    BY <1>0, <1>2 DEF Answer, Goto, TypeOK
<1>4. \A s \in Creates : CreateInv(s)'
    BY <1>0, <1>1, <1>3 DEF ProcessInv, CreateInv, FreshDraft, StatusFits, KeyTaken, RefTaken,
        Recorded, YearOfRequest, rows, locks
<1>5. \A w \in Voids \ {v} : VoidInv(w)'
    BY <1>0, <1>1, <1>3 DEF ProcessInv, VoidInv, FreshDraft, StatusFits, Recorded, rows, locks
<1>6. VoidInv(v)'
    <2>1. \/ pc'[v] = "done" /\ result'[v] \in {"not_found", "already_voided"}
          \/ /\ pc'[v] = "locking" /\ result'[v] = result[v]
             /\ target'[v] = p /\ p \in Recorded
        BY <1>0, <1>2 DEF Answer, Goto, TypeOK
    <2>2. result[v] = "none"
        BY <1>0, <1>1 DEF ProcessInv, VoidInv
    <2> QED
        BY <1>1, <2>1, <2>2 DEF VoidInv, Recorded, rows
<1> QED
    BY <1>0, <1>1, <1>3, <1>4, <1>5, <1>6 DEF ProcessInv, IndexInv

\* What a transaction computes from the row it just locked is fresh.
LEMMA FreshlyDrafted ==
    ASSUME TypeOK, AmountsSane, NEW c \in Charges, NEW paid \in Int, paid <= Expected[c]
    PROVE  LET d == NewDraft(c, paid) IN
           /\ d.paid = paid
           /\ d.balance = Expected[c] - paid
           /\ paid >= 0 => StatusFits(c, d)
BY LedgerConstants DEF NewDraft, BalanceOf, RentStatusOf, StatusFits, TypeOK, Days

\* The rent record is locked by a payment: the amount fits what is owing.
LEMMA LockChargeStep ==
    ASSUME LedgerInv, TypeOK', NEW r \in Creates, LockCharge(r)
    PROVE  ProcessInv' /\ IndexInv'
<1> USE LedgerConstants DEF Requests
<1>0. TypeOK /\ ProcessInv /\ IndexInv /\ AmountsSane
    BY DEF LedgerInv
<1> DEFINE c == input[r].charge
           paid == charge[c].paid + input[r].amount
<1>1. /\ pc[r] = "locking" /\ chargeLock[c] = None
      /\ UNCHANGED <<today, rows, counterLock, input, target, result>>
      /\ chargeLock' = [chargeLock EXCEPT ![c] = r]
      /\ draft' = [draft EXCEPT ![r] = NewDraft(c, paid)]
      /\ pc' = [pc EXCEPT ![r] = "inserting"]
      /\ Affordable(r)
    BY DEF LockCharge, ChargeFree, Goto
<1>2. /\ input[r] \in Inputs /\ c \in Charges /\ input[r].amount > 0
      /\ input[r].amount \in Nat /\ input[r].date \in Days
      /\ result[r] = "none" /\ payment[r] = None
    BY <1>0, <1>1 DEF ProcessInv, CreateInv, TypeOK
<1>3. paid \in Int /\ paid <= Expected[c] /\ paid >= 0
    BY <1>0, <1>1, <1>2 DEF Affordable, BalanceOf, AmountsSane, TypeOK
<1>4. FreshDraft(r, c, input[r].amount)' /\ draft'[r].paid <= Expected[c]
    <2>1. draft'[r] = NewDraft(c, paid) /\ chargeLock'[c] = r
        BY <1>0, <1>1, <1>2 DEF TypeOK
    <2>2. /\ draft'[r].paid = paid
          /\ draft'[r].balance = Expected[c] - paid
          /\ StatusFits(c, draft'[r])
        BY <1>0, <1>2, <1>3, <2>1, FreshlyDrafted
    <2> QED
        BY <1>1, <1>3, <2>1, <2>2 DEF FreshDraft, StatusFits, rows
<1>5. CreateInv(r)'
    <2>1. pc'[r] = "inserting"
        BY <1>0, <1>1 DEF TypeOK
    <2> QED
        BY <1>1, <1>2, <1>4, <2>1 DEF CreateInv, rows
<1>6. \A s \in Creates \ {r} : CreateInv(s)'
    BY <1>0, <1>1, <1>2 DEF ProcessInv, CreateInv, FreshDraft, StatusFits, KeyTaken, RefTaken,
        Recorded, YearOfRequest, TypeOK, rows
<1>7. \A v \in Voids : VoidInv(v)'
    BY <1>0, <1>1, <1>2 DEF ProcessInv, VoidInv, FreshDraft, StatusFits, Recorded, TypeOK, rows
<1>8. IndexInv'
    BY <1>0, <1>1 DEF IndexInv, TypeOK
<1> QED
    BY <1>5, <1>6, <1>7, <1>8 DEF ProcessInv

\* The rent record is locked by a void: the draft takes the amount off again.
LEMMA LockForVoidStep ==
    ASSUME LedgerInv, TypeOK', NEW v \in Voids, LockForVoid(v)
    PROVE  ProcessInv' /\ IndexInv'
<1> USE LedgerConstants DEF Requests
<1>0. TypeOK /\ ProcessInv /\ IndexInv /\ AmountsSane
    BY DEF LedgerInv
<1> DEFINE p == target[v]
           c == payment[p].charge
           paid == charge[c].paid - payment[p].amount
<1>1. /\ pc[v] = "locking" /\ chargeLock[c] = None
      /\ UNCHANGED <<today, rows, counterLock, input, target, result>>
      /\ chargeLock' = [chargeLock EXCEPT ![c] = v]
      /\ draft' = [draft EXCEPT ![v] = NewDraft(c, paid)]
      /\ pc' = [pc EXCEPT ![v] = "committing"]
    BY DEF LockForVoid, ChargeFree, Goto
<1>2. p \in Recorded /\ p \in Creates /\ payment[p] \in PaymentRow
    BY <1>0, <1>1 DEF ProcessInv, VoidInv, Recorded, TypeOK
<1>3. c \in Charges /\ payment[p].amount \in Nat
    BY <1>2 DEF PaymentRow
<1>4. paid \in Int /\ paid <= Expected[c]
    BY <1>0, <1>3 DEF AmountsSane, TypeOK
<1>5. FreshDraft(v, c, - payment[p].amount)'
    <2>1. draft'[v] = NewDraft(c, paid) /\ chargeLock'[c] = v
        BY <1>0, <1>1, <1>3 DEF TypeOK
    <2>2. /\ draft'[v].paid = paid
          /\ draft'[v].balance = Expected[c] - paid
          /\ paid >= 0 => StatusFits(c, draft'[v])
        BY <1>0, <1>3, <1>4, <2>1, FreshlyDrafted
    <2>3. charge' = charge /\ payment' = payment /\ target' = target /\ today' = today
        BY <1>1 DEF rows
    <2>4. draft'[v].paid = charge[c].paid + (- payment[p].amount)
        BY <1>0, <1>3, <2>2 DEF TypeOK
    <2> QED
        BY <2>1, <2>2, <2>3, <2>4 DEF FreshDraft, StatusFits
<1>6. VoidInv(v)'
    <2>1. pc'[v] = "committing" /\ result'[v] = result[v]
        BY <1>0, <1>1 DEF TypeOK
    <2>2. result[v] = "none"
        BY <1>0, <1>1 DEF ProcessInv, VoidInv
    <2> QED
        BY <1>1, <1>2, <1>5, <2>1, <2>2 DEF VoidInv, Recorded, rows
<1>a. \A s \in Requests \ {v} :
          /\ pc'[s] = pc[s] /\ draft'[s] = draft[s]
          /\ \A k \in Charges : chargeLock[k] = s => chargeLock'[k] = s
    BY <1>0, <1>1, <1>3 DEF TypeOK
<1>b. /\ \A i \in Inputs : i.charge \in Charges
      /\ \A w \in Voids : target[w] \in Recorded => payment[target[w]].charge \in Charges
    BY <1>0 DEF TypeOK, PaymentRow, Recorded
<1>7. \A s \in Creates : CreateInv(s)'
    <2> SUFFICES ASSUME NEW s \in Creates PROVE CreateInv(s)'
        OBVIOUS
    <2>1. /\ pc'[s] = pc[s] /\ draft'[s] = draft[s]
          /\ \A k \in Charges : chargeLock[k] = s => chargeLock'[k] = s
        BY <1>a
    <2>2. /\ charge' = charge /\ payment' = payment /\ lastNumber' = lastNumber
          /\ today' = today /\ input' = input /\ result' = result
          /\ counterLock' = counterLock
        BY <1>1 DEF rows
    <2>3. InTransaction(s) => input[s].charge \in Charges
        BY <1>0, <1>b DEF ProcessInv, CreateInv
    <2> QED
        BY <1>0, <2>1, <2>2, <2>3 DEF ProcessInv, CreateInv, FreshDraft, StatusFits, KeyTaken,
            RefTaken, Recorded, YearOfRequest
<1>8. \A w \in Voids \ {v} : VoidInv(w)'
    BY <1>0, <1>1, <1>a, <1>b DEF ProcessInv, VoidInv, FreshDraft, StatusFits, Recorded, rows
<1>9. IndexInv'
    BY <1>0, <1>1 DEF IndexInv, TypeOK
<1> QED
    BY <1>6, <1>7, <1>8, <1>9 DEF ProcessInv

\* A request that ends without a write, by rolling back or after its commit: only
\* its own locks and draft go.
LEMMA RollbackStep ==
    ASSUME LedgerInv, TypeOK', NEW r \in Requests, InFlight(r),
           NEW outcome \in {"conflict", "failed"}, outcome = "conflict" => pc[r] = "inserting",
           Answer(r, outcome), Release(r),
           UNCHANGED <<today, rows, input, target>>
    PROVE  ProcessInv' /\ IndexInv'
<1> USE LedgerConstants DEF Requests
<1>0. TypeOK /\ ProcessInv /\ IndexInv
    BY DEF LedgerInv
<1>1. /\ pc'[r] = "done" /\ result'[r] = outcome
      /\ \A s \in Requests \ {r} : pc'[s] = pc[s] /\ result'[s] = result[s]
    BY <1>0 DEF Answer, Goto, TypeOK
<1>2. \A s \in Requests \ {r} :
          /\ \A c \in Charges : chargeLock[c] = s => chargeLock'[c] = s
          /\ \A y \in Years : counterLock[y] = s => counterLock'[y] = s
          /\ draft'[s] = draft[s]
    BY <1>0, ReleaseType DEF Release
<1>3. /\ charge' = charge /\ payment' = payment /\ lastNumber' = lastNumber
      /\ today' = today /\ input' = input /\ target' = target
    BY DEF rows
<1>4. ASSUME NEW s \in Creates PROVE CreateInv(s)'
    <2>1. InFlight(s) => input[s].charge \in Charges /\ YearOfRequest(s) \in Years
        BY <1>0 DEF ProcessInv, CreateInv, YearOfRequest, Years
    <2>2. CASE s = r
        <3>1. outcome = "failed" \/ payment[s] = None
            BY <1>0, <2>2 DEF ProcessInv, CreateInv
        <3> QED
            BY <1>1, <1>3, <2>2, <3>1 DEF CreateInv
    <2>3. CASE s # r
        <3>1. /\ pc'[s] = pc[s] /\ result'[s] = result[s]
              /\ \A c \in Charges : chargeLock[c] = s => chargeLock'[c] = s
              /\ \A y \in Years : counterLock[y] = s => counterLock'[y] = s
              /\ draft'[s] = draft[s]
            BY <1>1, <1>2, <2>3
        <3> QED
            BY <1>0, <1>3, <2>1, <3>1 DEF ProcessInv, CreateInv, FreshDraft, StatusFits,
                KeyTaken, RefTaken, Recorded, YearOfRequest
    <2> QED
        BY <2>2, <2>3
<1>5. ASSUME NEW v \in Voids PROVE VoidInv(v)'
    <2>1. target[v] \in Recorded => payment[target[v]].charge \in Charges
        BY <1>0 DEF TypeOK, Recorded, PaymentRow
    <2>2. CASE v = r
        BY <1>0, <1>1, <1>3, <2>2 DEF ProcessInv, VoidInv
    <2>3. CASE v # r
        <3>1. /\ pc'[v] = pc[v] /\ result'[v] = result[v]
              /\ \A c \in Charges : chargeLock[c] = v => chargeLock'[c] = v
              /\ draft'[v] = draft[v]
            BY <1>1, <1>2, <2>3
        <3> QED
            BY <1>0, <1>3, <2>1, <3>1 DEF ProcessInv, VoidInv, FreshDraft, StatusFits, Recorded
    <2> QED
        BY <2>2, <2>3
<1>6. IndexInv'
    BY <1>0, <1>1, <1>3 DEF IndexInv
<1> QED
    BY <1>4, <1>5, <1>6 DEF ProcessInv

\* The insert goes through only when no rival entry exists, open or committed.
LEMMA InsertStep ==
    ASSUME LedgerInv, TypeOK', NEW r \in Creates, InsertPayment(r)
    PROVE  ProcessInv' /\ IndexInv'
<1> USE LedgerConstants DEF Requests
<1>0. TypeOK /\ ProcessInv /\ IndexInv
    BY DEF LedgerInv
<1>1. /\ pc[r] = "inserting"
      /\ \A other \in Requests : ~IndexWait(r, other)
      /\ UNCHANGED <<today, rows, input, target>>
    BY DEF InsertPayment
<1>2. CASE Answer(r, "conflict") /\ Release(r)
    BY <1>1, <1>2, RollbackStep
<1>3. CASE /\ ~KeyTaken(input[r].key) /\ ~RefTaken(input[r].ref)
           /\ Goto(r, "numbering")
           /\ UNCHANGED <<locks, draft, result>>
    <2>1. /\ charge' = charge /\ payment' = payment /\ lastNumber' = lastNumber
          /\ today' = today /\ input' = input /\ draft' = draft /\ target' = target
          /\ chargeLock' = chargeLock /\ counterLock' = counterLock /\ result' = result
        BY <1>1, <1>3 DEF rows, locks
    <2>2. /\ pc'[r] = "numbering"
          /\ \A s \in Requests \ {r} : pc'[s] = pc[s]
        BY <1>0, <1>3 DEF Goto, TypeOK
    <2>3. ASSUME NEW s \in Creates PROVE CreateInv(s)'
        <3>1. CASE s = r
            BY <1>0, <1>1, <1>3, <2>1, <2>2, <3>1 DEF ProcessInv, CreateInv, FreshDraft,
                StatusFits, KeyTaken, RefTaken, Recorded
        <3>2. CASE s # r
            <4>1. pc'[s] = pc[s]
                BY <2>2, <3>2
            <4> QED
                BY <1>0, <2>1, <4>1 DEF ProcessInv, CreateInv, FreshDraft, StatusFits,
                    KeyTaken, RefTaken, Recorded, YearOfRequest
        <3> QED
            BY <3>1, <3>2
    <2>4. \A v \in Voids : VoidInv(v)'
        BY <1>0, <2>1, <2>2 DEF ProcessInv, VoidInv, FreshDraft, StatusFits, Recorded
    <2>5. IndexInv'
        <3>1. \A s \in Creates \ {r} : Inserted(s) =>
                  /\ input[r].key # None => input[r].key # input[s].key
                  /\ input[r].ref # None => input[r].ref # input[s].ref
            BY <1>1 DEF IndexWait
        <3> QED
            BY <1>0, <2>1, <2>2, <3>1 DEF IndexInv
    <2> QED
        BY <2>3, <2>4, <2>5 DEF ProcessInv
<1> QED
    BY <1>2, <1>3 DEF InsertPayment

\* The year's counter is locked: nobody else is between it and its commit.
LEMMA NumberStep ==
    ASSUME LedgerInv, TypeOK', NEW r \in Creates, TakeNumber(r)
    PROVE  ProcessInv' /\ IndexInv'
<1> USE LedgerConstants DEF Requests
<1>0. TypeOK /\ ProcessInv /\ IndexInv
    BY DEF LedgerInv
<1> DEFINE y == YearOfRequest(r)
<1>1. /\ pc[r] = "numbering" /\ counterLock[y] = None
      /\ counterLock' = [counterLock EXCEPT ![y] = r]
      /\ draft' = [draft EXCEPT ![r].number = lastNumber[y] + 1]
      /\ pc' = [pc EXCEPT ![r] = "committing"]
      /\ charge' = charge /\ payment' = payment /\ lastNumber' = lastNumber
      /\ today' = today /\ input' = input /\ target' = target
      /\ chargeLock' = chargeLock /\ result' = result
    BY DEF TakeNumber, CounterFree, Goto, rows
<1>2. y \in Years /\ input[r] \in Inputs
    BY <1>0, <1>1 DEF ProcessInv, CreateInv, YearOfRequest, Years
<1>3. /\ \A s \in Requests \ {r} : pc'[s] = pc[s] /\ draft'[s] = draft[s]
      /\ pc'[r] = "committing"
      /\ draft'[r].paid = draft[r].paid
      /\ draft'[r].balance = draft[r].balance
      /\ draft'[r].status = draft[r].status
      /\ draft'[r].number = lastNumber[y] + 1
      /\ counterLock'[y] = r
      /\ \A z \in Years : z # y => counterLock'[z] = counterLock[z]
    BY <1>0, <1>1, <1>2 DEF TypeOK
<1>4. ASSUME NEW s \in Creates PROVE CreateInv(s)'
    <2>1. CASE s = r
        BY <1>0, <1>1, <1>3, <2>1 DEF ProcessInv, CreateInv, FreshDraft,
            StatusFits, KeyTaken, RefTaken, Recorded, YearOfRequest
    <2>2. CASE s # r
        <3>1. pc'[s] = pc[s] /\ draft'[s] = draft[s]
            BY <1>3, <2>2
        <3>2. pc[s] = "committing" => YearOfRequest(s) \in Years /\ YearOfRequest(s) # y
            BY <1>0, <1>1 DEF ProcessInv, CreateInv, YearOfRequest, Years
        <3> QED
            BY <1>0, <1>1, <1>3, <3>1, <3>2 DEF ProcessInv, CreateInv, FreshDraft, StatusFits,
                KeyTaken, RefTaken, Recorded, YearOfRequest
    <2> QED
        BY <2>1, <2>2
<1>5. \A v \in Voids : VoidInv(v)'
    BY <1>0, <1>1, <1>3 DEF ProcessInv, VoidInv, FreshDraft, StatusFits, Recorded
<1>6. IndexInv'
    BY <1>0, <1>1, <1>3 DEF IndexInv
<1> QED
    BY <1>4, <1>5, <1>6 DEF ProcessInv

-----------------------------------------------------------------------------
(* Steps that change the committed rows.                                   *)

\* A payment commits: row, receipt, number and charge together.
LEMMA CommitPaymentStep ==
    ASSUME LedgerInv, TypeOK', NEW r \in Creates, CommitPayment(r)
    PROVE  LedgerInv'
<1> USE LedgerConstants DEF Requests
<1>0. TypeOK /\ ProcessInv /\ IndexInv
    BY DEF LedgerInv
<1> DEFINE c == input[r].charge
           y == YearOfRequest(r)
           new == [charge |-> c, amount |-> input[r].amount, key |-> input[r].key,
                   ref |-> input[r].ref, status |-> "COMPLETED"]
           stub == [year |-> y, number |-> draft[r].number, voided |-> FALSE]
<1>1. /\ pc[r] = "committing"
      /\ charge' = [charge EXCEPT ![c] = [paid |-> draft[r].paid, balance |-> draft[r].balance,
                                          status |-> draft[r].status]]
      /\ payment' = [payment EXCEPT ![r] = new]
      /\ receipt' = [receipt EXCEPT ![r] = stub]
      /\ lastNumber' = [lastNumber EXCEPT ![y] = draft[r].number]
      /\ Release(r) /\ Goto(r, "telling") /\ result' = result
      /\ today' = today /\ input' = input /\ target' = target
    BY DEF CommitPayment
<1>2. /\ input[r] \in Inputs /\ c \in Charges /\ y \in Years
      /\ input[r].key \in Keys /\ input[r].ref \in Refs /\ input[r].amount \in Nat
      /\ ~KeyTaken(input[r].key) /\ ~RefTaken(input[r].ref)
      /\ payment[r] = None /\ chargeLock[c] = r /\ counterLock[y] = r
      /\ draft[r].number = lastNumber[y] + 1
    BY <1>0, <1>1 DEF ProcessInv, CreateInv, FreshDraft, YearOfRequest, Years, Keys, Refs
<1>3. new \in PaymentRow /\ new # None
    BY <1>2 DEF PaymentRow
<1>4. draft[r].number \in Nat /\ lastNumber[y] \in Nat
    BY <1>0, <1>2 DEF TypeOK
<1>5. stub \in ReceiptRow /\ stub # None
    <2>1. stub \in ReceiptRow
        BY <1>2, <1>4, Zenon DEF ReceiptRow
    <2> QED
        BY <2>1
<1>6. /\ pc'[r] = "telling" /\ \A s \in Requests \ {r} : pc'[s] = pc[s]
      /\ payment'[r] = new /\ \A s \in Creates \ {r} : payment'[s] = payment[s]
      /\ receipt'[r] = stub /\ \A s \in Creates \ {r} : receipt'[s] = receipt[s]
      /\ charge'[c] = [paid |-> draft[r].paid, balance |-> draft[r].balance,
                       status |-> draft[r].status]
      /\ \A k \in Charges : k # c => charge'[k] = charge[k]
      /\ lastNumber'[y] = lastNumber[y] + 1
      /\ \A z \in Years : z # y => lastNumber'[z] = lastNumber[z]
    BY <1>0, <1>1, <1>2 DEF TypeOK, Goto
<1>7. \A s \in Requests \ {r} :
          /\ \A k \in Charges : chargeLock[k] = s => chargeLock'[k] = s /\ k # c
          /\ \A z \in Years : counterLock[z] = s => counterLock'[z] = s /\ z # y
          /\ draft'[s] = draft[s]
    BY <1>0, <1>1, <1>2, ReleaseType DEF Release
<1>8. ASSUME NEW s \in Creates PROVE CreateInv(s)'
    <2>1. CASE s = r
        BY <1>0, <1>1, <1>3, <1>6, <2>1 DEF ProcessInv, CreateInv
    <2>2. CASE s # r
        <3>1. /\ pc'[s] = pc[s] /\ payment'[s] = payment[s] /\ draft'[s] = draft[s]
              /\ \A k \in Charges : chargeLock[k] = s => chargeLock'[k] = s /\ k # c
              /\ \A z \in Years : counterLock[z] = s => counterLock'[z] = s /\ z # y
            BY <1>6, <1>7, <2>2
        <3>2. InFlight(s) => input[s].charge \in Charges /\ YearOfRequest(s) \in Years
            BY <1>0 DEF ProcessInv, CreateInv, YearOfRequest, Years
        <3>3. InTransaction(s) => /\ FreshDraft(s, input[s].charge, input[s].amount)'
                                  /\ draft'[s].paid <= Expected[input[s].charge]
            BY <1>0, <1>1, <1>6, <3>1, <3>2 DEF ProcessInv, CreateInv, FreshDraft, StatusFits
        <3>4. Inserted(s) => ~KeyTaken(input[s].key)' /\ ~RefTaken(input[s].ref)'
            BY <1>0, <1>1, <1>3, <1>6, <2>2 DEF ProcessInv, CreateInv, IndexInv, KeyTaken,
                RefTaken, Recorded
        <3>5. result[s] = "replayed" => KeyTaken(input[s].key)'
            BY <1>0, <1>1, <1>2, <1>3, <1>6 DEF ProcessInv, CreateInv, KeyTaken, Recorded
        <3>6. pc[s] = "committing" =>
                 /\ counterLock'[YearOfRequest(s)] = s
                 /\ draft'[s].number = lastNumber'[YearOfRequest(s)] + 1
            BY <1>0, <1>1, <1>6, <3>1, <3>2 DEF ProcessInv, CreateInv
        <3> QED
            BY <1>0, <1>1, <3>1, <3>3, <3>4, <3>5, <3>6 DEF ProcessInv, CreateInv, KeyTaken,
                RefTaken, YearOfRequest
    <2> QED
        BY <2>1, <2>2
<1>9. ASSUME NEW v \in Voids PROVE VoidInv(v)'
    <2>1. target[v] \in Recorded => /\ target[v] \in Creates \ {r}
                                    /\ payment[target[v]].charge \in Charges
        BY <1>0, <1>2 DEF TypeOK, Recorded, PaymentRow
    <2>2. /\ pc'[v] = pc[v] /\ draft'[v] = draft[v]
          /\ \A k \in Charges : chargeLock[k] = v => chargeLock'[k] = v /\ k # c
        BY <1>6, <1>7
    <2>3. target[v] \in Recorded => /\ payment'[target[v]] = payment[target[v]]
                                    /\ target[v] \in Recorded'
        BY <1>6, <2>1 DEF Recorded
    <2> QED
        BY <1>0, <1>1, <1>6, <2>1, <2>2, <2>3 DEF ProcessInv, VoidInv, FreshDraft, StatusFits
<1>10. IndexInv'
    BY <1>0, <1>1, <1>6 DEF IndexInv
<1>11. (AmountsSane /\ StatusTellsTruth)'
    <2>1. /\ draft[r].balance = Expected[c] - draft[r].paid
          /\ draft[r].paid <= Expected[c]
          /\ draft[r].paid >= 0 => StatusFits(c, draft[r])
        BY <1>0, <1>1 DEF ProcessInv, CreateInv, FreshDraft
    <2>2. draft[r].paid >= 0
        BY <1>0, <1>1, <1>2 DEF ProcessInv, CreateInv, FreshDraft, TypeOK
    <2> QED
        BY <1>1, <1>6, <2>1, <2>2 DEF LedgerInv, AmountsSane, StatusTellsTruth, StatusFits
<1>12. GaplessReceipts'
    <2>1. /\ \A p \in Creates : receipt[p] # None =>
                receipt[p].number \in Nat /\ receipt[p].year \in Years
          /\ \A z \in Years : lastNumber[z] \in Nat
        BY <1>0 DEF TypeOK, ReceiptRow
    <2>2. \A p \in Creates : receipt'[p] # None =>
                /\ receipt'[p].number >= 1
                /\ receipt'[p].number <= lastNumber'[receipt'[p].year]
        BY <1>2, <1>4, <1>5, <1>6, <2>1 DEF LedgerInv, GaplessReceipts
    <2>3. ASSUME NEW z \in Years, NEW n \in 1..lastNumber'[z]
          PROVE  \E p \in Creates : /\ receipt'[p] # None
                                    /\ receipt'[p].year = z
                                    /\ receipt'[p].number = n
        <3>1. CASE z = y /\ n = lastNumber[y] + 1
            BY <1>2, <1>5, <1>6, <3>1
        <3>2. CASE ~(z = y /\ n = lastNumber[y] + 1)
            <4>1. n \in 1..lastNumber[z]
                BY <1>2, <1>4, <1>6, <2>1, <3>2
            <4>2. PICK p \in Creates : /\ receipt[p] # None
                                       /\ receipt[p].year = z
                                       /\ receipt[p].number = n
                BY <4>1 DEF LedgerInv, GaplessReceipts
            <4>3. p # r
                BY <1>2, <4>2 DEF LedgerInv, ReceiptMirrorsPayment
            <4> QED
                BY <1>6, <4>2, <4>3
        <3> QED
            BY <3>1, <3>2
    <2>4. \A p, q \in Creates :
             receipt'[p] # None /\ receipt'[q] # None /\ p # q
                => receipt'[p].year # receipt'[q].year \/ receipt'[p].number # receipt'[q].number
        <3>1. \A p \in Creates \ {r} : receipt[p] # None =>
                 receipt[p].year # y \/ receipt[p].number # draft[r].number
            BY <1>2, <1>4, <2>1 DEF LedgerInv, GaplessReceipts
        <3> QED
            BY <1>6, <3>1 DEF LedgerInv, GaplessReceipts
    <2> QED
        BY <2>2, <2>3, <2>4 DEF GaplessReceipts
<1>13. ReceiptMirrorsPayment'
    BY <1>3, <1>5, <1>6 DEF LedgerInv, ReceiptMirrorsPayment
<1>14. NoDoubleTaking'
    <2>1. \A q \in Creates : payment[q] # None =>
             /\ new.key # None => payment[q].key # new.key
             /\ new.ref # None => payment[q].ref # new.ref
        BY <1>2 DEF KeyTaken, RefTaken, Recorded
    <2>2. \A p, q \in Creates :
             payment[p] # None /\ payment[q] # None /\ p # q =>
                /\ payment[p].key # None => payment[p].key # payment[q].key
                /\ payment[p].ref # None => payment[p].ref # payment[q].ref
        BY DEF LedgerInv, NoDoubleTaking, Recorded
    <2>3. \A p, q \in Creates :
             payment'[p] # None /\ payment'[q] # None /\ p # q =>
                /\ payment'[p].key # None => payment'[p].key # payment'[q].key
                /\ payment'[p].ref # None => payment'[p].ref # payment'[q].ref
        <3> HIDE DEF new
        <3> QED
            BY <1>6, <2>1, <2>2
    <2> QED
        BY <2>3 DEF NoDoubleTaking, Recorded
<1> QED
    BY <1>8, <1>9, <1>10, <1>11, <1>12, <1>13, <1>14 DEF LedgerInv, ProcessInv

\* A void commits: the row it reverses keeps charge, amount and key.
LEMMA CommitVoidStep ==
    ASSUME LedgerInv, TypeOK', NEW v \in Voids, CommitVoid(v)
    PROVE  LedgerInv'
<1> USE LedgerConstants DEF Requests
<1>0. TypeOK /\ ProcessInv /\ IndexInv
    BY DEF LedgerInv
<1> DEFINE p == target[v]
           c == payment[p].charge
<1>1. /\ pc[v] = "committing" /\ draft[v].paid >= 0
      /\ payment' = [payment EXCEPT ![p] = VoidedRow(payment[p])]
      /\ charge' = [charge EXCEPT ![c] = [paid |-> draft[v].paid, balance |-> draft[v].balance,
                                          status |-> draft[v].status]]
      /\ receipt' = [receipt EXCEPT ![p].voided = TRUE]
      /\ Release(v) /\ Goto(v, "telling") /\ result' = result
      /\ today' = today /\ input' = input /\ target' = target
      /\ lastNumber' = lastNumber
    BY DEF CommitVoid, CheckHolds, VoidReceipt
<1>2. /\ p \in Creates /\ payment[p] \in PaymentRow /\ payment[p] # None
      /\ c \in Charges /\ payment[p].amount \in Nat
      /\ FreshDraft(v, c, - payment[p].amount)
    BY <1>0, <1>1 DEF ProcessInv, VoidInv, Recorded, TypeOK, PaymentRow
<1>3. receipt[p] \in ReceiptRow /\ receipt[p] # None
    BY <1>0, <1>2 DEF LedgerInv, ReceiptMirrorsPayment, TypeOK
<1>4. /\ payment'[p].charge = c /\ payment'[p].amount = payment[p].amount
      /\ payment'[p].key = payment[p].key /\ payment'[p].ref = None
      /\ payment'[p].status = "VOIDED"
      /\ payment'[p] \in PaymentRow /\ payment'[p] # None
      /\ \A q \in Creates \ {p} : payment'[q] = payment[q]
    <2>1. payment'[p] = VoidedRow(payment[p])
        BY <1>0, <1>1, <1>2 DEF TypeOK
    <2>2. \A q \in Creates \ {p} : payment'[q] = payment[q]
        BY <1>0, <1>1, <1>2 DEF TypeOK
    <2>3. /\ VoidedRow(payment[p]).charge = c
          /\ VoidedRow(payment[p]).amount = payment[p].amount
          /\ VoidedRow(payment[p]).key = payment[p].key
          /\ VoidedRow(payment[p]).ref = None
          /\ VoidedRow(payment[p]).status = "VOIDED"
          /\ VoidedRow(payment[p]) \in PaymentRow
        BY <1>2 DEF VoidedRow, PaymentRow
    <2> QED
        BY <2>1, <2>2, <2>3
<1>5. /\ receipt'[p].year = receipt[p].year /\ receipt'[p].number = receipt[p].number
      /\ receipt'[p].voided = TRUE
      /\ receipt'[p] \in ReceiptRow /\ receipt'[p] # None
      /\ \A q \in Creates \ {p} : receipt'[q] = receipt[q]
    <2>1. receipt'[p] = [receipt[p] EXCEPT !.voided = TRUE]
        BY <1>0, <1>1, <1>2 DEF TypeOK
    <2>2. \A q \in Creates \ {p} : receipt'[q] = receipt[q]
        BY <1>0, <1>1, <1>2 DEF TypeOK
    <2>3. /\ receipt'[p].year = receipt[p].year
          /\ receipt'[p].number = receipt[p].number
        BY <1>3, <2>1 DEF ReceiptRow
    <2>4. receipt'[p].voided = TRUE
        BY <1>3, <2>1 DEF ReceiptRow
    <2>5. receipt'[p] \in ReceiptRow
        BY <1>1, <1>2, <1>0, <2>1, <1>3 DEF TypeOK, ReceiptRow
    <2> QED
        BY <2>2, <2>3, <2>4, <2>5
<1>6. /\ pc'[v] = "telling" /\ \A s \in Requests \ {v} : pc'[s] = pc[s]
      /\ charge'[c] = [paid |-> draft[v].paid, balance |-> draft[v].balance,
                       status |-> draft[v].status]
      /\ \A k \in Charges : k # c => charge'[k] = charge[k]
    BY <1>0, <1>1, <1>2 DEF TypeOK, Goto
<1>7. \A s \in Requests \ {v} :
          /\ \A k \in Charges : chargeLock[k] = s => chargeLock'[k] = s /\ k # c
          /\ \A z \in Years : counterLock[z] = s => counterLock'[z] = s
          /\ draft'[s] = draft[s]
    BY <1>0, <1>1, <1>2, ReleaseType DEF Release, FreshDraft
<1>8. \A q \in Creates : /\ payment'[q] = None <=> payment[q] = None
                         /\ payment[q] # None => /\ payment'[q].charge = payment[q].charge
                                                 /\ payment'[q].amount = payment[q].amount
                                                 /\ payment'[q].key = payment[q].key
                                                 /\ payment'[q].ref \in {payment[q].ref, None}
    BY <1>2, <1>4
<1>9. ASSUME NEW s \in Creates PROVE CreateInv(s)'
    <2>1. /\ pc'[s] = pc[s] /\ draft'[s] = draft[s]
          /\ \A k \in Charges : chargeLock[k] = s => chargeLock'[k] = s /\ k # c
          /\ \A z \in Years : counterLock[z] = s => counterLock'[z] = s
        BY <1>6, <1>7
    <2>2. InFlight(s) => input[s].charge \in Charges /\ YearOfRequest(s) \in Years
        BY <1>0 DEF ProcessInv, CreateInv, YearOfRequest, Years
    <2>3. InTransaction(s) => /\ FreshDraft(s, input[s].charge, input[s].amount)'
                              /\ draft'[s].paid <= Expected[input[s].charge]
        BY <1>0, <1>1, <1>6, <2>1, <2>2 DEF ProcessInv, CreateInv, FreshDraft, StatusFits
    <2>4. /\ Inserted(s) => ~KeyTaken(input[s].key)' /\ ~RefTaken(input[s].ref)'
          /\ result[s] = "replayed" => KeyTaken(input[s].key)'
        BY <1>0, <1>1, <1>8 DEF ProcessInv, CreateInv, KeyTaken, RefTaken, Recorded
    <2> QED
        BY <1>0, <1>1, <1>8, <2>1, <2>2, <2>3, <2>4 DEF ProcessInv, CreateInv, KeyTaken,
            RefTaken, YearOfRequest
<1>10. ASSUME NEW w \in Voids PROVE VoidInv(w)'
    <2>1. target[w] \in Recorded => /\ target[w] \in Creates
                                    /\ payment[target[w]].charge \in Charges
                                    /\ target[w] \in Recorded'
                                    /\ payment'[target[w]].charge = payment[target[w]].charge
                                    /\ payment'[target[w]].amount = payment[target[w]].amount
        BY <1>0, <1>8 DEF TypeOK, Recorded, PaymentRow
    <2>2. target[w] \in Recorded /\ payment[target[w]].status = "VOIDED"
             => payment'[target[w]].status = "VOIDED"
        BY <1>4, <2>1
    <2>3. CASE w = v
        BY <1>0, <1>1, <1>4, <1>6, <2>1, <2>3, <1>2 DEF ProcessInv, VoidInv, Recorded
    <2>4. CASE w # v
        <3>1. /\ pc'[w] = pc[w] /\ draft'[w] = draft[w]
              /\ \A k \in Charges : chargeLock[k] = w => chargeLock'[k] = w /\ k # c
            BY <1>6, <1>7, <2>4
        <3>2. pc[w] = "committing" => FreshDraft(w, payment[target[w]].charge,
                                                 - payment[target[w]].amount)'
            BY <1>0, <1>1, <1>6, <2>1, <3>1 DEF ProcessInv, VoidInv, FreshDraft, StatusFits
        <3> QED
            BY <1>0, <1>1, <2>1, <2>2, <3>1, <3>2 DEF ProcessInv, VoidInv
    <2> QED
        BY <2>3, <2>4
<1>11. IndexInv'
    BY <1>0, <1>1, <1>6 DEF IndexInv
<1>12. (AmountsSane /\ StatusTellsTruth)'
    <2>1. /\ draft[v].balance = Expected[c] - draft[v].paid
          /\ draft[v].paid <= Expected[c]
          /\ StatusFits(c, draft[v])
        BY <1>0, <1>1, <1>2 DEF LedgerInv, AmountsSane, FreshDraft, TypeOK
    <2> QED
        BY <1>1, <1>6, <2>1 DEF LedgerInv, AmountsSane, StatusTellsTruth, StatusFits
<1>13. GaplessReceipts'
    <2>1. \A q \in Creates : /\ receipt'[q] = None <=> receipt[q] = None
                             /\ receipt[q] # None => /\ receipt'[q].year = receipt[q].year
                                                     /\ receipt'[q].number = receipt[q].number
        BY <1>2, <1>3, <1>5
    <2> QED
        BY <1>1, <2>1 DEF LedgerInv, GaplessReceipts
<1>14. ReceiptMirrorsPayment'
    BY <1>2, <1>3, <1>4, <1>5 DEF LedgerInv, ReceiptMirrorsPayment
<1>15. NoDoubleTaking'
    BY <1>4, <1>8 DEF LedgerInv, NoDoubleTaking, Recorded
<1> QED
    BY <1>9, <1>10, <1>11, <1>12, <1>13, <1>14, <1>15 DEF LedgerInv, ProcessInv

\* The overdue sweep changes statuses only, and only of late charges.
LEMMA SweepStep ==
    ASSUME LedgerInv, TypeOK', MarkOverdue
    PROVE  LedgerInv'
<1> USE LedgerConstants DEF Requests
<1>0. TypeOK /\ ProcessInv /\ IndexInv
    BY DEF LedgerInv
<1>1. /\ payment' = payment /\ receipt' = receipt /\ lastNumber' = lastNumber
      /\ today' = today /\ chargeLock' = chargeLock /\ counterLock' = counterLock
      /\ pc' = pc /\ input' = input /\ target' = target /\ draft' = draft /\ result' = result
    BY DEF MarkOverdue, locks
<1>2. \A c \in Charges :
          /\ charge'[c].paid = charge[c].paid
          /\ charge'[c].balance = charge[c].balance
          /\ charge'[c].status = IF Late(c) THEN "OVERDUE" ELSE charge[c].status
    BY <1>0 DEF MarkOverdue, TypeOK
<1>3. ASSUME NEW s \in Creates PROVE CreateInv(s)'
    <2>1. InFlight(s) => input[s].charge \in Charges
        BY <1>0 DEF ProcessInv, CreateInv
    <2> QED
        BY <1>0, <1>1, <1>2, <2>1 DEF ProcessInv, CreateInv, FreshDraft, StatusFits, KeyTaken,
            RefTaken, Recorded, YearOfRequest
<1>4. ASSUME NEW v \in Voids PROVE VoidInv(v)'
    <2>1. target[v] \in Recorded => payment[target[v]].charge \in Charges
        BY <1>0 DEF TypeOK, Recorded, PaymentRow
    <2> QED
        BY <1>0, <1>1, <1>2, <2>1 DEF ProcessInv, VoidInv, FreshDraft, StatusFits, Recorded
<1>5. IndexInv'
    BY <1>0, <1>1 DEF IndexInv
<1>6. (AmountsSane /\ StatusTellsTruth)'
    BY <1>0, <1>1, <1>2 DEF LedgerInv, AmountsSane, StatusTellsTruth, StatusFits, Late, TypeOK
<1>7. (GaplessReceipts /\ ReceiptMirrorsPayment /\ NoDoubleTaking)'
    BY <1>1 DEF LedgerInv, GaplessReceipts, ReceiptMirrorsPayment, NoDoubleTaking, Recorded
<1> QED
    BY <1>3, <1>4, <1>5, <1>6, <1>7 DEF LedgerInv, ProcessInv

\* A new day makes nothing untrue: what was late stays late.
LEMMA TickStep ==
    ASSUME LedgerInv, TypeOK', Tick
    PROVE  LedgerInv'
<1> USE LedgerConstants DEF Requests
<1>0. TypeOK /\ ProcessInv /\ IndexInv
    BY DEF LedgerInv
<1>1. /\ payment' = payment /\ receipt' = receipt /\ lastNumber' = lastNumber
      /\ charge' = charge /\ chargeLock' = chargeLock /\ counterLock' = counterLock
      /\ pc' = pc /\ input' = input /\ target' = target /\ draft' = draft /\ result' = result
      /\ today' = today + 1 /\ today \in Int
    BY <1>0 DEF Tick, rows, locks, TypeOK, Days
<1>2. ASSUME NEW c \in Charges, NEW row, StatusFits(c, row) PROVE StatusFits(c, row)'
    BY <1>1, <1>2 DEF StatusFits
<1>3. ASSUME NEW s \in Creates PROVE CreateInv(s)'
    <2>1. InFlight(s) => input[s].charge \in Charges
        BY <1>0 DEF ProcessInv, CreateInv
    <2> QED
        BY <1>0, <1>1, <2>1 DEF ProcessInv, CreateInv, FreshDraft, StatusFits, KeyTaken,
            RefTaken, Recorded, YearOfRequest
<1>4. ASSUME NEW v \in Voids PROVE VoidInv(v)'
    <2>1. target[v] \in Recorded => payment[target[v]].charge \in Charges
        BY <1>0 DEF TypeOK, Recorded, PaymentRow
    <2> QED
        BY <1>0, <1>1, <2>1 DEF ProcessInv, VoidInv, FreshDraft, StatusFits, Recorded
<1>5. IndexInv'
    BY <1>0, <1>1 DEF IndexInv
<1>6. (AmountsSane /\ StatusTellsTruth)'
    BY <1>1 DEF LedgerInv, AmountsSane, StatusTellsTruth, StatusFits
<1>7. (GaplessReceipts /\ ReceiptMirrorsPayment /\ NoDoubleTaking)'
    BY <1>1 DEF LedgerInv, GaplessReceipts, ReceiptMirrorsPayment, NoDoubleTaking, Recorded
<1> QED
    BY <1>3, <1>4, <1>5, <1>6, <1>7 DEF LedgerInv, ProcessInv

-----------------------------------------------------------------------------
(* The theorems.                                                           *)

\* LedgerInv is inductive: one step per action of RentLedger.
LEMMA LedgerStep == LedgerInv /\ [Next]_vars => LedgerInv'
<1> SUFFICES ASSUME LedgerInv, [Next]_vars PROVE LedgerInv'
    OBVIOUS
<1>1. TypeOK'
    BY TypeStep
<1>2. RowsInv
    BY DEF LedgerInv, RowsInv
<1>3. ASSUME UNCHANGED <<today, rows>>, ProcessInv', IndexInv' PROVE LedgerInv'
    BY <1>1, <1>2, <1>3, RowsUnchanged DEF LedgerInv, RowsInv
<1>4. ASSUME NEW r \in Creates, \/ Replay(r) \/ Receive(r) \/ CheckReference(r)
                                \/ RefuseOverpayment(r) \/ TellRecorded(r)
      PROVE  LedgerInv'
    <2>1. UNCHANGED <<today, rows>>
        BY <1>4 DEF Replay, Receive, CheckReference, RefuseOverpayment, TellRecorded
    <2> QED
        BY <1>1, <1>3, <1>4, <2>1, ReadStep
<1>5. ASSUME NEW r \in Creates, LockCharge(r) PROVE LedgerInv'
    BY <1>1, <1>3, <1>5, LockChargeStep DEF LockCharge
<1>6. ASSUME NEW r \in Creates, InsertPayment(r) PROVE LedgerInv'
    BY <1>1, <1>3, <1>6, InsertStep DEF InsertPayment
<1>7. ASSUME NEW r \in Creates, TakeNumber(r) PROVE LedgerInv'
    BY <1>1, <1>3, <1>7, NumberStep DEF TakeNumber
<1>8. ASSUME NEW r \in Creates, CommitPayment(r) PROVE LedgerInv'
    BY <1>1, <1>8, CommitPaymentStep
<1>9. ASSUME NEW v \in Voids, ReadPayment(v) PROVE LedgerInv'
    BY <1>1, <1>3, <1>9, ReadVoidStep DEF ReadPayment
<1>10. ASSUME NEW v \in Voids, LockForVoid(v) PROVE LedgerInv'
    BY <1>1, <1>3, <1>10, LockForVoidStep DEF LockForVoid
<1>11. ASSUME NEW v \in Voids, CommitVoid(v) PROVE LedgerInv'
    BY <1>1, <1>11, CommitVoidStep
<1>12. ASSUME NEW v \in Voids, RefuseVoid(v) PROVE LedgerInv'
    BY <1>1, <1>3, <1>12, RollbackStep DEF RefuseVoid, Requests
<1>13. ASSUME NEW r \in Requests, Abort(r) PROVE LedgerInv'
    BY <1>1, <1>3, <1>13, RollbackStep DEF Abort
<1>17. ASSUME NEW v \in Voids, TellVoided(v) PROVE LedgerInv'
    BY <1>1, <1>3, <1>17, TellVoidedStep DEF TellVoided
<1>14. CASE MarkOverdue
    BY <1>1, <1>14, SweepStep
<1>15. CASE Tick
    BY <1>1, <1>15, TickStep
<1>16. CASE Quiet \/ UNCHANGED vars
    <2>1. UNCHANGED vars
        BY <1>16 DEF Quiet
    <2>2. ProcessInv'
        BY <2>1 DEF vars, rows, locks, LedgerInv, ProcessInv, CreateInv, VoidInv, FreshDraft,
            KeyTaken, RefTaken, Recorded, YearOfRequest, StatusFits
    <2>3. IndexInv'
        BY <2>1 DEF vars, LedgerInv, IndexInv
    <2> QED
        BY <1>3, <2>1, <2>2, <2>3 DEF vars
<1> QED
    BY <1>4, <1>5, <1>6, <1>7, <1>8, <1>9, <1>10, <1>11, <1>12, <1>13, <1>14, <1>15, <1>16,
       <1>17 DEF Next, CreateStep, VoidStep

\* For every number of requests, voiders, charges, bodies and days, the
\* invariant of the money core holds in every reachable state.
THEOREM LedgerSafe == Spec => []LedgerInv
BY InitLedger, LedgerStep, PTL DEF Spec

\* In every reachable state of every instance: no payment breaks a CHECK, the
\* stored status fits the amounts, the receipt books have no gap, receipts
\* mirror payments, and no key or reference is taken twice.
THEOREM LedgerProperties ==
    Spec => [](/\ TypeOK /\ AmountsSane /\ StatusTellsTruth /\ GaplessReceipts
               /\ ReceiptMirrorsPayment /\ NoDoubleTaking)
<1>1. LedgerInv => /\ TypeOK /\ AmountsSane /\ StatusTellsTruth /\ GaplessReceipts
                   /\ ReceiptMirrorsPayment /\ NoDoubleTaking
    BY DEF LedgerInv
<1> QED
    BY <1>1, LedgerSafe, PTL

\* A retried request does not take the money twice and a reference is banked on
\* one payment at a time, whoever else inserts or voids at the same moment: the
\* unique indexes decide, also against entries that are not committed yet.
THEOREM TakenOnce == Spec => []NoDoubleTaking
<1>1. LedgerInv => NoDoubleTaking
    BY DEF LedgerInv
<1> QED
    BY <1>1, LedgerSafe, PTL

\* The client is told the truth as far as it is told anything: "recorded" means that
\* the payment is there, a refusal that this request took nothing, a replay that the
\* key's payment exists, "voided" that it is voided.  "failed" means neither: a
\* request that throws after its commit is answered so too.
THEOREM AnswersAreTrue == Spec => []AnswersTruthful
<1>1. LedgerInv => AnswersTruthful
    BY DEF LedgerInv, ProcessInv, CreateInv, VoidInv, AnswersTruthful
<1> QED
    BY <1>1, LedgerSafe, PTL

\* No step of any request rewrites a payment or a receipt already recorded.
THEOREM PaymentsAppendOnly == Spec => AppendOnly
<1> DEFINE Kept(p) ==
          /\ payment'[p] # None /\ receipt'[p] # None
          /\ payment'[p].charge = payment[p].charge
          /\ payment'[p].amount = payment[p].amount
          /\ payment'[p].key = payment[p].key
          /\ payment[p].status = "VOIDED" => payment'[p].status = "VOIDED"
          /\ receipt'[p].year = receipt[p].year
          /\ receipt'[p].number = receipt[p].number
<1>1. LedgerInv /\ [Next]_vars => [\A p \in Recorded : Kept(p)]_vars
    <2> SUFFICES ASSUME LedgerInv, Next, NEW p \in Recorded PROVE Kept(p)
        OBVIOUS
    <2> USE LedgerConstants
    <2>0. /\ TypeOK /\ p \in Creates /\ payment[p] \in PaymentRow /\ payment[p] # None
          /\ receipt[p] \in ReceiptRow /\ receipt[p] # None
        BY DEF LedgerInv, Recorded, TypeOK, ReceiptMirrorsPayment
    <2>1. CASE UNCHANGED <<payment, receipt>>
        BY <2>0, <2>1
    <2>2. ASSUME NEW r \in Creates, CommitPayment(r) PROVE Kept(p)
        <3>1. r # p
            BY <2>0, <2>2 DEF CommitPayment, LedgerInv, ProcessInv, CreateInv
        <3>2. payment'[p] = payment[p] /\ receipt'[p] = receipt[p]
            BY <2>0, <2>2, <3>1 DEF CommitPayment, TypeOK
        <3> QED
            BY <2>0, <3>2
    <2>3. ASSUME NEW v \in Voids, CommitVoid(v) PROVE Kept(p)
        <3>1. CASE target[v] = p
            <4>1. payment'[p] = VoidedRow(payment[p])
                BY <2>0, <2>3, <3>1 DEF CommitVoid, TypeOK
            <4>2. receipt'[p] = [receipt[p] EXCEPT !.voided = TRUE]
                BY <2>0, <2>3, <3>1 DEF CommitVoid, VoidReceipt, TypeOK
            <4>3. /\ payment'[p].charge = payment[p].charge
                  /\ payment'[p].amount = payment[p].amount
                  /\ payment'[p].key = payment[p].key
                  /\ payment'[p].status = "VOIDED"
                  /\ payment'[p] \in PaymentRow
                BY <2>0, <4>1 DEF VoidedRow, PaymentRow
            <4>4. /\ receipt'[p].year = receipt[p].year
                  /\ receipt'[p].number = receipt[p].number
                BY <2>0, <4>2 DEF ReceiptRow
            <4>5. receipt'[p] \in ReceiptRow
                BY <2>0, <4>2 DEF ReceiptRow
            <4> QED
                BY <4>3, <4>4, <4>5
        <3>2. CASE target[v] # p
            <4>1. payment'[p] = payment[p] /\ receipt'[p] = receipt[p]
                BY <2>0, <2>3, <3>2 DEF CommitVoid, VoidReceipt, TypeOK
            <4> QED
                BY <2>0, <4>1
        <3> QED
            BY <3>1, <3>2
    <2> QED
        BY <2>1, <2>2, <2>3 DEF Next, CreateStep, VoidStep, Replay, Receive, CheckReference,
            LockCharge, RefuseOverpayment, InsertPayment, TakeNumber, ReadPayment, LockForVoid,
            RefuseVoid, TellRecorded, TellVoided, Abort, MarkOverdue, Tick, Quiet, vars, rows
<1> QED
    BY <1>1, LedgerSafe, PTL DEF Spec, AppendOnly

-----------------------------------------------------------------------------
(* Voids that find their payment COMPLETED.                                *)

\* No two people are voiding one payment at the same time.
VoidsApart ==
    \A v, w \in Voids :
        /\ pc[v] \in {"locking", "committing"} /\ pc[w] \in {"locking", "committing"}
        /\ target[v] = target[w]
        => v = w

\* The status a void read before its transaction is still true in it.
StillCompleted ==
    \A v \in Voids : pc[v] \in {"locking", "committing"}
                        => payment[target[v]].status = "COMPLETED"

\* Only a void takes a payment out of COMPLETED, and only this one has it.
LEMMA StillCompletedStep ==
    LedgerInv /\ StillCompleted /\ VoidsApart /\ [Next]_vars => StillCompleted'
<1> SUFFICES ASSUME LedgerInv, StillCompleted, VoidsApart, [Next]_vars,
                    NEW v \in Voids, pc'[v] \in {"locking", "committing"}
             PROVE  payment'[target'[v]].status = "COMPLETED"
    BY DEF StillCompleted
<1> USE LedgerConstants DEF Requests
<1>0. TypeOK /\ ProcessInv /\ VoidInv(v)
    BY DEF LedgerInv, ProcessInv
<1>1. ASSUME NEW r \in Creates, Replay(r) \/ Receive(r) \/ CreateStep(r)
      PROVE  pc'[v] = pc[v] /\ target' = target
    BY <1>0, <1>1 DEF CreateStep, Replay, Receive, CheckReference, LockCharge, RefuseOverpayment,
        InsertPayment, TakeNumber, CommitPayment, TellRecorded, Answer, Goto, TypeOK
<1>2. ASSUME NEW r \in Creates, Replay(r) \/ Receive(r) \/ CreateStep(r)
      PROVE  target[v] \in Recorded => payment'[target[v]] = payment[target[v]]
    <2>1. CASE CommitPayment(r)
        <3>1. payment[r] = None
            BY <2>1 DEF CommitPayment, LedgerInv, ProcessInv, CreateInv
        <3> QED
            BY <1>0, <2>1, <3>1 DEF CommitPayment, TypeOK, Recorded
    <2>2. CASE ~CommitPayment(r)
        BY <1>2, <2>2 DEF CreateStep, Replay, Receive, CheckReference, LockCharge,
            RefuseOverpayment, InsertPayment, TakeNumber, TellRecorded, rows
    <2> QED
        BY <2>1, <2>2
<1>3. CASE \E r \in Creates : Replay(r) \/ Receive(r) \/ CreateStep(r)
    BY <1>0, <1>1, <1>2, <1>3 DEF VoidInv, StillCompleted
<1>4. CASE ReadPayment(v)
    <2>a. \A outcome : ~Answer(v, outcome)
        BY <1>0 DEF Answer, Goto, TypeOK
    <2>1. PICK p \in Completed : target' = [target EXCEPT ![v] = p]
        BY <1>4, <2>a DEF ReadPayment
    <2> QED
        BY <1>0, <1>4, <2>1 DEF ReadPayment, rows, TypeOK, Completed, Recorded
<1>5. CASE LockForVoid(v)
    BY <1>0, <1>5 DEF LockForVoid, rows, StillCompleted
<1>6. CASE CommitVoid(v) \/ RefuseVoid(v) \/ TellVoided(v) \/ Abort(v)
    BY <1>0, <1>6 DEF CommitVoid, RefuseVoid, TellVoided, Abort, Answer, Goto, TypeOK
<1>7. CASE \E r \in Creates : Abort(r)
    BY <1>0, <1>7 DEF Abort, Answer, Goto, TypeOK, StillCompleted, rows
<1>8. CASE MarkOverdue \/ Tick \/ Quiet \/ UNCHANGED vars
    BY <1>8 DEF MarkOverdue, Tick, Quiet, vars, rows, StillCompleted
<1>9. ASSUME NEW w \in Voids, w # v, ReadPayment(w) \/ VoidStep(w) \/ Abort(w)
      PROVE  payment'[target'[v]].status = "COMPLETED"
    <2>1. pc'[v] = pc[v] /\ target'[v] = target[v]
        BY <1>0, <1>9 DEF ReadPayment, VoidStep, LockForVoid, CommitVoid, RefuseVoid, TellVoided,
            Abort, Answer, Goto, TypeOK
    <2>2. payment[target[v]].status = "COMPLETED" /\ target[v] \in Creates
        BY <1>0, <2>1 DEF StillCompleted, VoidInv, Recorded
    <2>3. CASE CommitVoid(w)
        <3>1. target[w] # target[v]
            BY <1>9, <2>1, <2>3 DEF VoidsApart, CommitVoid
        <3> QED
            BY <1>0, <2>1, <2>2, <2>3, <3>1 DEF CommitVoid, TypeOK
    <2>4. CASE ~CommitVoid(w)
        BY <1>9, <2>1, <2>2, <2>4 DEF ReadPayment, VoidStep, LockForVoid, RefuseVoid, TellVoided,
            Abort, rows
    <2> QED
        BY <2>3, <2>4
<1> QED
    BY <1>3, <1>4, <1>5, <1>6, <1>7, <1>8, <1>9 DEF Next, VoidStep

-----------------------------------------------------------------------------
(* What a charge says was paid, against the payments there are.            *)

\* Amounts are integers, and finitely many payments are ever recorded.
LEMMA CompletedSums ==
    ASSUME TypeOK, IsFiniteSet(Recorded), NEW c \in Charges
    PROVE  /\ IsFiniteSet(CompletedOn(c)) /\ CompletedOn(c) \subseteq Recorded
           /\ \A p \in Recorded : AmountOf[p] \in Nat
           /\ SumCompleted(c) \in Nat
<1>1. CompletedOn(c) \subseteq Recorded
    BY DEF CompletedOn, Completed
<1>2. IsFiniteSet(CompletedOn(c))
    BY <1>1, FS_Subset
<1>3. \A p \in Recorded : AmountOf[p] \in Nat
    BY DEF AmountOf, Recorded, TypeOK, PaymentRow
<1>4. SumFunctionOnSet(AmountOf, CompletedOn(c)) \in Nat
    BY <1>1, <1>2, <1>3, SumType
<1> QED
    BY <1>1, <1>2, <1>3, <1>4 DEF SumCompleted

\* A step that leaves the payments alone leaves their sums alone.
LEMMA SumKept ==
    ASSUME payment' = payment
    PROVE  /\ Recorded' = Recorded
           /\ \A c \in Charges : SumCompleted(c)' = SumCompleted(c)
BY DEF SumCompleted, AmountOf, CompletedOn, Completed, Recorded

\* A recorded payment raises the sum of its charge by its amount.
LEMMA SumWithPayment ==
    ASSUME LedgerInv, IsFiniteSet(Recorded), NEW r \in Creates, CommitPayment(r),
           NEW c \in Charges
    PROVE  /\ Recorded' = Recorded \cup {r}
           /\ SumCompleted(c)' = IF c = input[r].charge
                                 THEN SumCompleted(c) + input[r].amount
                                 ELSE SumCompleted(c)
<1> USE LedgerConstants DEF Requests
<1> DEFINE row == [charge |-> input[r].charge, amount |-> input[r].amount,
                   key |-> input[r].key, ref |-> input[r].ref, status |-> "COMPLETED"]
           old == CompletedOn(c)
<1>0. TypeOK /\ CreateInv(r) /\ pc[r] = "committing" /\ payment[r] = None
    BY DEF LedgerInv, ProcessInv, CommitPayment, CreateInv
<1>1. /\ payment' = [payment EXCEPT ![r] = row] /\ row \in PaymentRow /\ row # None
      /\ input[r].amount \in Nat
    BY <1>0 DEF CommitPayment, CreateInv, PaymentRow, Keys, Refs
<1>2. /\ payment'[r] = row
      /\ \A p \in Creates \ {r} : payment'[p] = payment[p]
    BY <1>0, <1>1 DEF TypeOK
<1>3. /\ row.status = "COMPLETED" /\ row.charge = input[r].charge
      /\ row.amount = input[r].amount
    OBVIOUS
<1> HIDE DEF row
<1>4. Recorded' = Recorded \cup {r} /\ r \notin Recorded
    BY <1>0, <1>1, <1>2 DEF Recorded
<1>5. CompletedOn(c)' = IF c = input[r].charge THEN old \cup {r} ELSE old
    BY <1>2, <1>3, <1>4 DEF CompletedOn, Completed, Recorded
<1>6. /\ IsFiniteSet(old) /\ r \notin old /\ SumCompleted(c) \in Nat
      /\ \A p \in old : AmountOf'[p] = AmountOf[p] /\ AmountOf[p] \in Nat
      /\ AmountOf'[r] = input[r].amount
    <2>1. IsFiniteSet(old) /\ old \subseteq Recorded /\ SumCompleted(c) \in Nat
          /\ \A p \in Recorded : AmountOf[p] \in Nat
        BY <1>0, CompletedSums
    <2>2. \A p \in Recorded : AmountOf'[p] = AmountOf[p]
        BY <1>2, <1>4 DEF AmountOf, Recorded
    <2>3. AmountOf'[r] = input[r].amount
        BY <1>2, <1>3, <1>4 DEF AmountOf
    <2> QED
        BY <1>4, <2>1, <2>2, <2>3
<1> HIDE DEF old
<1>7. SumFunctionOnSet(AmountOf', old) = SumCompleted(c)
    BY <1>6, SumSame DEF SumCompleted, old
<1>8. SumFunctionOnSet(AmountOf', old \cup {r})
         = input[r].amount + SumFunctionOnSet(AmountOf', old)
    <2>1. \A p \in old \cup {r} : AmountOf'[p] \in Int
        BY <1>1, <1>6
    <2> QED
        BY <1>6, <2>1, SumAdd
<1>9. SumCompleted(c)' = IF c = input[r].charge THEN SumFunctionOnSet(AmountOf', old \cup {r})
                                                ELSE SumFunctionOnSet(AmountOf', old)
    BY <1>5 DEF SumCompleted
<1> QED
    BY <1>1, <1>4, <1>6, <1>7, <1>8, <1>9

\* A void lowers the sum by the amount, unless the payment was VOIDED already.
LEMMA SumWithVoid ==
    ASSUME LedgerInv, IsFiniteSet(Recorded), NEW v \in Voids, CommitVoid(v),
           NEW c \in Charges
    PROVE  /\ Recorded' = Recorded
           /\ SumCompleted(c)' = IF target[v] \in CompletedOn(c)
                                 THEN SumCompleted(c) - payment[target[v]].amount
                                 ELSE SumCompleted(c)
<1> USE LedgerConstants DEF Requests
<1> DEFINE p == target[v]
           old == CompletedOn(c)
<1>0. TypeOK /\ VoidInv(v) /\ pc[v] = "committing"
    BY DEF LedgerInv, ProcessInv, CommitVoid
<1>1. /\ p \in Creates /\ p \in Recorded /\ payment[p] \in PaymentRow /\ payment[p] # None
      /\ payment' = [payment EXCEPT ![p] = VoidedRow(payment[p])]
    BY <1>0 DEF VoidInv, Recorded, TypeOK, CommitVoid
<1>2. /\ payment'[p].status = "VOIDED" /\ payment'[p].amount = payment[p].amount
      /\ payment'[p] # None
      /\ \A q \in Creates \ {p} : payment'[q] = payment[q]
    <2>1. VoidedRow(payment[p]) \in PaymentRow
        BY <1>1 DEF VoidedRow, PaymentRow
    <2> QED
        BY <1>0, <1>1, <2>1 DEF VoidedRow, TypeOK, PaymentRow
<1> HIDE DEF p
<1>3. Recorded' = Recorded
    BY <1>1, <1>2 DEF Recorded
<1>4. CompletedOn(c)' = old \ {p}
    BY <1>1, <1>2, <1>3 DEF CompletedOn, Completed, Recorded
<1>5. /\ IsFiniteSet(old) /\ SumCompleted(c) \in Nat
      /\ \A q \in old : AmountOf'[q] = AmountOf[q] /\ AmountOf[q] \in Nat
      /\ AmountOf[p] = payment[p].amount
    <2>1. IsFiniteSet(old) /\ old \subseteq Recorded /\ SumCompleted(c) \in Nat
          /\ \A q \in Recorded : AmountOf[q] \in Nat
        BY <1>0, CompletedSums
    <2>2. \A q \in Recorded : AmountOf'[q] = AmountOf[q]
        BY <1>2, <1>3 DEF AmountOf, Recorded
    <2> QED
        BY <1>1, <2>1, <2>2 DEF AmountOf
<1> HIDE DEF old
<1>6. IsFiniteSet(old \ {p}) /\ SumFunctionOnSet(AmountOf, old \ {p}) \in Nat
    <2>1. IsFiniteSet(old \ {p})
        BY <1>5, FS_Subset
    <2> QED
        BY <1>5, <2>1, SumType
<1>7. SumCompleted(c)' = SumFunctionOnSet(AmountOf, old \ {p})
    <2>1. SumFunctionOnSet(AmountOf', old \ {p}) = SumFunctionOnSet(AmountOf, old \ {p})
        BY <1>5, <1>6, SumSame
    <2> QED
        BY <1>4, <2>1 DEF SumCompleted
<1>8. SumCompleted(c) = SumFunctionOnSet(AmountOf, old)
    BY DEF SumCompleted, old
<1>9. CASE p \in old
    <2>1. SumFunctionOnSet(AmountOf, old) = AmountOf[p] + SumFunctionOnSet(AmountOf, old \ {p})
        BY <1>5, <1>9, SumByElement
    <2>2. AmountOf[p] \in Nat
        BY <1>5, <1>9
    <2>3. SumCompleted(c)' = SumCompleted(c) - payment[p].amount
        BY <1>5, <1>6, <1>7, <1>8, <2>1, <2>2
    <2> QED
        BY <1>3, <1>9, <2>3 DEF p, old
<1>10. CASE p \notin old
    <2>1. old \ {p} = old
        BY <1>10
    <2> QED
        BY <1>3, <1>7, <1>8, <1>10, <2>1 DEF p, old
<1> QED
    BY <1>9, <1>10

\* Every step that is neither of the two leaves the payments and what charges
\* say was paid alone.
LEMMA OtherStepsKeepPaid ==
    ASSUME TypeOK, [Next]_vars
    PROVE  \/ \E r \in Creates : CommitPayment(r)
           \/ \E v \in Voids : CommitVoid(v)
           \/ payment' = payment /\ \A c \in Charges : charge'[c].paid = charge[c].paid
<1>1. CASE UNCHANGED rows
    BY <1>1 DEF rows
<1>2. CASE MarkOverdue
    BY <1>2 DEF MarkOverdue, TypeOK
<1> QED
    BY <1>1, <1>2 DEF Next, CreateStep, VoidStep, Replay, Receive, CheckReference, LockCharge,
        RefuseOverpayment, InsertPayment, TakeNumber, ReadPayment, LockForVoid, RefuseVoid,
        TellRecorded, TellVoided, Abort, Tick, Quiet, vars

\* What the two commits do to what a charge says was paid.
LEMMA PaidMoves ==
    ASSUME LedgerInv, NEW c \in Charges
    PROVE  /\ \A r \in Creates : CommitPayment(r) =>
                 /\ charge'[c].paid = IF c = input[r].charge
                                      THEN charge[c].paid + input[r].amount
                                      ELSE charge[c].paid
                 /\ input[r].amount \in Nat
           /\ \A v \in Voids : CommitVoid(v) =>
                 /\ charge'[c].paid = IF c = payment[target[v]].charge
                                      THEN charge[c].paid - payment[target[v]].amount
                                      ELSE charge[c].paid
                 /\ target[v] \in Recorded /\ payment[target[v]].amount \in Nat
           /\ charge[c].paid \in Nat
<1> USE LedgerConstants DEF Requests
<1>0. TypeOK /\ ProcessInv
    BY DEF LedgerInv
<1>1. ASSUME NEW r \in Creates, CommitPayment(r)
      PROVE  /\ charge'[c].paid = IF c = input[r].charge THEN charge[c].paid + input[r].amount
                                                          ELSE charge[c].paid
             /\ input[r].amount \in Nat
    <2>1. draft[r].paid = charge[input[r].charge].paid + input[r].amount
          /\ input[r].charge \in Charges /\ input[r].amount \in Nat
        BY <1>0, <1>1 DEF ProcessInv, CreateInv, FreshDraft, CommitPayment
    <2> QED
        BY <1>0, <1>1, <2>1 DEF CommitPayment, TypeOK
<1>2. ASSUME NEW v \in Voids, CommitVoid(v)
      PROVE  /\ charge'[c].paid = IF c = payment[target[v]].charge
                                  THEN charge[c].paid - payment[target[v]].amount
                                  ELSE charge[c].paid
             /\ target[v] \in Recorded /\ payment[target[v]].amount \in Nat
    <2>1. /\ target[v] \in Recorded
          /\ draft[v].paid = charge[payment[target[v]].charge].paid + (- payment[target[v]].amount)
        BY <1>0, <1>2 DEF ProcessInv, VoidInv, FreshDraft, CommitVoid
    <2>2. payment[target[v]] \in PaymentRow
        BY <1>0, <2>1 DEF Recorded, TypeOK
    <2>3. payment[target[v]].charge \in Charges /\ payment[target[v]].amount \in Nat
        BY <2>2 DEF PaymentRow
    <2>4. charge[payment[target[v]].charge].paid \in Nat
        BY <1>0, <2>3 DEF TypeOK
    <2> QED
        BY <1>0, <1>2, <2>1, <2>3, <2>4 DEF CommitVoid, TypeOK
<1> QED
    BY <1>0, <1>1, <1>2 DEF TypeOK

\* What one step does to what a charge says was paid and to what its payments
\* back: it never turns the two round, nor, while voids find their payment
\* COMPLETED, apart.
BackedStep(c) ==
    /\ charge[c].paid <= SumCompleted(c) => charge'[c].paid <= SumCompleted(c)'
    /\ StillCompleted /\ charge[c].paid = SumCompleted(c) => charge'[c].paid = SumCompleted(c)'

LEMMA BackedAlways ==
    ASSUME LedgerInv, IsFiniteSet(Recorded), [Next]_vars
    PROVE  IsFiniteSet(Recorded') /\ \A c \in Charges : BackedStep(c)
<1>0. /\ TypeOK
      /\ \A c \in Charges : charge[c].paid \in Nat /\ SumCompleted(c) \in Nat
    BY CompletedSums DEF LedgerInv, TypeOK
<1>1. ASSUME NEW r \in Creates, CommitPayment(r)
      PROVE  IsFiniteSet(Recorded') /\ \A c \in Charges : BackedStep(c)
    <2>1. input[r].charge \in Charges
        BY <1>1, LedgerConstants DEF LedgerInv, ProcessInv, CreateInv, CommitPayment
    <2>2. Recorded' = Recorded \cup {r}
        BY <1>1, <2>1, SumWithPayment
    <2>3. ASSUME NEW c \in Charges PROVE BackedStep(c)
        BY <1>0, <1>1, SumWithPayment, PaidMoves DEF BackedStep
    <2> QED
        BY <2>2, <2>3, FS_AddElement
<1>2. ASSUME NEW v \in Voids, CommitVoid(v)
      PROVE  Recorded' = Recorded /\ \A c \in Charges : BackedStep(c)
    <2> DEFINE p == target[v]
    <2>1. /\ p \in Recorded /\ payment[p].charge \in Charges /\ payment[p].amount \in Nat
        <3>1. p \in Recorded
            BY <1>2 DEF LedgerInv, ProcessInv, VoidInv, CommitVoid
        <3>2. payment[p] \in PaymentRow
            BY <1>0, <3>1 DEF Recorded, TypeOK
        <3> QED
            BY <3>1, <3>2 DEF PaymentRow
    <2>2. Recorded' = Recorded
        BY <1>2, <2>1, SumWithVoid
    <2>3. ASSUME NEW c \in Charges PROVE BackedStep(c)
        <3>1. charge'[c].paid = IF c = payment[p].charge THEN charge[c].paid - payment[p].amount
                                                         ELSE charge[c].paid
            BY <1>2, PaidMoves
        <3>2. SumCompleted(c)' = IF p \in CompletedOn(c) THEN SumCompleted(c) - payment[p].amount
                                                         ELSE SumCompleted(c)
            BY <1>2, SumWithVoid
        <3>3. p \in CompletedOn(c) <=> /\ payment[p].status = "COMPLETED"
                                       /\ c = payment[p].charge
            BY <2>1 DEF CompletedOn, Completed
        <3>4. StillCompleted => payment[p].status = "COMPLETED"
            BY <1>2 DEF StillCompleted, CommitVoid
        <3> HIDE DEF p
        <3> QED
            BY <1>0, <2>1, <3>1, <3>2, <3>3, <3>4 DEF BackedStep
    <2> QED
        BY <2>2, <2>3
<1>3. ASSUME payment' = payment, \A c \in Charges : charge'[c].paid = charge[c].paid
      PROVE  Recorded' = Recorded /\ \A c \in Charges : BackedStep(c)
    BY <1>3, SumKept DEF BackedStep
<1> QED
    BY <1>1, <1>2, <1>3, <1>0, OtherStepsKeepPaid

LEMMA NothingPaidAtFirst ==
    ASSUME Init
    PROVE  /\ IsFiniteSet(Recorded) /\ StillCompleted
           /\ \A c \in Charges : charge[c].paid = 0 /\ SumCompleted(c) = 0
<1>1. Recorded = {} /\ \A c \in Charges : CompletedOn(c) = {} /\ charge[c].paid = 0
    BY DEF Init, Recorded, Completed, CompletedOn
<1>2. StillCompleted
    BY LedgerConstants DEF Init, StillCompleted, Requests
<1> QED
    BY <1>1, <1>2, FS_EmptySet, SumOfNone DEF SumCompleted

\* However many requests record, void and retry at once, a charge never counts
\* as paid what no completed payment backs: a payment that two people void at
\* once is taken off its charge twice, and nothing is ever added twice.
THEOREM PaidStaysBacked == Spec => []PaidIsBacked
<1> DEFINE Inv == LedgerInv /\ IsFiniteSet(Recorded) /\ PaidIsBacked
<1>1. Init => Inv
    BY InitLedger, NothingPaidAtFirst DEF PaidIsBacked
<1>2. Inv /\ [Next]_vars => Inv'
    <2> SUFFICES ASSUME Inv, [Next]_vars PROVE LedgerInv' /\ IsFiniteSet(Recorded)' /\ PaidIsBacked'
        OBVIOUS
    <2>1. LedgerInv' /\ IsFiniteSet(Recorded')
        BY LedgerStep, BackedAlways
    <2>2. \A c \in Charges : BackedStep(c)
        BY BackedAlways
    <2> QED
        BY <2>1, <2>2 DEF BackedStep, PaidIsBacked
<1> QED
    BY <1>1, <1>2, PTL DEF Spec

LEMMA BooksReconcile ==
    Spec /\ []VoidsApart
        => [](LedgerInv /\ StillCompleted /\ IsFiniteSet(Recorded) /\ Reconciled)
<1> DEFINE Inv == LedgerInv /\ StillCompleted /\ IsFiniteSet(Recorded) /\ Reconciled
<1>1. Init => Inv
    BY InitLedger, NothingPaidAtFirst DEF Reconciled
<1>2. Inv /\ VoidsApart /\ [Next]_vars => Inv'
    <2> SUFFICES ASSUME Inv, VoidsApart, [Next]_vars
                 PROVE  LedgerInv' /\ StillCompleted' /\ IsFiniteSet(Recorded)' /\ Reconciled'
        OBVIOUS
    <2>1. LedgerInv' /\ StillCompleted' /\ IsFiniteSet(Recorded')
        BY LedgerStep, StillCompletedStep, BackedAlways
    <2>2. \A c \in Charges : BackedStep(c)
        BY BackedAlways
    <2> QED
        BY <2>1, <2>2 DEF BackedStep, Reconciled
<1> QED
    BY <1>1, <1>2, PTL DEF Spec

\* As long as no two people void one payment at the same time, a charge's
\* paidAmount is, between any two transactions, exactly the sum of its
\* completed payments: the locked transaction loses no update.
THEOREM LedgerReconciles == Spec /\ []VoidsApart => []Reconciled
<1> DEFINE Inv == LedgerInv /\ StillCompleted /\ IsFiniteSet(Recorded) /\ Reconciled
<1>1. Inv => Reconciled
    OBVIOUS
<1> QED
    BY <1>1, BooksReconcile, PTL

-----------------------------------------------------------------------------
(* The locked transactions implement the one-step book.                    *)

\* A commit is a Record of the book.
LEMMA CommitIsRecord ==
    ASSUME LedgerInv, NEW r \in Creates, CommitPayment(r)
    PROVE  Book!Record(r)
<1> USE LedgerConstants DEF Requests
<1>0. TypeOK /\ CreateInv(r) /\ pc[r] = "committing"
    BY DEF LedgerInv, ProcessInv, CommitPayment
<1> DEFINE c == input[r].charge
           y == YearOfRequest(r)
           row == [charge |-> c, amount |-> input[r].amount, key |-> input[r].key,
                   ref |-> input[r].ref, status |-> "COMPLETED"]
<1>1. /\ input[r] \in Inputs /\ c \in Charges /\ y \in Years /\ input[r].amount \in Nat
      /\ input[r].amount > 0 /\ input[r].key \in Keys /\ input[r].ref \in Refs
      /\ ~KeyTaken(input[r].key) /\ ~RefTaken(input[r].ref)
      /\ draft[r].paid = charge[c].paid + input[r].amount /\ draft[r].paid <= Expected[c]
      /\ draft[r].number = lastNumber[y] + 1
      /\ payment[r] = None
    BY <1>0 DEF CreateInv, FreshDraft, YearOfRequest, Years, Keys, Refs, CommitPayment, LedgerInv,
        ProcessInv
<1>2. row \in PaymentRow /\ row # None
    BY <1>1 DEF PaymentRow
<1>3. payment'[r] = row /\ payment' = [payment EXCEPT ![r] = row]
    BY <1>0 DEF CommitPayment, TypeOK
<1>4. [k \in Charges |-> charge'[k].paid]
         = [[k \in Charges |-> charge[k].paid] EXCEPT ![c] = @ + row.amount]
    BY <1>0, <1>1 DEF CommitPayment, TypeOK
<1>5. /\ lastNumber' = [lastNumber EXCEPT ![y] = @ + 1]
      /\ receipt' = [receipt EXCEPT ![r] =
                        [year |-> y, number |-> lastNumber[y] + 1, voided |-> FALSE]]
    BY <1>1 DEF CommitPayment
<1>6. ~Book!Used("key", row.key) /\ ~Book!Used("ref", row.ref)
    BY <1>1 DEF Book!Used, KeyTaken, RefTaken, Recorded
<1>7. charge[c].paid + row.amount <= Expected[c]
    BY <1>1
<1> HIDE DEF row
<1>8. row.status = "COMPLETED" /\ row.charge = c /\ row.amount > 0
    BY <1>1 DEF row
<1> QED
    BY <1>1, <1>2, <1>3, <1>4, <1>5, <1>6, <1>7, <1>8 DEF Book!Record

\* A void that commits, on a payment still COMPLETED, is a Void of the book.
LEMMA CommitIsVoid ==
    ASSUME LedgerInv, StillCompleted, NEW v \in Voids, CommitVoid(v)
    PROVE  \E p \in Creates : Book!Void(p)
<1> USE LedgerConstants DEF Requests
<1>0. TypeOK /\ VoidInv(v) /\ pc[v] = "committing"
    BY DEF LedgerInv, ProcessInv, CommitVoid
<1>a. PICK p \in Creates : p = target[v]
    BY <1>0 DEF VoidInv, Recorded
<1> DEFINE c == payment[p].charge
<1>1. /\ payment[p] \in PaymentRow /\ payment[p] # None
      /\ c \in Charges /\ payment[p].amount \in Nat
      /\ draft[v].paid = charge[c].paid - payment[p].amount
    BY <1>0, <1>a DEF VoidInv, FreshDraft, Recorded, TypeOK, PaymentRow
<1>2. payment[p].status = "COMPLETED"
    BY <1>0, <1>a DEF StillCompleted
<1>3. [k \in Charges |-> charge'[k].paid]
         = [[k \in Charges |-> charge[k].paid] EXCEPT ![c] = @ - payment[p].amount]
    BY <1>0, <1>1, <1>a DEF CommitVoid, TypeOK
<1>4. payment' = [payment EXCEPT ![p].status = "VOIDED", ![p].ref = None]
    BY <1>0, <1>1, <1>a DEF CommitVoid, VoidedRow, TypeOK
<1>5. receipt' = [receipt EXCEPT ![p].voided = TRUE] /\ lastNumber' = lastNumber
    BY <1>a DEF CommitVoid, VoidReceipt
<1> QED
    BY <1>1, <1>2, <1>3, <1>4, <1>5 DEF Book!Void

\* As long as no two people void one payment at the same time, recording and
\* voiding through locks, drafts and commits are single steps of the payment
\* book: every charge moves by exactly the payments made and voided.
THEOREM LedgerImplementsBook == Spec /\ []VoidsApart => ImplementsBook
<1>1. Init => Book!Init /\ StillCompleted
    BY LedgerConstants DEF Init, Book!Init, StillCompleted, Requests
<1>2. LedgerInv /\ StillCompleted /\ [Next]_vars => [Book!Next]_(Book!bookVars)
    <2> SUFFICES ASSUME LedgerInv, StillCompleted, [Next]_vars
                 PROVE  Book!Next \/ UNCHANGED Book!bookVars
        OBVIOUS
    <2>1. ASSUME NEW r \in Creates, CommitPayment(r) PROVE Book!Next
        BY <2>1, CommitIsRecord DEF Book!Next
    <2>2. ASSUME NEW v \in Voids, CommitVoid(v) PROVE Book!Next
        BY <2>2, CommitIsVoid DEF Book!Next
    <2>3. CASE MarkOverdue
        BY <2>3 DEF MarkOverdue, LedgerInv, TypeOK, Book!bookVars
    <2>4. CASE UNCHANGED rows
        BY <2>4 DEF rows, Book!bookVars
    <2> QED
        BY <2>1, <2>2, <2>3, <2>4 DEF Next, CreateStep, VoidStep, Replay, Receive,
            CheckReference, LockCharge, RefuseOverpayment, InsertPayment, TakeNumber,
            ReadPayment, LockForVoid, RefuseVoid, TellRecorded, TellVoided, Abort, Tick, Quiet, vars
<1>3. LedgerInv /\ StillCompleted /\ VoidsApart /\ [Next]_vars => StillCompleted'
    BY StillCompletedStep
<1> QED
    BY <1>1, <1>2, <1>3, LedgerSafe, PTL DEF Spec, ImplementsBook, Book!Spec

-----------------------------------------------------------------------------
(* What the screens make of it (Figures).                                  *)

\* A payment keeps the body of the request that made it, and its date is a day
\* that has come.
BodiesKept == \A p \in Recorded : input[p].date \in Days

LEMMA BodiesStep ==
    ASSUME LedgerInv, BodiesKept, [Next]_vars
    PROVE  BodiesKept'
<1> USE LedgerConstants DEF Requests
<1>0. TypeOK /\ ProcessInv
    BY DEF LedgerInv
<1>1. ASSUME NEW r \in Creates, Replay(r) \/ Receive(r) PROVE BodiesKept'
    <2>1. payment' = payment /\ r \notin Recorded
        BY <1>0, <1>1 DEF Replay, Receive, rows, ProcessInv, CreateInv, Recorded
    <2>2. \A p \in Recorded : input'[p] = input[p]
        BY <1>0, <1>1, <2>1 DEF Replay, Receive, TypeOK, Recorded
    <2> QED
        BY <2>1, <2>2 DEF BodiesKept, Recorded
<1>2. ASSUME NEW r \in Creates, CommitPayment(r) PROVE BodiesKept'
    <2>1. input' = input /\ input[r].date \in Days
        BY <1>0, <1>2 DEF CommitPayment, ProcessInv, CreateInv
    <2>2. Recorded' \subseteq Recorded \cup {r}
        BY <1>0, <1>2 DEF CommitPayment, Recorded, TypeOK
    <2> QED
        BY <2>1, <2>2 DEF BodiesKept
<1>3. ASSUME NEW v \in Voids, CommitVoid(v) PROVE BodiesKept'
    <2>1. input' = input /\ target[v] \in Recorded
        BY <1>0, <1>3 DEF CommitVoid, ProcessInv, VoidInv
    <2>2. Recorded' \subseteq Recorded
        BY <1>0, <1>3, <2>1 DEF CommitVoid, Recorded, TypeOK
    <2> QED
        BY <2>1, <2>2 DEF BodiesKept
<1>4. CASE UNCHANGED <<payment, input>>
    BY <1>4 DEF BodiesKept, Recorded
<1> QED
    BY <1>1, <1>2, <1>3, <1>4 DEF Next, CreateStep, VoidStep, CheckReference, LockCharge,
        RefuseOverpayment, InsertPayment, TakeNumber, ReadPayment, LockForVoid, RefuseVoid,
        TellRecorded, TellVoided, Abort, MarkOverdue, Tick, Quiet, vars, rows

LEMMA YearsFinite == IsFiniteSet(Years)
<1>1. YearOf \in Surjection(Days, Years)
    BY LedgerConstants DEF Surjection, Years
<1>2. IsFiniteSet(Days)
    BY LedgerConstants, FS_Interval DEF Days
<1> QED
    BY <1>1, <1>2, FS_Surjection

\* What the columns of a charge hold, and that an expected amount is what was
\* paid and what is left.
LEMMA Columns ==
    ASSUME LedgerInv
    PROVE  \A c \in Charges :
              /\ PaidOf[c] = charge[c].paid /\ PaidOf[c] \in Nat
              /\ BalanceLeft[c] = charge[c].balance /\ BalanceLeft[c] \in Nat
              /\ Expected[c] \in Nat /\ Expected[c] = PaidOf[c] + BalanceLeft[c]
BY LedgerConstants DEF LedgerInv, TypeOK, AmountsSane, PaidOf, BalanceLeft

\* Charges nobody owes on add nothing to the balance, and only those owing can be
\* overdue.
LEMMA BalanceOfOwing ==
    ASSUME LedgerInv, NEW cs \in SUBSET Charges
    PROVE  /\ IsFiniteSet(cs) /\ IsFiniteSet(Owing(cs)) /\ Owing(cs) \subseteq cs
           /\ Balance(Owing(cs)) = Balance(cs)
           /\ Balance(Overdue(cs)) <= Balance(cs)
           /\ Charged(cs) = Paid(cs) + Balance(cs)
           /\ Charged(Owing(cs)) = Paid(Owing(cs)) + Balance(Owing(cs))
           /\ Paid(cs) \in Nat /\ Balance(cs) \in Nat /\ Paid(Owing(cs)) \in Nat
<1>1. Owing(cs) \subseteq cs /\ Overdue(cs) \subseteq cs
    BY DEF Owing, Overdue
<1>2. IsFiniteSet(cs) /\ IsFiniteSet(Owing(cs))
    BY <1>1, FigureConstants, FS_Subset
<1>3. \A c \in cs : /\ PaidOf[c] \in Nat /\ BalanceLeft[c] \in Nat /\ Expected[c] \in Nat
                    /\ Expected[c] = PaidOf[c] + BalanceLeft[c]
                    /\ c \notin Owing(cs) => BalanceLeft[c] = 0
    BY Columns DEF Owing
<1>4. Balance(Owing(cs)) = Balance(cs) /\ Balance(Overdue(cs)) <= Balance(cs)
    BY <1>1, <1>2, <1>3, SumOfPart DEF Balance
<1>5. Charged(cs) = Paid(cs) + Balance(cs)
    BY <1>2, <1>3, SumPlus DEF Charged, Paid, Balance
<1>6. Charged(Owing(cs)) = Paid(Owing(cs)) + Balance(Owing(cs))
    BY <1>1, <1>2, <1>3, SumPlus DEF Charged, Paid, Balance
<1>7. Paid(cs) \in Nat /\ Balance(cs) \in Nat /\ Paid(Owing(cs)) \in Nat
    BY <1>1, <1>2, <1>3, SumType DEF Paid, Balance
<1> QED
    BY <1>1, <1>2, <1>4, <1>5, <1>6, <1>7

\* The payments of some months' charges are what those charges say was paid.
LEMMA TakingsArePaid ==
    ASSUME LedgerInv, Reconciled, IsFiniteSet(Recorded), NEW months
    PROVE  Takings(For(months)) = Paid(ChargesOf(months))
<1> DEFINE K == ChargesOf(months)
           S == For(months)
           ofCharge == [p \in Recorded |-> payment[p].charge]
           part == [c \in K |-> {p \in S : ofCharge[p] = c}]
<1>1. IsFiniteSet(K) /\ K \subseteq Charges
    BY FigureConstants, FS_Subset DEF ChargesOf
<1>2. S \subseteq Recorded /\ IsFiniteSet(S)
    BY FS_Subset DEF For, Banked, Completed
<1>3. \A p \in S : AmountOf[p] \in Int /\ ofCharge[p] \in K
    BY <1>2 DEF AmountOf, For, ChargesOf, Recorded, LedgerInv, TypeOK, PaymentRow
<1>4. \A c \in K : /\ part[c] = {p \in S : ofCharge[p] = c}
                  /\ PaidOf[c] = SumFunctionOnSet(AmountOf, part[c])
    <2> SUFFICES ASSUME NEW c \in K
                 PROVE  PaidOf[c] = SumFunctionOnSet(AmountOf, {p \in S : ofCharge[p] = c})
        OBVIOUS
    <2>1. {p \in S : ofCharge[p] = c} = CompletedOn(c)
        BY DEF For, ChargesOf, CompletedOn, Banked, Completed
    <2>2. PaidOf[c] = SumCompleted(c)
        BY <1>1 DEF PaidOf, Reconciled
    <2> QED
        BY <2>1, <2>2 DEF SumCompleted
<1> HIDE DEF K, S, ofCharge, part
<1>5. SumFunctionOnSet(PaidOf, K) = SumFunctionOnSet(AmountOf, S)
    BY <1>1, <1>2, <1>3, <1>4, SumByGroup
<1> QED
    BY <1>5 DEF Takings, Paid, K, S

\* Whatever month it is for and whatever month it came in, a payment counts in the
\* figures of all the months.
LEMMA AllMonths ==
    ASSUME LedgerInv, BodiesKept
    PROVE  Within(Years) = Banked /\ For(Years) = Banked
<1>1. \A p \in Banked : PeriodOf[payment[p].charge] \in Years /\ MonthPaid(p) \in Years
    BY FigureConstants DEF Banked, Completed, Recorded, LedgerInv, TypeOK, PaymentRow, MonthPaid,
        BodiesKept, Years
<1> QED
    BY <1>1 DEF Within, For

LEMMA FiguresAddUp ==
    ASSUME LedgerInv, Reconciled, BodiesKept, IsFiniteSet(Recorded)
    PROVE  PeriodsAddUp
<1>1. ASSUME NEW m \in Years
      PROVE  LET s == RentSummary(m)  i == IncomeReport({m})  o == OutstandingRentReport({m}) IN
             /\ s.collected = Paid(ChargesOf({m}))
             /\ s.expected = s.collected + s.outstanding
             /\ s.expected = i.expected /\ s.outstanding = i.outstanding
             /\ s.outstanding = o.balance
             /\ s.outstanding = DashboardSummary(m).outstanding
             /\ s.expected - o.expected = s.collected - o.paid
             /\ s.overdue <= s.outstanding
    <2> DEFINE cs == ChargesOf({m})
    <2>1. cs \in SUBSET Charges
        BY DEF ChargesOf
    <2>2. Takings(For({m})) = Paid(cs)
        BY TakingsArePaid
    <2> HIDE DEF cs
    <2>3. /\ Balance(Owing(cs)) = Balance(cs)
          /\ Balance(Overdue(cs)) <= Balance(cs)
          /\ Charged(cs) = Paid(cs) + Balance(cs)
          /\ Charged(Owing(cs)) = Paid(Owing(cs)) + Balance(Owing(cs))
          /\ Paid(cs) \in Nat /\ Balance(cs) \in Nat /\ Paid(Owing(cs)) \in Nat
        BY <2>1, BalanceOfOwing
    <2>4. Charged(cs) - Charged(Owing(cs)) = Paid(cs) - Paid(Owing(cs))
        BY <2>3
    <2> QED
        BY <2>2, <2>3, <2>4 DEF RentSummary, IncomeReport, OutstandingRentReport,
            DashboardSummary, cs
<1>2. IncomeReport(Years).collected = RentCollectionReport(Years)
    <2>1. Takings(For(Years)) = Paid(ChargesOf(Years))
        BY TakingsArePaid
    <2> QED
        BY <2>1, AllMonths DEF IncomeReport, RentCollectionReport
<1> QED
    BY <1>1, <1>2 DEF PeriodsAddUp

\* As long as no two people void one payment at the same time, what a period's
\* payments add up to is what its charges say was paid, with what is owing it is
\* what was charged, the rent summary, the dashboard and the two reports tell alike
\* what a period's charges come to and what is left of them, and over all months
\* the income report and the collection report come to the same: after every step
\* of every request, whatever its interleaving.  That the income report would show a
\* late payment in the month it arrived is not claimed: its query does not.
THEOREM ScreensAddUp == Spec /\ []VoidsApart => []PeriodsAddUp
<1> DEFINE Inv == LedgerInv /\ StillCompleted /\ IsFiniteSet(Recorded) /\ Reconciled
<1>1. Spec /\ []VoidsApart => []Inv
    BY BooksReconcile
<1>2. Init => BodiesKept
    BY DEF Init, BodiesKept, Recorded
<1>3. LedgerInv /\ BodiesKept /\ [Next]_vars => BodiesKept'
    BY BodiesStep
<1>4. Inv /\ BodiesKept => PeriodsAddUp
    BY FiguresAddUp
<1> QED
    BY <1>1, <1>2, <1>3, <1>4, PTL DEF Spec

LEMMA BasesAddUp ==
    ASSUME LedgerInv, BodiesKept, IsFiniteSet(Recorded)
    PROVE  BasesAgree
<1> DEFINE period == [p \in Recorded |-> PeriodOf[payment[p].charge]]
           paidIn == [p \in Recorded |-> MonthPaid(p)]
           collectedFor == [m \in Years |-> RentSummary(m).collected]
           collectedIn == [m \in Years |-> Chart(Years)[m].collected]
           overdueOf == [m \in Years |-> RentSummary(m).overdue]
           periodPart == [m \in Years |-> {p \in Banked : period[p] = m}]
           paidInPart == [m \in Years |-> {p \in Banked : paidIn[p] = m}]
           overduePart == [m \in Years |-> {c \in OverdueRent : PeriodOf[c] = m}]
<1>1. /\ IsFiniteSet(Years) /\ Banked \subseteq Recorded /\ IsFiniteSet(Banked)
      /\ \A p \in Banked : /\ AmountOf[p] \in Int
                            /\ period[p] \in Years /\ paidIn[p] \in Years
    <2>1. Banked \subseteq Recorded
        BY DEF Banked, Completed
    <2>2. \A p \in Recorded : /\ AmountOf[p] \in Int
                              /\ PeriodOf[payment[p].charge] \in Years /\ MonthPaid(p) \in Years
        BY FigureConstants DEF AmountOf, Recorded, LedgerInv, TypeOK, PaymentRow, MonthPaid,
            BodiesKept, Years
    <2> QED
        BY <2>1, <2>2, YearsFinite, FS_Subset
<1>2. Within(Years) = Banked
    BY AllMonths
<1>3. \A m \in Years : /\ periodPart[m] = {p \in Banked : period[p] = m}
                      /\ collectedFor[m] = SumFunctionOnSet(AmountOf, periodPart[m])
                      /\ paidInPart[m] = {p \in Banked : paidIn[p] = m}
                      /\ collectedIn[m] = SumFunctionOnSet(AmountOf, paidInPart[m])
    <2> SUFFICES ASSUME NEW m \in Years
                 PROVE  /\ collectedFor[m] = SumFunctionOnSet(AmountOf, {p \in Banked : period[p] = m})
                        /\ collectedIn[m] = SumFunctionOnSet(AmountOf, {p \in Banked : paidIn[p] = m})
        OBVIOUS
    <2>1. For({m}) = {p \in Banked : period[p] = m} /\ Within({m}) = {p \in Banked : paidIn[p] = m}
        BY <1>1 DEF For, Within
    <2>2. collectedFor[m] = Takings(For({m})) /\ collectedIn[m] = Takings(Within({m}))
        BY DEF RentSummary, Chart
    <2> QED
        BY <2>1, <2>2 DEF Takings
<1>4. \A m \in Years : /\ overduePart[m] = {c \in OverdueRent : PeriodOf[c] = m}
                      /\ overdueOf[m] = SumFunctionOnSet(BalanceLeft, overduePart[m])
    <2> SUFFICES ASSUME NEW m \in Years
                 PROVE  overdueOf[m] = SumFunctionOnSet(BalanceLeft, {c \in OverdueRent : PeriodOf[c] = m})
        OBVIOUS
    <2>1. Overdue(ChargesOf({m})) = {c \in OverdueRent : PeriodOf[c] = m}
        BY DEF Overdue, OverdueRent, Owing, ChargesOf
    <2>2. overdueOf[m] = Balance(Overdue(ChargesOf({m})))
        BY DEF RentSummary
    <2> QED
        BY <2>1, <2>2 DEF Balance
<1>5. /\ OverdueRent \subseteq Charges /\ IsFiniteSet(OverdueRent)
      /\ \A c \in OverdueRent : BalanceLeft[c] \in Int /\ PeriodOf[c] \in Years
    <2>1. OverdueRent \subseteq Charges
        BY DEF OverdueRent, Overdue, Owing
    <2> QED
        BY <2>1, Columns, FigureConstants, FS_Subset
<1>6. SumFunction(collectedFor) = RentCollectionReport(Years)
    <2> HIDE DEF collectedFor, collectedIn, period, paidIn, periodPart, paidInPart
    <2>1. SumFunctionOnSet(collectedFor, Years) = SumFunctionOnSet(AmountOf, Banked)
        <3>1. /\ \A p \in Banked : AmountOf[p] \in Int
              /\ \A p \in Banked : period[p] \in Years
              /\ \A m \in Years : periodPart[m] = {p \in Banked : period[p] = m}
              /\ \A m \in Years : collectedFor[m] = SumFunctionOnSet(AmountOf, periodPart[m])
            BY <1>1, <1>3
        <3> QED
            BY <1>1, <3>1, SumByGroup
    <2>2. DOMAIN collectedFor = Years
        BY DEF collectedFor
    <2> QED
        BY <1>2, <2>1, <2>2 DEF SumFunction, RentCollectionReport, Takings
<1>7. SumFunction(collectedIn) = RentCollectionReport(Years)
    <2> HIDE DEF collectedFor, collectedIn, period, paidIn, periodPart, paidInPart
    <2>1. SumFunctionOnSet(collectedIn, Years) = SumFunctionOnSet(AmountOf, Banked)
        <3>1. /\ \A p \in Banked : AmountOf[p] \in Int
              /\ \A p \in Banked : paidIn[p] \in Years
              /\ \A m \in Years : paidInPart[m] = {p \in Banked : paidIn[p] = m}
              /\ \A m \in Years : collectedIn[m] = SumFunctionOnSet(AmountOf, paidInPart[m])
            BY <1>1, <1>3
        <3> QED
            BY <1>1, <3>1, SumByGroup
    <2>2. DOMAIN collectedIn = Years
        BY DEF collectedIn
    <2> QED
        BY <1>2, <2>1, <2>2 DEF SumFunction, RentCollectionReport, Takings
<1>8. SumFunction(overdueOf) = Balance(OverdueRent)
    <2> HIDE DEF overdueOf, overduePart
    <2>1. SumFunctionOnSet(overdueOf, Years) = SumFunctionOnSet(BalanceLeft, OverdueRent)
        BY <1>1, <1>4, <1>5, SumByGroup
    <2>2. DOMAIN overdueOf = Years
        BY DEF overdueOf
    <2> QED
        BY <2>1, <2>2 DEF SumFunction, Balance
<1>9. TotalOutstanding(today - 1) = Balance(OverdueRent)
    <2>1. {c \in Owing(Charges) : DueDate[c] <= today - 1} = OverdueRent
        BY LedgerConstants DEF OverdueRent, Overdue, Owing, LedgerInv, TypeOK, Days
    <2> QED
        BY <2>1 DEF TotalOutstanding
<1>10. \A m \in Years : DashboardSummary(m).overdue = Balance(OverdueRent)
    BY DEF DashboardSummary, OverdueRent
<1>11. {c \in Charges : charge[c].status = "OVERDUE"} \subseteq OverdueRent
    BY DEF OverdueRent, Overdue, Owing, LedgerInv, StatusTellsTruth, StatusFits
<1> QED
    BY <1>6, <1>7, <1>8, <1>9, <1>10, <1>11 DEF BasesAgree

\* Counted by the month it came or by the month it was for, the money collected is
\* the same in the end, and the overdue figure of the dashboard is that of the
\* worklist and of the periods together: whatever is recorded and voided at once.
THEOREM BasesAlwaysAgree == Spec => []BasesAgree
<1> DEFINE Inv == LedgerInv /\ BodiesKept /\ IsFiniteSet(Recorded)
<1>1. Init => Inv
    BY InitLedger, NothingPaidAtFirst DEF Init, BodiesKept, Recorded
<1>2. Inv /\ [Next]_vars => Inv'
    BY LedgerStep, BodiesStep, BackedAlways
<1>3. Inv => BasesAgree
    BY BasesAddUp
<1> QED
    BY <1>1, <1>2, <1>3, PTL DEF Spec
=============================================================================
