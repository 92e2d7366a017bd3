----------------------------- MODULE PaymentBook -----------------------------
(***************************************************************************)
(* What the money core promises, with no requests, locks or transactions:  *)
(* a book of payments in which recording one and voiding one each happen   *)
(* in a single step, move the charge's paid total by exactly the amount,   *)
(* and keep a receipt book without gaps.  RentLedger implements it.        *)
(***************************************************************************)
EXTENDS Integers

CONSTANTS Slots,      \* names a payment can have
          Charges, Expected, Years, None

VARIABLES paid,       \* what each charge counts as paid
          payment,    \* the payments recorded, None for a free slot
          receipt,    \* the receipt of each payment
          lastNumber  \* the last number used in each year's receipt book

bookVars == <<paid, payment, receipt, lastNumber>>

Init ==
    /\ paid = [c \in Charges |-> 0]
    /\ payment = [p \in Slots |-> None]
    /\ receipt = [p \in Slots |-> None]
    /\ lastNumber = [y \in Years |-> 0]

Used(field, value) ==
    value # None /\ \E q \in Slots : payment[q] # None /\ payment[q][field] = value

\* Money is taken once per key and per live reference, never beyond the charge,
\* and the next number of its year's book is issued with it.
Record(p) ==
    /\ payment[p] = None
    /\ LET row == payment'[p] IN
          /\ row # None
          /\ row.status = "COMPLETED"
          /\ row.charge \in Charges
          /\ row.amount > 0
          /\ paid[row.charge] + row.amount <= Expected[row.charge]
          /\ ~Used("key", row.key)
          /\ ~Used("ref", row.ref)
          /\ payment' = [payment EXCEPT ![p] = row]
          /\ paid' = [paid EXCEPT ![row.charge] = @ + row.amount]
    /\ \E y \in Years :
          /\ lastNumber' = [lastNumber EXCEPT ![y] = @ + 1]
          /\ receipt' = [receipt EXCEPT ![p] =
                            [year |-> y, number |-> lastNumber[y] + 1, voided |-> FALSE]]

\* Voiding puts the charge back where it was; the receipt keeps its number and
\* the payment its amount and key.
Void(p) ==
    /\ payment[p] # None
    /\ payment[p].status = "COMPLETED"
    /\ payment' = [payment EXCEPT ![p].status = "VOIDED", ![p].ref = None]
    /\ paid' = [paid EXCEPT ![payment[p].charge] = @ - payment[p].amount]
    /\ receipt' = [receipt EXCEPT ![p].voided = TRUE]
    /\ UNCHANGED lastNumber

Next == \E p \in Slots : Record(p) \/ Void(p)

Spec == Init /\ [][Next]_bookVars
=============================================================================
