---------------------------- MODULE NightlyProofs ----------------------------
(***************************************************************************)
(* What holds of Billing for every calendar, any number of leases, months, *)
(* presses of the button and processes with a nightly job; and, from there, *)
(* of Nightly for any number of readers, processes that sweep and facts a  *)
(* sweep may list.                                                         *)
(***************************************************************************)
EXTENDS Nightly, SequenceTheorems, TLAPS

-----------------------------------------------------------------------------
(* Values.                                                                 *)

LEMMA Today ==
    ASSUME day \in Days
    PROVE  ThisMonth \in Months
BY BillingConstants DEF ThisMonth

LEMMA RunFields ==
    ASSUME BillingTypeOK, NEW r \in Runs, run[r] # None
    PROVE  /\ run[r] \in Run
           /\ run[r].stage = "insert" => run[r].month \in Months /\ run[r].bills \subseteq Bill
BY DEF BillingTypeOK, Run

LEMMA RunIsNotNone ==
    ASSUME NEW q \in Run
    PROVE  q # None
BY BillingConstants

LEMMA LeaseIsRow ==
    /\ \A row \in Lease : row # None
    /\ BillingTypeOK => \A l \in Leases : Signed(l) => lease[l] \in Lease
BY BillingConstants DEF BillingTypeOK, Signed

LEMMA ChargeAt ==
    ASSUME BillingTypeOK, NEW l \in Leases, NEW m \in Months
    PROVE  /\ charges[l][m] \in Seq(Charge)
           /\ \A i \in DOMAIN charges[l][m] : charges[l][m][i] \in Charge
BY DEF BillingTypeOK

\* The parts of BillingInv that speak of charges, and those that do not.
ChargesSound ==
    /\ charges \in [Leases -> [Months -> Seq(Charge)]]
    /\ OneChargePerMonth /\ NoneBeforeStart /\ OverdueIsLate

RunsSound ==
    /\ run \in [Runs -> Run \cup {None}]
    /\ generates \in BOOLEAN
    /\ BillsCovered

LEMMA Parts ==
    BillingInv <=> /\ day \in Days
                   /\ lease \in [Leases -> Lease \cup {None}]
                   /\ ChargesSound
                   /\ RunsSound
BY DEF BillingInv, BillingTypeOK, ChargesSound, RunsSound

LEMMA Together ==
    ASSUME day' \in Days, lease' \in [Leases -> Lease \cup {None}], ChargesSound', RunsSound'
    PROVE  BillingInv'
BY DEF BillingInv, BillingTypeOK, ChargesSound, RunsSound

-----------------------------------------------------------------------------
(* What a step leaves alone.                                               *)

\* Leases may change, as long as none is unsigned or moved to another start.
StartsKept ==
    \A l \in Leases : Signed(l) => lease'[l] # None /\ lease'[l].start = lease[l].start

LEMMA RunsAlone ==
    ASSUME BillingInv, UNCHANGED <<run, generates>>, StartsKept
    PROVE  RunsSound'
PROOF
<1>1. ASSUME NEW r \in Runs, run[r] # None, run[r].stage = "insert", NEW b \in run[r].bills
      PROVE  lease'[b.lease] # None /\ lease'[b.lease].start <= FinalDay[run[r].month]
  <2>1. b \in Bill
    BY <1>1, RunFields DEF BillingInv
  <2>2. b.lease \in Leases
    BY <2>1 DEF Bill
  <2>3. Signed(b.lease) /\ lease[b.lease].start <= FinalDay[run[r].month]
    BY <1>1 DEF BillingInv, BillsCovered
  <2> QED
    BY <2>2, <2>3 DEF StartsKept
<1> QED
  BY <1>1 DEF BillingInv, BillingTypeOK, RunsSound, BillsCovered, Signed

\* A later day makes nothing that was late early.
LEMMA ChargesAlone ==
    ASSUME BillingInv, UNCHANGED charges, StartsKept, day' \in Days, day <= day'
    PROVE  ChargesSound'
PROOF
<1>1. OneChargePerMonth' /\ charges' \in [Leases -> [Months -> Seq(Charge)]]
  BY DEF BillingInv, BillingTypeOK, OneChargePerMonth
<1>2. NoneBeforeStart'
  BY DEF BillingInv, NoneBeforeStart, StartsKept, Signed
<1>3. OverdueIsLate'
  <2>1. \A m \in Months : Due(m) \in Nat
    BY BillingConstants DEF Due
  <2>2. day \in Nat /\ day' \in Nat
    BY BillingConstants DEF BillingInv, BillingTypeOK, Days
  <2> QED
    BY <2>1, <2>2 DEF BillingInv, OverdueIsLate, Due
<1> QED
  BY <1>1, <1>2, <1>3 DEF ChargesSound

\* One run moves on without touching the leases.
LEMMA RunMoves ==
    ASSUME BillingInv, NEW r \in Runs, UNCHANGED <<lease, generates>>,
           NEW q \in Run \cup {None}, run' = [run EXCEPT ![r] = q],
           q # None /\ q.stage = "insert" =>
               \A b \in q.bills : /\ Signed(b.lease)
                                  /\ lease[b.lease].start <= FinalDay[q.month]
    PROVE  RunsSound'
PROOF
<1>1. \A k \in Runs : run'[k] = IF k = r THEN q ELSE run[k]
  BY DEF BillingInv, BillingTypeOK
<1>2. run' \in [Runs -> Run \cup {None}] /\ generates' \in BOOLEAN
  BY DEF BillingInv, BillingTypeOK
<1>3. BillsCovered'
  BY <1>1 DEF BillingInv, BillsCovered, Signed
<1> QED
  BY <1>2, <1>3 DEF RunsSound

-----------------------------------------------------------------------------
(* Generation.                                                             *)

LEMMA ReadingKeeps ==
    ASSUME BillingInv, NEW r \in Runs, NEW scope \in SUBSET Leases, NEW m \in Months,
           ReadLeases(r, scope, m)
    PROVE  BillingInv'
PROOF
<1> DEFINE bills == {[lease |-> l, amount |-> lease[l].rent] : l \in Billable(scope, m)}
           q == [stage |-> "insert", month |-> m, bills |-> bills]
<1>1. \A l \in Billable(scope, m) : /\ l \in Leases /\ Signed(l) /\ lease[l] \in Lease
                                    /\ lease[l].start <= FinalDay[m]
  BY LeaseIsRow DEF BillingInv, Billable, IsLive, leaseCoversPeriod
<1>2. bills \subseteq Bill
  BY <1>1 DEF Bill, Lease
<1>3. q \in Run
  BY <1>2 DEF Run
<1>4. run' = [run EXCEPT ![r] = q] /\ UNCHANGED <<day, lease, charges, generates>>
  BY DEF ReadLeases
<1>5. \A b \in q.bills : Signed(b.lease) /\ lease[b.lease].start <= FinalDay[q.month]
  BY <1>1
<1>6. RunsSound'
  <2> HIDE DEF q
  <2> QED
    BY <1>3, <1>4, <1>5, RunMoves
<1>7. ChargesSound'
  BY <1>4 DEF BillingInv, BillingTypeOK, ChargesSound, OneChargePerMonth, NoneBeforeStart,
     OverdueIsLate, Signed
<1> QED
  BY <1>4, <1>6, <1>7, Together DEF BillingInv, BillingTypeOK

\* What the insert does to one lease's month: nothing, or the first charge.
LEMMA Inserted ==
    ASSUME BillingInv, NEW r \in Runs, InsertCharges(r), NEW l \in Leases, NEW m \in Months
    PROVE  \/ charges'[l][m] = charges[l][m]
           \/ /\ charges[l][m] = <<>>
              /\ charges'[l][m] \in Seq(Charge) /\ Len(charges'[l][m]) = 1
              /\ charges'[l][m][1].status = "PENDING"
              /\ Signed(l)
              /\ lease[l].start <= FinalDay[m]
PROOF
<1> DEFINE billed == m = run[r].month /\ \E b \in run[r].bills : b.lease = l
           bill == CHOOSE b \in run[r].bills : b.lease = l
<1>1. charges'[l][m] = IF billed THEN Written(l, m, bill.amount) ELSE charges[l][m]
  BY DEF InsertCharges
<1>2. CASE ~billed
  BY <1>1, <1>2
<1>3. CASE billed
  <2>1. bill \in run[r].bills /\ bill.lease = l
    BY <1>3
  <2>2. bill \in Bill
    BY <2>1, RunFields DEF BillingInv, InsertCharges
  <2>3. bill.amount \in Rents
    BY <2>2 DEF Bill
  <2>4. Signed(l) /\ lease[l].start <= FinalDay[m]
    BY <1>3, <2>1 DEF BillingInv, BillsCovered, InsertCharges
  <2>5. charges'[l][m] = Written(l, m, bill.amount)
    BY <1>1, <1>3
  <2> HIDE DEF bill
  <2> DEFINE c == [amount |-> bill.amount, status |-> "PENDING"]
  <2>6. CASE charges[l][m] = <<>>
    <3>1. c \in Charge /\ c.status = "PENDING"
      BY <2>3 DEF Charge
    <3>2. charges'[l][m] = Append(charges[l][m], c)
      BY <2>5, <2>6 DEF Written, IndexAdmits
    <3> HIDE DEF c
    <3>3. charges[l][m] \in Seq(Charge) /\ Len(charges[l][m]) = 0
      BY <2>6
    <3>4. /\ charges'[l][m] \in Seq(Charge) /\ Len(charges'[l][m]) = 1
          /\ charges'[l][m][1] = c
      BY <3>1, <3>2, <3>3
    <3> QED
      BY <2>4, <2>6, <3>1, <3>4
  <2>7. CASE charges[l][m] # <<>>
    BY <2>5, <2>7 DEF Written, IndexAdmits
  <2> QED
    BY <2>6, <2>7
<1> QED
  BY <1>2, <1>3

LEMMA InsertingKeeps ==
    ASSUME BillingInv, NEW r \in Runs, InsertCharges(r)
    PROVE  BillingInv'
PROOF
<1>1. UNCHANGED <<day, lease, generates>> /\ run' = [run EXCEPT ![r] = [stage |-> "mark"]]
  BY DEF InsertCharges
<1>2. \A l \in Leases, m \in Months : charges'[l][m] \in Seq(Charge)
  <2> SUFFICES ASSUME NEW l \in Leases, NEW m \in Months
               PROVE  charges'[l][m] \in Seq(Charge)
    OBVIOUS
  <2>1. charges[l][m] \in Seq(Charge)
    BY ChargeAt DEF BillingInv
  <2> QED
    BY <2>1, Inserted
<1>3. charges' \in [Leases -> [Months -> Seq(Charge)]]
  BY <1>2 DEF InsertCharges
<1>4. OneChargePerMonth'
  <2> SUFFICES ASSUME NEW l \in Leases, NEW m \in Months
               PROVE  Len(charges'[l][m]) <= 1
    BY DEF OneChargePerMonth
  <2>1. CASE charges'[l][m] = charges[l][m]
    BY <2>1 DEF BillingInv, OneChargePerMonth
  <2>2. CASE Len(charges'[l][m]) = 1
    BY <2>2
  <2> QED
    BY <2>1, <2>2, Inserted
<1>5. NoneBeforeStart'
  BY <1>1, Inserted DEF BillingInv, NoneBeforeStart, Signed
<1>6. OverdueIsLate'
  <2> SUFFICES ASSUME NEW l \in Leases, NEW m \in Months, NEW i \in DOMAIN charges'[l][m],
                      charges'[l][m][i].status = "OVERDUE"
               PROVE  Due(m) < day
    BY <1>1 DEF OverdueIsLate, Due
  <2>1. CASE charges'[l][m] = charges[l][m]
    BY <2>1 DEF BillingInv, OverdueIsLate
  <2>2. CASE Len(charges'[l][m]) = 1 /\ charges'[l][m][1].status = "PENDING"
    <3>1. i = 1
      BY <1>2, <2>2
    <3> QED
      BY <2>2, <3>1
  <2> QED
    BY <2>1, <2>2, Inserted
<1>7. RunsSound'
  BY <1>1, RunMoves DEF Run
<1> QED
  BY <1>1, <1>3, <1>4, <1>5, <1>6, <1>7, Together DEF ChargesSound, BillingInv, BillingTypeOK

\* Charges that change status only, to OVERDUE only when late, stay sound.
LEMMA StatusesOnly ==
    ASSUME BillingInv, UNCHANGED <<day, lease>>,
           charges' \in [Leases -> [Months -> Seq(Charge)]],
           \A l \in Leases, m \in Months :
               /\ DOMAIN charges'[l][m] = DOMAIN charges[l][m]
               /\ Len(charges'[l][m]) = Len(charges[l][m])
               /\ \A i \in DOMAIN charges[l][m] :
                     charges'[l][m][i].status = "OVERDUE" =>
                         charges[l][m][i].status = "OVERDUE" \/ Due(m) < day
    PROVE  ChargesSound'
PROOF
<1>1. OneChargePerMonth'
  BY DEF BillingInv, OneChargePerMonth
<1>2. \A l \in Leases, m \in Months : charges[l][m] = <<>> => charges'[l][m] = <<>>
  BY ChargeAt DEF BillingInv
<1>3. NoneBeforeStart'
  BY <1>2 DEF BillingInv, NoneBeforeStart, Signed
<1>4. OverdueIsLate'
  BY DEF BillingInv, OverdueIsLate, Due
<1> QED
  BY <1>1, <1>3, <1>4 DEF ChargesSound

\* The sweep, and a payment or a void, rewrite each charge's status and no more.
LEMMA Marked ==
    ASSUME BillingInv, NEW r \in Runs, MarkOverdue(r), NEW l \in Leases, NEW m \in Months
    PROVE  /\ charges'[l][m] \in Seq(Charge)
           /\ DOMAIN charges'[l][m] = DOMAIN charges[l][m]
           /\ Len(charges'[l][m]) = Len(charges[l][m])
           /\ \A i \in DOMAIN charges[l][m] :
                 /\ charges'[l][m][i] =
                        IF Late(charges[l][m][i], m)
                        THEN [charges[l][m][i] EXCEPT !.status = "OVERDUE"] ELSE charges[l][m][i]
                 /\ charges'[l][m][i] \in Charge
PROOF
<1>1. charges'[l][m] = [i \in DOMAIN charges[l][m] |->
          IF Late(charges[l][m][i], m) THEN [charges[l][m][i] EXCEPT !.status = "OVERDUE"]
                                       ELSE charges[l][m][i]]
  BY DEF MarkOverdue
<1>2. charges[l][m] \in Seq(Charge)
  BY ChargeAt DEF BillingInv
<1>3. \A c \in Charge : [c EXCEPT !.status = "OVERDUE"] \in Charge
  BY DEF Charge
<1>4. \A i \in DOMAIN charges[l][m] : charges'[l][m][i] \in Charge
  BY <1>1, <1>2, <1>3
<1>5. DOMAIN charges'[l][m] = 1 .. Len(charges[l][m]) /\ Len(charges[l][m]) \in Nat
  BY <1>1, <1>2
<1>6. charges'[l][m] \in [1 .. Len(charges[l][m]) -> Charge]
  BY <1>1, <1>2, <1>4, <1>5
<1>7. charges'[l][m] \in Seq(Charge) /\ Len(charges'[l][m]) = Len(charges[l][m])
  BY <1>5, <1>6, LenProperties, SeqDef
<1> QED
  BY <1>1, <1>2, <1>4, <1>5, <1>7

LEMMA MarkingKeeps ==
    ASSUME BillingInv, NEW r \in Runs, MarkOverdue(r)
    PROVE  BillingInv'
PROOF
<1>1. UNCHANGED <<day, lease, generates>> /\ run' = [run EXCEPT ![r] = None]
  BY DEF MarkOverdue
<1>2. charges' \in [Leases -> [Months -> Seq(Charge)]]
  <2>1. \A l \in Leases, m \in Months : charges'[l][m] \in Seq(Charge)
    BY Marked
  <2> QED
    BY <2>1 DEF MarkOverdue
<1>3. \A l \in Leases, m \in Months : \A i \in DOMAIN charges[l][m] :
          charges'[l][m][i].status = "OVERDUE" =>
              charges[l][m][i].status = "OVERDUE" \/ Due(m) < day
  BY Marked DEF Late
<1>4. ChargesSound'
  BY <1>1, <1>2, <1>3, Marked, StatusesOnly
<1>5. RunsSound'
  BY <1>1, RunMoves
<1> QED
  BY <1>1, <1>4, <1>5, Together DEF BillingInv, BillingTypeOK

LEMMA CrashKeeps ==
    ASSUME BillingInv, NEW r \in Runs, Crash(r)
    PROVE  BillingInv'
PROOF
<1>1. RunsSound'
  BY RunMoves DEF Crash
<1>2. ChargesSound'
  BY DEF Crash, BillingInv, BillingTypeOK, ChargesSound, OneChargePerMonth, NoneBeforeStart,
     OverdueIsLate, Signed
<1> QED
  BY <1>1, <1>2, Together DEF Crash, BillingInv, BillingTypeOK

-----------------------------------------------------------------------------
(* Leases, payments and the calendar.                                      *)

LEMMA LeaseRowKept ==
    ASSUME BillingInv, NEW l \in Leases, NEW row \in Lease,
           SetLease(l, row), Signed(l) => row.start = lease[l].start
    PROVE  BillingInv'
PROOF
<1>1. \A k \in Leases : lease'[k] = IF k = l THEN row ELSE lease[k]
  BY DEF SetLease, BillingInv, BillingTypeOK
<1>2. StartsKept
  BY <1>1, LeaseIsRow DEF StartsKept, Signed
<1>3. UNCHANGED <<day, charges, run, generates>> /\ lease' \in [Leases -> Lease \cup {None}]
  BY DEF SetLease, BillingInv, BillingTypeOK
<1>4. day \in Nat
  BY BillingConstants DEF BillingInv, BillingTypeOK, Days
<1> QED
  BY <1>2, <1>3, <1>4, RunsAlone, ChargesAlone, Together DEF BillingInv, BillingTypeOK

LEMMA LeaseStepKeeps ==
    ASSUME BillingInv, NEW l \in Leases, LeaseStep(l)
    PROVE  BillingInv'
PROOF
<1>1. CASE Sign(l)
  <2>1. PICK s \in Starts, e \in Ends \cup {None}, rent \in Rents :
            /\ ~Signed(l)
            /\ SetLease(l, [status |-> "LIVE", start |-> s, end |-> e, rent |-> rent])
    BY <1>1 DEF Sign
  <2>2. [status |-> "LIVE", start |-> s, end |-> e, rent |-> rent] \in Lease
    BY DEF Lease
  <2> QED
    BY <2>1, <2>2, LeaseRowKept
<1>2. CASE Signed(l) /\ Edit(l)
  <2>1. lease[l] \in Lease
    BY <1>2, LeaseIsRow DEF BillingInv
  <2>2. PICK e \in Ends \cup {lease[l].end}, rent \in Rents :
            SetLease(l, [lease[l] EXCEPT !.end = e, !.rent = rent])
    BY <1>2 DEF Edit
  <2>3. [lease[l] EXCEPT !.end = e, !.rent = rent] \in Lease
    BY <2>1 DEF Lease
  <2>4. [lease[l] EXCEPT !.end = e, !.rent = rent].start = lease[l].start
    BY <2>1 DEF Lease
  <2> QED
    BY <2>2, <2>3, <2>4, LeaseRowKept
<1>3. CASE Renew(l)
  <2>1. lease[l] \in Lease
    BY <1>3, LeaseIsRow DEF BillingInv, Renew
  <2>2. PICK e \in Ends, rent \in Rents :
            SetLease(l, [lease[l] EXCEPT !.status = "LIVE", !.end = e, !.rent = rent])
    BY <1>3 DEF Renew
  <2> DEFINE row == [lease[l] EXCEPT !.status = "LIVE", !.end = e, !.rent = rent]
  <2>3. row \in Lease /\ row.start = lease[l].start
    BY <2>1 DEF Lease
  <2> QED
    BY <2>2, <2>3, LeaseRowKept
<1>4. CASE Terminate(l)
  <2>1. lease[l] \in Lease
    BY <1>4, LeaseIsRow DEF BillingInv, Terminate
  <2> DEFINE row == [lease[l] EXCEPT !.status = "TERMINATED"]
  <2>2. row \in Lease /\ row.start = lease[l].start
    BY <2>1 DEF Lease
  <2> QED
    BY <1>4, <2>2, LeaseRowKept DEF Terminate
<1>5. CASE Lapse(l)
  <2>1. lease[l] \in Lease
    BY <1>5, LeaseIsRow DEF BillingInv, Lapse, IsLive
  <2> DEFINE row == [lease[l] EXCEPT !.status = "EXPIRED"]
  <2>2. row \in Lease /\ row.start = lease[l].start
    BY <2>1 DEF Lease
  <2> QED
    BY <1>5, <2>2, LeaseRowKept DEF Lapse
<1> QED
  BY <1>1, <1>2, <1>3, <1>4, <1>5 DEF LeaseStep

\* One charge changes its status.
LEMMA StatusSet ==
    ASSUME BillingInv, NEW l \in Leases, NEW m \in Months, NEW i \in DOMAIN charges[l][m],
           NEW status \in {"PENDING", "OVERDUE", "PAID"}, SetStatus(l, m, i, status)
    PROVE  /\ charges' \in [Leases -> [Months -> Seq(Charge)]]
           /\ \A k \in Leases, n \in Months :
                 /\ DOMAIN charges'[k][n] = DOMAIN charges[k][n]
                 /\ Len(charges'[k][n]) = Len(charges[k][n])
                 /\ \A j \in DOMAIN charges[k][n] :
                       /\ charges'[k][n][j].amount = charges[k][n][j].amount
                       /\ charges'[k][n][j].status =
                              IF k = l /\ n = m /\ j = i THEN status
                                                         ELSE charges[k][n][j].status
PROOF
<1>1. charges[l][m] \in Seq(Charge) /\ charges[l][m][i] \in Charge
  BY ChargeAt DEF BillingInv
<1> DEFINE c == [charges[l][m][i] EXCEPT !.status = status]
           s == [charges[l][m] EXCEPT ![i] = c]
<1>2. c \in Charge /\ c.amount = charges[l][m][i].amount /\ c.status = status
  BY <1>1 DEF Charge
<1>3. charges' = [charges EXCEPT ![l] = [charges[l] EXCEPT ![m] = s]]
  BY DEF SetStatus
<1> HIDE DEF c
<1>4. /\ s \in Seq(Charge) /\ DOMAIN s = DOMAIN charges[l][m] /\ Len(s) = Len(charges[l][m])
      /\ \A j \in DOMAIN charges[l][m] : s[j] = IF j = i THEN c ELSE charges[l][m][j]
  BY <1>1, <1>2
<1> HIDE DEF s
<1>5. \A k \in Leases, n \in Months :
          charges'[k][n] = IF k = l /\ n = m THEN s ELSE charges[k][n]
  BY <1>3 DEF BillingInv, BillingTypeOK
<1>6. charges' \in [Leases -> [Months -> Seq(Charge)]]
  BY <1>3, <1>4 DEF BillingInv, BillingTypeOK
<1> QED
  BY <1>2, <1>4, <1>5, <1>6

LEMMA StatusSetKeeps ==
    ASSUME BillingInv, NEW l \in Leases, NEW m \in Months, NEW i \in DOMAIN charges[l][m],
           NEW status \in {"PENDING", "OVERDUE", "PAID"}, SetStatus(l, m, i, status),
           status = "OVERDUE" => Due(m) < day
    PROVE  BillingInv'
PROOF
<1>1. UNCHANGED <<day, lease, run, generates>>
  BY DEF SetStatus
<1>2. ChargesSound'
  <2>1. \A k \in Leases, n \in Months : \A j \in DOMAIN charges[k][n] :
            charges'[k][n][j].status = "OVERDUE" =>
                charges[k][n][j].status = "OVERDUE" \/ Due(n) < day
    <3> SUFFICES ASSUME NEW k \in Leases, NEW n \in Months, NEW j \in DOMAIN charges[k][n]
                 PROVE  charges'[k][n][j].status = "OVERDUE" =>
                            charges[k][n][j].status = "OVERDUE" \/ Due(n) < day
      OBVIOUS
    <3>1. charges'[k][n][j].status = IF k = l /\ n = m /\ j = i THEN status
                                                            ELSE charges[k][n][j].status
      BY StatusSet
    <3> QED
      BY <3>1
  <2>2. /\ charges' \in [Leases -> [Months -> Seq(Charge)]]
        /\ \A k \in Leases, n \in Months : /\ DOMAIN charges'[k][n] = DOMAIN charges[k][n]
                                           /\ Len(charges'[k][n]) = Len(charges[k][n])
    BY StatusSet
  <2> QED
    BY <1>1, <2>1, <2>2, StatusesOnly
<1>3. RunsSound'
  BY <1>1, RunsAlone DEF StartsKept, Signed
<1> QED
  BY <1>1, <1>2, <1>3, Together DEF BillingInv, BillingTypeOK

LEMMA SettlingKeeps ==
    ASSUME BillingInv, NEW l \in Leases, NEW m \in Months, Settle(l, m) \/ Unsettle(l, m)
    PROVE  BillingInv'
PROOF
<1>1. CASE Settle(l, m)
  BY <1>1, StatusSetKeeps DEF Settle
<1>2. CASE Unsettle(l, m)
  BY <1>2, StatusSetKeeps DEF Unsettle
<1> QED
  BY <1>1, <1>2

LEMMA TickKeeps ==
    ASSUME BillingInv, Tick
    PROVE  BillingInv'
PROOF
<1>1. day' \in Days /\ day <= day'
  BY BillingConstants DEF Tick, BillingInv, BillingTypeOK, Days
<1>2. StartsKept
  BY DEF Tick, StartsKept, Signed
<1> QED
  BY <1>1, <1>2, RunsAlone, ChargesAlone, Together DEF Tick, BillingInv, BillingTypeOK

-----------------------------------------------------------------------------
(* The theorems.                                                           *)

LEMMA BillingInit ==
    ASSUME InitBilling
    PROVE  BillingInv
PROOF
<1>1. BillingTypeOK
  BY BillingConstants DEF InitBilling, BillingTypeOK, Days
<1>2. OneChargePerMonth /\ NoneBeforeStart /\ OverdueIsLate /\ BillsCovered
  BY DEF InitBilling, OneChargePerMonth, NoneBeforeStart, OverdueIsLate, BillsCovered
<1> QED
  BY <1>1, <1>2 DEF BillingInv

LEMMA BillingStep ==
    ASSUME BillingInv, [NextBilling]_billing
    PROVE  BillingInv'
PROOF
<1>1. CASE \E b \in Buttons : PressButton(b)
  BY <1>1, ReadingKeeps DEF PressButton, Runs
<1>2. CASE \E j \in Jobs : NightlyRun(j)
  BY <1>2, ReadingKeeps, Today DEF NightlyRun, Runs, BillingInv, BillingTypeOK
<1>3. CASE \E r \in Runs : RunStep(r)
  BY <1>3, InsertingKeeps, MarkingKeeps, CrashKeeps DEF RunStep
<1>4. CASE \E l \in Leases : LeaseStep(l) \/ \E m \in Months : Settle(l, m) \/ Unsettle(l, m)
  BY <1>4, LeaseStepKeeps, SettlingKeeps
<1>5. CASE Tick
  BY <1>5, TickKeeps
<1>6. CASE UNCHANGED billing
  BY <1>6 DEF billing, BillingInv, BillingTypeOK, OneChargePerMonth, NoneBeforeStart,
     OverdueIsLate, BillsCovered, Signed, Due
<1> QED
  BY <1>1, <1>2, <1>3, <1>4, <1>5, <1>6 DEF NextBilling

\* Types, one charge for a lease and month, none before a lease starts, and
\* nothing overdue before its day, hold in every reachable state, however long a
\* run waits between its read and its insert.
THEOREM BillingSafe == BillingSpec => []BillingInv
PROOF
<1> QED
  BY BillingInit, BillingStep, PTL DEF BillingSpec

\* The unique index makes double-billing impossible, for any number of runs.
THEOREM BilledOnce == BillingSpec => []OneChargePerMonth
PROOF
<1>1. BillingInv => OneChargePerMonth
  BY DEF BillingInv
<1> QED
  BY <1>1, BillingSafe, PTL

\* What one step does to a charge that is there.
ChargeStands ==
    \A l \in Leases, m \in Months : \A i \in DOMAIN charges[l][m] :
        /\ i \in DOMAIN charges'[l][m]
        /\ charges'[l][m][i].amount = charges[l][m][i].amount
        /\ run # run' /\ charges[l][m][i].status = "PAID" => charges'[l][m][i].status = "PAID"

LEMMA StepsStand ==
    ASSUME BillingInv, [NextBilling]_billing
    PROVE  [ChargeStands]_billing
PROOF
<1>1. ASSUME UNCHANGED charges PROVE ChargeStands
  BY <1>1 DEF ChargeStands
<1>2. CASE \E r \in Runs : InsertCharges(r)
  BY <1>2, Inserted DEF ChargeStands
<1>3. CASE \E r \in Runs : MarkOverdue(r)
  <2>1. PICK r \in Runs : MarkOverdue(r)
    BY <1>3
  <2> SUFFICES ASSUME NEW l \in Leases, NEW m \in Months, NEW i \in DOMAIN charges[l][m]
               PROVE  /\ i \in DOMAIN charges'[l][m]
                      /\ charges'[l][m][i].amount = charges[l][m][i].amount
                      /\ charges[l][m][i].status = "PAID" => charges'[l][m][i].status = "PAID"
    BY DEF ChargeStands
  <2>2. charges[l][m][i] \in Charge
    BY ChargeAt DEF BillingInv
  <2>3. /\ i \in DOMAIN charges'[l][m]
        /\ charges'[l][m][i] = IF Late(charges[l][m][i], m)
                               THEN [charges[l][m][i] EXCEPT !.status = "OVERDUE"]
                               ELSE charges[l][m][i]
    BY <2>1, Marked
  <2> QED
    BY <2>2, <2>3 DEF Late, Charge
<1>4. CASE \E l \in Leases, m \in Months : Settle(l, m) \/ Unsettle(l, m)
  <2>0. PICK l \in Leases, m \in Months : Settle(l, m) \/ Unsettle(l, m)
    BY <1>4
  <2>1. PICK i \in DOMAIN charges[l][m], status \in {"PENDING", "OVERDUE", "PAID"} :
            SetStatus(l, m, i, status)
    BY <2>0 DEF Settle, Unsettle
  <2>2. UNCHANGED run
    BY <2>1 DEF SetStatus
  <2> QED
    BY <2>1, <2>2, StatusSet DEF ChargeStands
<1>5. CASE \/ \E b \in Buttons : PressButton(b)
           \/ \E j \in Jobs : NightlyRun(j)
           \/ \E r \in Runs : Crash(r)
           \/ \E l \in Leases : LeaseStep(l)
           \/ Tick
  BY <1>1, <1>5 DEF PressButton, NightlyRun, ReadLeases, Crash, LeaseStep, Sign, Edit, Renew,
     Terminate, Lapse, SetLease, Tick
<1>6. CASE UNCHANGED billing
  BY <1>6
<1> QED
  BY <1>2, <1>3, <1>4, <1>5, <1>6 DEF NextBilling, RunStep

\* No run and no rent review takes away, reprices or reopens what was billed.
THEOREM ChargesAreHistory == BillingSpec => ChargesStand
PROOF
<1>1. [ChargeStands]_billing =>
          [\A l \in Leases, m \in Months : \A i \in DOMAIN charges[l][m] :
              /\ i \in DOMAIN charges'[l][m]
              /\ charges'[l][m][i].amount = charges[l][m][i].amount
              /\ run # run' /\ charges[l][m][i].status = "PAID"
                    => charges'[l][m][i].status = "PAID"]_billing
  BY DEF ChargeStands
<1> QED
  BY <1>1, StepsStand, BillingSafe, PTL DEF BillingSpec, ChargesStand

-----------------------------------------------------------------------------
(* Facts and sweeps.                                                       *)

\* What a sweep lists are facts of the day it lists them.
LEMMA OverdueFacts ==
    ASSUME BillingInv, NEW k \in Overdue
    PROVE  k \in Key /\ Truly(k)
PROOF
<1>1. k \in OverdueKey /\ k.stamp = day /\ k.lease \in Leases /\ k.month \in Months
  BY DEF Overdue, OverdueKey
<1>2. PICK i \in DOMAIN charges[k.lease][k.month] :
          charges[k.lease][k.month][i].status = "OVERDUE"
  BY DEF Overdue, IsOverdue
<1>3. charges[k.lease][k.month] # <<>> /\ Due(k.month) < day
  BY <1>1, <1>2 DEF BillingInv, OverdueIsLate
<1> QED
  BY <1>1, <1>3 DEF Key, Truly

LEMMA ExpiringFacts ==
    ASSUME NEW k \in Expiring
    PROVE  k \in Key /\ Truly(k)
BY DEF Expiring, ExpiryKey, Key, Truly

\* What was billed stays billed, and the day of a fact is in the fact.
LEMMA TrulyStays ==
    ASSUME BillingInv, [NextBilling]_billing, NEW k \in Key, Truly(k)
    PROVE  Truly(k)'
PROOF
<1>1. CASE k.type # "RENT_OVERDUE"
  BY <1>1 DEF Truly
<1>2. CASE k.type = "RENT_OVERDUE"
  <2>1. k.lease \in Leases /\ k.month \in Months
    BY <1>2 DEF Key, OverdueKey, ExpiryKey
  <2>2. charges[k.lease][k.month] \in Seq(Charge) /\ charges[k.lease][k.month] # <<>>
    BY <1>2, <2>1, ChargeAt DEF Truly, BillingInv
  <2>3. 1 \in DOMAIN charges[k.lease][k.month]
    BY <2>2
  <2>4. charges'[k.lease][k.month] # <<>>
    <3>1. CASE UNCHANGED billing
      BY <2>2, <3>1 DEF billing
    <3>2. CASE ChargeStands
      BY <2>1, <2>3, <3>2 DEF ChargeStands
    <3> QED
      BY <3>1, <3>2, StepsStand
  <2> QED
    BY <1>2, <2>4 DEF Truly, Due
<1> QED
  BY <1>1, <1>2

LEMMA SweepFields ==
    ASSUME TypeOK, NEW w \in Workers
    PROVE  /\ Listing(w) => sweep[w].todo \subseteq Key
           /\ Telling(w) => /\ sweep[w].todo \subseteq Key
                            /\ sweep[w].about \in Key
                            /\ sweep[w].to \subseteq Users
           /\ sweep[w] # None => sweep[w].todo \subseteq Key
BY DEF TypeOK, Sweep, Listing, Telling

-----------------------------------------------------------------------------
(* The parts of NightlyInv beside Billing's.                               *)

RowsTyped ==
    /\ assigned \in [Scoped -> SUBSET Leases]
    /\ everSaw \in [Scoped -> SUBSET Leases]
    /\ told \in [Users -> [Key -> Nat]]
    /\ unread \subseteq Users \X Key

NoticesSound ==
    /\ RowsTyped
    /\ ToldOnce /\ ToldWhatTheySaw /\ OverdueToldTruly /\ SeenEverSeen /\ UnreadIsTold

SweepsSound ==
    /\ sweep \in [Workers -> Sweep \cup {None}]
    /\ SweepsAreSound

LEMMA NightlyTogether ==
    ASSUME BillingInv', NoticesSound', SweepsSound'
    PROVE  NightlyInv'
BY DEF NightlyInv, TypeOK, BillingInv, NoticesSound, RowsTyped, SweepsSound

LEMMA NightlyParts ==
    ASSUME NightlyInv
    PROVE  BillingInv /\ NoticesSound /\ SweepsSound
BY DEF NightlyInv, TypeOK, NoticesSound, RowsTyped, SweepsSound

\* While no notice is written and nobody is reassigned, only the facts may move.
LEMMA NoticesAlone ==
    ASSUME NightlyInv, [NextBilling]_billing, UNCHANGED <<assigned, everSaw, told, unread>>
    PROVE  NoticesSound'
PROOF
<1>1. OverdueToldTruly'
  <2> SUFFICES ASSUME NEW u \in Users, NEW k \in Key, told[u][k] > 0, k.type = "RENT_OVERDUE"
               PROVE  (charges[k.lease][k.month] # <<>> /\ Due(k.month) < k.stamp)'
    BY DEF OverdueToldTruly, Due
  <2>1. Truly(k)
    BY DEF NightlyInv, OverdueToldTruly, Truly
  <2> QED
    BY <2>1, NightlyParts, TrulyStays DEF Truly
<1> QED
  BY <1>1 DEF NightlyInv, TypeOK, NoticesSound, RowsTyped, ToldOnce, ToldWhatTheySaw,
     SeenEverSeen, UnreadIsTold

\* What one sweep is about to say.
Sound(s) ==
    s # None =>
        /\ \A k \in s.todo : Truly(k)
        /\ DOMAIN s = {"todo", "about", "to"} =>
              /\ Truly(s.about)
              /\ \A u \in s.to \cap Scoped : s.about.lease \in everSaw[u]

LEMMA AllSound ==
    ASSUME NightlyInv
    PROVE  \A w \in Workers : sweep[w] \in Sweep \cup {None} /\ Sound(sweep[w])
BY DEF NightlyInv, TypeOK, SweepsAreSound, Telling, Sound

\* A sweep that was sound still is after any step: what people ever saw and what
\* was billed only grow.
LEMMA SoundStays ==
    ASSUME NightlyInv, [NextBilling]_billing, \A u \in Scoped : everSaw[u] \subseteq everSaw'[u],
           NEW s \in Sweep, Sound(s)
    PROVE  Sound(s)'
PROOF
<1>1. s # None
  BY NightlyConstants
<1>2. \A k \in s.todo : Truly(k)'
  <2> SUFFICES ASSUME NEW k \in s.todo PROVE Truly(k)'
    OBVIOUS
  <2>1. k \in Key
    BY DEF Sweep
  <2> QED
    BY <1>1, <2>1, NightlyParts, TrulyStays DEF Sound
<1>3. ASSUME DOMAIN s = {"todo", "about", "to"}
      PROVE  Truly(s.about)' /\ \A u \in s.to \cap Scoped : s.about.lease \in everSaw'[u]
  <2>1. s.about \in Key
    BY <1>3 DEF Sweep
  <2> QED
    BY <1>1, <1>3, <2>1, NightlyParts, TrulyStays DEF Sound
<1> QED
  BY <1>2, <1>3 DEF Sound

LEMMA OneSweepMoves ==
    ASSUME NightlyInv, [NextBilling]_billing, \A u \in Scoped : everSaw[u] \subseteq everSaw'[u],
           NEW w \in Workers, NEW s \in Sweep \cup {None},
           sweep' = [sweep EXCEPT ![w] = s], s \in Sweep => Sound(s)
    PROVE  SweepsSound'
PROOF
<1>1. sweep' \in [Workers -> Sweep \cup {None}]
  BY DEF NightlyInv, TypeOK
<1>2. \A v \in Workers : sweep'[v] = IF v = w THEN s ELSE sweep[v]
  BY DEF NightlyInv, TypeOK
<1>3. ASSUME NEW v \in Workers PROVE Sound(sweep[v])'
  <2>1. CASE sweep'[v] = None
    BY <2>1 DEF Sound
  <2>2. CASE sweep'[v] \in Sweep
    <3> DEFINE t == IF v = w THEN s ELSE sweep[v]
    <3>1. t \in Sweep /\ Sound(t) /\ sweep'[v] = t
      BY <1>2, <2>2, AllSound
    <3> HIDE DEF t
    <3>2. \A q \in Sweep : Sound(q) => Sound(q)'
      BY SoundStays
    <3> QED
      BY <3>1, <3>2 DEF Sound
  <2> QED
    BY <1>1, <2>1, <2>2
<1>4. SweepsAreSound'
  BY <1>3 DEF SweepsAreSound, Sound, Telling
<1> QED
  BY <1>1, <1>4 DEF SweepsSound

LEMMA SweepsAlone ==
    ASSUME NightlyInv, [NextBilling]_billing, \A u \in Scoped : everSaw[u] \subseteq everSaw'[u],
           UNCHANGED sweep
    PROVE  SweepsSound'
PROOF
<1>1. CASE Workers = {}
  BY <1>1 DEF NightlyInv, TypeOK, SweepsSound, SweepsAreSound
<1>2. ASSUME NEW w \in Workers PROVE SweepsSound'
  <2>1. sweep' = [sweep EXCEPT ![w] = sweep[w]] /\ sweep[w] \in Sweep \cup {None}
    BY <1>2 DEF NightlyInv, TypeOK
  <2> QED
    BY <1>2, <2>1, AllSound, OneSweepMoves
<1> QED
  BY <1>1, <1>2

-----------------------------------------------------------------------------
(* Steps.                                                                  *)

\* A step that leaves the tables of Billing alone is a stutter of it.
LEMMA BillingHolds ==
    ASSUME NightlyInv, [NextBilling]_billing
    PROVE  BillingInv'
BY NightlyParts, BillingStep

LEMMA SawGrows ==
    ASSUME UNCHANGED everSaw
    PROVE  \A u \in Scoped : everSaw[u] \subseteq everSaw'[u]
OBVIOUS

\* A step of one sweep that writes no notice.
LEMMA SweepOnly ==
    ASSUME NightlyInv, UNCHANGED <<billing, assigned, everSaw, told, unread>>,
           NEW w \in Workers, NEW s \in Sweep \cup {None},
           sweep' = [sweep EXCEPT ![w] = s], s \in Sweep => Sound(s)
    PROVE  NightlyInv'
PROOF
<1>1. [NextBilling]_billing
  OBVIOUS
<1>2. BillingInv' /\ NoticesSound'
  BY <1>1, BillingHolds, NoticesAlone
<1>3. SweepsSound'
  BY <1>1, SawGrows, OneSweepMoves
<1> QED
  BY <1>2, <1>3, NightlyTogether

LEMMA ListingKeeps ==
    ASSUME NightlyInv, NEW w \in Workers, List(w, Overdue) \/ List(w, Expiring)
    PROVE  NightlyInv'
PROOF
<1>1. PICK todo : /\ todo \subseteq Overdue \/ todo \subseteq Expiring
                  /\ sweep' = [sweep EXCEPT ![w] = [todo |-> todo]]
  BY DEF List, UpToCap
<1>2. todo \subseteq Key /\ \A k \in todo : Truly(k)
  BY <1>1, OverdueFacts, ExpiringFacts, NightlyParts
<1>3. [todo |-> todo] \in Sweep /\ DOMAIN [todo |-> todo] # {"todo", "about", "to"}
  <2>1. DOMAIN [todo |-> todo] = {"todo"}
    OBVIOUS
  <2>2. "about" \in {"todo", "about", "to"} /\ "about" \notin {"todo"}
    OBVIOUS
  <2> QED
    BY <1>2, <2>1, <2>2 DEF Sweep
<1>4. Sound([todo |-> todo])
  BY <1>2, <1>3 DEF Sound
<1> QED
  BY <1>1, <1>3, <1>4, SweepOnly DEF List

LEMMA ReadingRecipientsKeeps ==
    ASSUME NightlyInv, NEW w \in Workers, NEW k \in Key, ReadRecipients(w, k)
    PROVE  NightlyInv'
PROOF
<1> DEFINE s == [todo |-> sweep[w].todo \ {k}, about |-> k, to |-> Recipients(k.lease)]
<1>1. sweep[w] # None /\ k \in sweep[w].todo /\ sweep[w].todo \subseteq Key
  BY SweepFields DEF ReadRecipients, Listing, NightlyInv
<1>2. \A j \in sweep[w].todo : Truly(j)
  BY <1>1, AllSound DEF Sound
<1>3. Recipients(k.lease) \subseteq Users
  BY DEF Recipients, Users
<1>4. \A u \in Recipients(k.lease) \cap Scoped : k.lease \in everSaw[u]
  <2>1. \A u \in Scoped : assigned[u] \subseteq everSaw[u]
    BY DEF NightlyInv, SeenEverSeen
  <2> QED
    BY <2>1, NightlyConstants DEF Recipients
<1>5. s \in Sweep
  BY <1>1, <1>3 DEF Sweep
<1>6. Sound(s)
  BY <1>1, <1>2, <1>4 DEF Sound
<1>7. sweep' = [sweep EXCEPT ![w] = s]
  BY DEF ReadRecipients
<1> HIDE DEF s
<1> QED
  BY <1>5, <1>6, <1>7, SweepOnly DEF ReadRecipients

\* What a sweep has left after one fact.
LEMMA Rest ==
    ASSUME NightlyInv, NEW w \in Workers, Telling(w),
           NEW s, s = IF sweep[w].todo = {} THEN None ELSE [todo |-> sweep[w].todo]
    PROVE  s \in Sweep \cup {None} /\ (s \in Sweep => Sound(s))
PROOF
<1>1. sweep[w] # None /\ sweep[w].todo \subseteq Key
  BY SweepFields DEF Telling, NightlyInv
<1>2. \A k \in sweep[w].todo : Truly(k)
  BY <1>1, AllSound DEF Sound
<1>3. CASE sweep[w].todo = {}
  BY <1>3, NightlyConstants
<1>4. CASE sweep[w].todo # {}
  <2>1. s = [todo |-> sweep[w].todo]
    BY <1>4
  <2>2. DOMAIN s = {"todo"}
    BY <2>1
  <2>3. "about" \in {"todo", "about", "to"} /\ "about" \notin {"todo"}
    OBVIOUS
  <2> QED
    BY <1>1, <1>2, <2>1, <2>2, <2>3 DEF Sweep, Sound
<1> QED
  BY <1>3, <1>4

LEMMA FailingKeeps ==
    ASSUME NightlyInv, NEW w \in Workers, StopSweep(w) \/ FailNotice(w)
    PROVE  NightlyInv'
PROOF
<1>1. CASE StopSweep(w)
  BY <1>1, NightlyConstants, SweepOnly DEF StopSweep
<1>2. CASE FailNotice(w)
  <2> DEFINE s == IF sweep[w].todo = {} THEN None ELSE [todo |-> sweep[w].todo]
  <2>1. s \in Sweep \cup {None} /\ (s \in Sweep => Sound(s))
    BY <1>2, Rest DEF FailNotice
  <2>2. sweep' = [sweep EXCEPT ![w] = s]
    BY <1>2 DEF FailNotice
  <2> HIDE DEF s
  <2> QED
    BY <1>2, <2>1, <2>2, SweepOnly DEF FailNotice
<1> QED
  BY <1>1, <1>2

\* The insert: one row more for those who had none, unread.
LEMMA Notified ==
    ASSUME NightlyInv, NEW w \in Workers, Notify(w), NEW u \in Users, NEW k \in Key
    PROVE  /\ told'[u][k] \in Nat
           /\ \/ told'[u][k] = told[u][k]
              \/ /\ told[u][k] = 0 /\ told'[u][k] = 1
                 /\ k = sweep[w].about /\ u \in sweep[w].to
                 /\ <<u, k>> \in unread'
PROOF
<1> DEFINE about == sweep[w].about
           new == {v \in sweep[w].to : NoticeAdmitted(v, about)}
<1>1. about \in Key /\ sweep[w].to \subseteq Users
  BY SweepFields DEF NightlyInv, Notify
<1>2. told[u] \in [Key -> Nat]
  BY DEF NightlyInv, TypeOK
<1>3. told'[u] = IF u \in new THEN [told[u] EXCEPT ![about] = @ + 1] ELSE told[u]
  BY DEF Notify
<1>4. CASE u \in new /\ k = about
  <2>1. told[u][k] = 0 /\ u \in sweep[w].to
    BY <1>4 DEF NoticeAdmitted
  <2>2. told'[u][k] = told[u][k] + 1
    BY <1>2, <1>3, <1>4
  <2>3. <<u, k>> \in unread'
    BY <1>4 DEF Notify
  <2> QED
    BY <1>4, <2>1, <2>2, <2>3
<1>5. CASE ~(u \in new /\ k = about)
  <2>1. told'[u][k] = told[u][k]
    BY <1>1, <1>2, <1>3, <1>5
  <2> QED
    BY <1>2, <2>1
<1> QED
  BY <1>4, <1>5

LEMMA NotifyKeeps ==
    ASSUME NightlyInv, NEW w \in Workers, Notify(w)
    PROVE  NightlyInv'
PROOF
<1>1. UNCHANGED <<billing, assigned, everSaw>> /\ [NextBilling]_billing
  BY DEF Notify
<1>2. /\ sweep[w].about \in Key /\ sweep[w].to \subseteq Users
      /\ Truly(sweep[w].about)
      /\ \A u \in sweep[w].to \cap Scoped : sweep[w].about.lease \in everSaw[u]
  BY SweepFields, AllSound DEF NightlyInv, Notify, Telling, Sound
<1>3. told' \in [Users -> [Key -> Nat]]
  <2>1. \A u \in Users : told'[u] \in [Key -> Nat]
    <3> SUFFICES ASSUME NEW u \in Users PROVE told'[u] \in [Key -> Nat]
      OBVIOUS
    <3>1. told[u] \in [Key -> Nat]
      BY DEF NightlyInv, TypeOK
    <3> QED
      BY <1>2, <3>1 DEF Notify
  <2> QED
    BY <2>1 DEF Notify
<1>4. unread' \subseteq Users \X Key
  BY <1>2 DEF Notify, NightlyInv, TypeOK
<1>5. RowsTyped'
  BY <1>1, <1>3, <1>4 DEF RowsTyped, NightlyInv, TypeOK
<1>6. ToldOnce'
  <2> SUFFICES ASSUME NEW u \in Users, NEW k \in Key PROVE told'[u][k] <= 1
    BY DEF ToldOnce
  <2>1. CASE told'[u][k] = told[u][k]
    BY <2>1 DEF NightlyInv, ToldOnce
  <2>2. CASE told'[u][k] = 1
    BY <2>2
  <2> QED
    BY <2>1, <2>2, Notified
<1>7. ToldWhatTheySaw'
  <2> SUFFICES ASSUME NEW u \in Scoped, NEW k \in Key, told'[u][k] > 0
               PROVE  k.lease \in everSaw[u]
    BY <1>1 DEF ToldWhatTheySaw
  <2>1. u \in Users
    BY DEF Users
  <2>2. CASE told'[u][k] = told[u][k]
    BY <2>2 DEF NightlyInv, ToldWhatTheySaw
  <2>3. CASE k = sweep[w].about /\ u \in sweep[w].to
    BY <1>2, <2>3
  <2> QED
    BY <2>1, <2>2, <2>3, Notified
<1>8. OverdueToldTruly'
  <2> SUFFICES ASSUME NEW u \in Users, NEW k \in Key, told'[u][k] > 0, k.type = "RENT_OVERDUE"
               PROVE  charges[k.lease][k.month] # <<>> /\ Due(k.month) < k.stamp
    BY <1>1 DEF OverdueToldTruly, Due, billing
  <2>1. CASE told'[u][k] = told[u][k]
    BY <2>1 DEF NightlyInv, OverdueToldTruly
  <2>2. CASE k = sweep[w].about
    BY <1>2, <2>2 DEF Truly
  <2> QED
    BY <2>1, <2>2, Notified
<1>9. UnreadIsTold'
  <2> SUFFICES ASSUME NEW u \in Users, NEW k \in Key, <<u, k>> \in unread'
               PROVE  told'[u][k] > 0
    BY <1>4 DEF UnreadIsTold
  <2>1. CASE <<u, k>> \in unread
    <3>1. told[u][k] > 0
      BY <2>1 DEF NightlyInv, UnreadIsTold
    <3> QED
      BY <3>1, Notified
  <2>2. CASE <<u, k>> \notin unread
    <3>1. u \in sweep[w].to /\ NoticeAdmitted(u, k) /\ k = sweep[w].about
      BY <2>2 DEF Notify
    <3>2. told[u] \in [Key -> Nat]
      BY DEF NightlyInv, TypeOK
    <3>3. told'[u] = [told[u] EXCEPT ![k] = @ + 1]
      BY <3>1 DEF Notify
    <3> QED
      BY <3>2, <3>3
  <2> QED
    BY <2>1, <2>2
<1>10. SeenEverSeen'
  BY <1>1 DEF NightlyInv, SeenEverSeen
<1>11. SweepsSound'
  <2> DEFINE s == IF sweep[w].todo = {} THEN None ELSE [todo |-> sweep[w].todo]
  <2>1. s \in Sweep \cup {None} /\ (s \in Sweep => Sound(s))
    BY Rest DEF Notify
  <2>2. sweep' = [sweep EXCEPT ![w] = s]
    BY DEF Notify
  <2> HIDE DEF s
  <2> QED
    BY <1>1, <2>1, <2>2, SawGrows, OneSweepMoves
<1> QED
  BY <1>1, <1>5, <1>6, <1>7, <1>8, <1>9, <1>10, <1>11, BillingHolds, NightlyTogether
     DEF NoticesSound

LEMMA AssigningKeeps ==
    ASSUME NightlyInv, NEW u \in Scoped, Assign(u)
    PROVE  NightlyInv'
PROOF
<1>1. PICK ls \in SUBSET Leases : /\ assigned' = [assigned EXCEPT ![u] = ls]
                                  /\ everSaw' = [everSaw EXCEPT ![u] = @ \cup ls]
  BY DEF Assign
<1>2. UNCHANGED <<billing, told, unread, sweep>> /\ [NextBilling]_billing
  BY DEF Assign
<1>3. \A v \in Scoped : /\ everSaw[v] \subseteq everSaw'[v]
                        /\ assigned'[v] \subseteq everSaw'[v]
                        /\ assigned'[v] \subseteq Leases /\ everSaw'[v] \subseteq Leases
  BY <1>1 DEF NightlyInv, TypeOK, SeenEverSeen
<1>4. RowsTyped'
  BY <1>1, <1>2, <1>3 DEF NightlyInv, TypeOK, RowsTyped
<1>5. ToldOnce' /\ ToldWhatTheySaw' /\ SeenEverSeen' /\ UnreadIsTold'
  BY <1>2, <1>3 DEF NightlyInv, ToldOnce, ToldWhatTheySaw, SeenEverSeen, UnreadIsTold
<1>6. OverdueToldTruly'
  BY <1>2 DEF NightlyInv, OverdueToldTruly, billing, Due
<1> QED
  BY <1>2, <1>3, <1>4, <1>5, <1>6, BillingHolds, SweepsAlone, NightlyTogether DEF NoticesSound

LEMMA ReadingKeepsNotices ==
    ASSUME NightlyInv, NEW u \in Users, MarkRead(u)
    PROVE  NightlyInv'
PROOF
<1>1. UNCHANGED <<billing, assigned, everSaw, told, sweep>> /\ unread' \subseteq unread
  BY DEF MarkRead
<1>2. [NextBilling]_billing
  BY <1>1
<1>3. NoticesSound'
  BY <1>1 DEF NightlyInv, TypeOK, NoticesSound, RowsTyped, ToldOnce, ToldWhatTheySaw,
     SeenEverSeen, UnreadIsTold, OverdueToldTruly, billing, Due
<1> QED
  BY <1>1, <1>2, <1>3, BillingHolds, SawGrows, SweepsAlone, NightlyTogether

LEMMA NightlyInit ==
    ASSUME Init
    PROVE  NightlyInv
PROOF
<1>1. BillingInv
  BY BillingInit DEF Init
<1>2. TypeOK
  BY <1>1 DEF Init, TypeOK, BillingInv
<1>3. /\ ToldOnce /\ ToldWhatTheySaw /\ OverdueToldTruly
      /\ SweepsAreSound /\ SeenEverSeen /\ UnreadIsTold
  BY DEF Init, ToldOnce, ToldWhatTheySaw, OverdueToldTruly, SweepsAreSound, SeenEverSeen,
     UnreadIsTold, Users
<1> QED
  BY <1>1, <1>2, <1>3 DEF NightlyInv

LEMMA NightlyStep ==
    ASSUME NightlyInv, [Next]_vars
    PROVE  NightlyInv'
PROOF
<1>1. CASE [NextBilling]_billing /\ UNCHANGED notices
  BY <1>1, BillingHolds, NoticesAlone, SawGrows, SweepsAlone, NightlyTogether DEF notices
<1>2. CASE \E w \in Workers : SweepStep(w)
  BY <1>2, ListingKeeps, ReadingRecipientsKeeps, NotifyKeeps, FailingKeeps DEF SweepStep, GoOn
<1>3. CASE \E u \in Scoped : Assign(u)
  BY <1>3, AssigningKeeps
<1>4. CASE \E u \in Users : MarkRead(u)
  BY <1>4, ReadingKeepsNotices
<1>5. CASE UNCHANGED vars
  BY <1>1, <1>5 DEF vars, billing, notices
<1> QED
  BY <1>1, <1>2, <1>3, <1>4, <1>5 DEF Next

-----------------------------------------------------------------------------
(* The theorems.                                                           *)

\* The tables of billing and of notifications stay sound together, and what a
\* sweep is about to say is so, however many sweep at once and restart.
THEOREM NightlySafe == Spec => []NightlyInv
PROOF
<1> QED
  BY NightlyInit, NightlyStep, PTL DEF Spec

\* The deduplicating index: a person has at most one row for a fact and a day.
THEOREM EachToldOnce == Spec => []ToldOnce
PROOF
<1>1. NightlyInv => ToldOnce
  BY DEF NightlyInv
<1> QED
  BY <1>1, NightlySafe, PTL

\* Nobody is told of a lease that was never theirs to see.
THEOREM ToldWithinScope == Spec => []ToldWhatTheySaw
PROOF
<1>1. NightlyInv => ToldWhatTheySaw
  BY DEF NightlyInv
<1> QED
  BY <1>1, NightlySafe, PTL

\* What was announced as overdue was billed, and late on the day of the notice.
THEOREM AnnouncedTruly == Spec => []OverdueToldTruly
PROOF
<1>1. NightlyInv => OverdueToldTruly
  BY DEF NightlyInv
<1> QED
  BY <1>1, NightlySafe, PTL

\* What one step does to the notices that are there.
NoticesStand ==
    \A u \in Users, k \in Key :
        /\ told'[u][k] >= told[u][k]
        /\ told[u][k] > 0 /\ <<u, k>> \notin unread => <<u, k>> \notin unread'
        /\ <<u, k>> \in unread /\ <<u, k>> \notin unread' =>
              \A v \in Users \ {u}, j \in Key : <<v, j>> \in unread => <<v, j>> \in unread'

\* It is so when rows are only added, unread, for those who had none, and only
\* one reader's rows are read.
LEMMA Standing ==
    ASSUME \A v \in Users, k \in Key : told'[v][k] >= told[v][k],
           \A v \in Users, k \in Key :
               told[v][k] > 0 /\ <<v, k>> \notin unread => <<v, k>> \notin unread',
           NEW u, \A v \in Users \ {u}, k \in Key : <<v, k>> \in unread => <<v, k>> \in unread'
    PROVE  NoticesStand
PROOF
<1> SUFFICES ASSUME NEW v \in Users, NEW k \in Key,
                    <<v, k>> \in unread, <<v, k>> \notin unread'
             PROVE  \A w \in Users \ {v}, j \in Key : <<w, j>> \in unread => <<w, j>> \in unread'
  BY DEF NoticesStand
<1>1. v = u
  OBVIOUS
<1> QED
  BY <1>1

LEMMA StepsLeaveRead ==
    ASSUME NightlyInv, [Next]_vars
    PROVE  [NoticesStand]_vars
PROOF
<1>1. \A u \in Users, k \in Key : told[u][k] \in Nat
  BY DEF NightlyInv, TypeOK
<1>2. ASSUME UNCHANGED <<told, unread>> PROVE NoticesStand
  <2>1. \A u \in Users, k \in Key : told'[u][k] >= told[u][k]
    BY <1>1, <1>2
  <2>2. \A u \in Users, k \in Key : <<u, k>> \in unread <=> <<u, k>> \in unread'
    BY <1>2
  <2> QED
    BY <2>1, <2>2, Standing
<1>3. CASE \E w \in Workers : Notify(w)
  <2>1. PICK w \in Workers : Notify(w)
    BY <1>3
  <2>2. \A u \in Users, k \in Key : <<u, k>> \in unread => <<u, k>> \in unread'
    BY <2>1 DEF Notify
  <2>3. \A u \in Users, k \in Key : told'[u][k] >= told[u][k]
    <3> SUFFICES ASSUME NEW u \in Users, NEW k \in Key PROVE told'[u][k] >= told[u][k]
      OBVIOUS
    <3>1. told[u][k] \in Nat
      BY <1>1
    <3>2. CASE told'[u][k] = told[u][k]
      BY <3>1, <3>2
    <3>3. CASE told[u][k] = 0 /\ told'[u][k] = 1
      BY <3>3
    <3> QED
      BY <2>1, <3>2, <3>3, Notified
  <2>4. \A u \in Users, k \in Key :
            told[u][k] > 0 /\ <<u, k>> \notin unread => <<u, k>> \notin unread'
    <3> SUFFICES ASSUME NEW u \in Users, NEW k \in Key,
                        told[u][k] > 0, <<u, k>> \notin unread, <<u, k>> \in unread'
                 PROVE  FALSE
      OBVIOUS
    <3>1. k = sweep[w].about /\ NoticeAdmitted(u, k)
      BY <2>1 DEF Notify
    <3> QED
      BY <3>1 DEF NoticeAdmitted
  <2> QED
    BY <2>2, <2>3, <2>4, Standing
<1>4. CASE \E u \in Users : MarkRead(u)
  <2>1. PICK u \in Users : MarkRead(u)
    BY <1>4
  <2>2. UNCHANGED told /\ unread' \subseteq unread
    BY <2>1 DEF MarkRead
  <2>3. \A v \in Users \ {u}, k \in Key : <<v, k>> \in unread => <<v, k>> \in unread'
    <3> SUFFICES ASSUME NEW v \in Users \ {u}, NEW k \in Key, <<v, k>> \in unread
                 PROVE  <<v, k>> \in unread'
      OBVIOUS
    <3>1. <<v, k>> \notin OwnUnread(u)
      BY DEF OwnUnread
    <3> QED
      BY <2>1, <3>1 DEF MarkRead
  <2>4. \A v \in Users, k \in Key : told'[v][k] >= told[v][k]
    BY <1>1, <2>2
  <2> QED
    BY <2>2, <2>3, <2>4, Standing
<1>5. CASE UNCHANGED notices
  BY <1>2, <1>5 DEF notices
<1>6. ASSUME NEW w \in Workers, SweepStep(w), ~Notify(w)
      PROVE  NoticesStand
  <2>1. UNCHANGED <<told, unread>>
    BY <1>6 DEF SweepStep, GoOn, List, ReadRecipients, FailNotice, StopSweep
  <2> QED
    BY <1>2, <2>1
<1>7. CASE \E u \in Scoped : Assign(u)
  BY <1>2, <1>7 DEF Assign
<1>8. CASE UNCHANGED vars
  BY <1>8
<1> QED
  BY <1>3, <1>4, <1>5, <1>6, <1>7, <1>8 DEF Next

\* No sweep brings back what was read, and nobody reads for somebody else.
THEOREM ReadForGood == Spec => ReadStaysRead
PROOF
<1>1. [NoticesStand]_vars =>
          [\A u \in Users, k \in Key :
              /\ told'[u][k] >= told[u][k]
              /\ told[u][k] > 0 /\ <<u, k>> \notin unread => <<u, k>> \notin unread'
              /\ <<u, k>> \in unread /\ <<u, k>> \notin unread' =>
                    \A v \in Users \ {u}, j \in Key :
                        <<v, j>> \in unread => <<v, j>> \in unread']_vars
  BY DEF NoticesStand
<1> QED
  BY <1>1, StepsLeaveRead, NightlySafe, PTL DEF Spec, ReadStaysRead
=============================================================================
