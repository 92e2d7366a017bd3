------------------------------- MODULE Billing -------------------------------
(***************************************************************************)
(* Monthly charges: RentGenerationService reads the live leases, inserts   *)
(* what is missing and marks what is late, from the nightly job and from   *)
(* the button.  Each run is a process that remembers what it read; between *)
(* the read and the insert leases are signed, repriced, renewed and ended, *)
(* and another run may insert first.  What lease handlers do in several    *)
(* steps is one step here (see Occupancy), and so is a payment that        *)
(* settles a charge (see RentLedger).  The organization is ACTIVE: nothing *)
(* in the code makes it anything else, and the job asks for that too.      *)
(***************************************************************************)
EXTENDS Integers, Sequences

CONSTANTS
    Leases,     \* leases that can ever be signed
    Buttons,    \* presses of "generate" under way at the same time
    Jobs,       \* API processes, each with its own nightly job
    Rents,      \* monthly rents
    Starts,     \* start dates that are entered
    Ends,       \* end dates that are entered
    Months,     \* months that can be billed
    FirstDay,   \* first day of each month
    FinalDay,   \* last day of each month
    DueDay,     \* days into the month on which rent falls due
    LastDay,    \* bound: the clock stops here
    None        \* no lease, no end date, no run

Days == 0 .. LastDay
Runs == Buttons \cup Jobs

\* LIVE is ACTIVE or EXPIRING_SOON.
Lease == [status : {"LIVE", "EXPIRED", "TERMINATED"}, start : Starts,
          end : Ends \cup {None}, rent : Rents]
\* PENDING is PENDING or PARTIALLY_PAID.
Charge == [amount : Rents, status : {"PENDING", "OVERDUE", "PAID"}]
Bill == [lease : Leases, amount : Rents]
Run == [stage : {"insert"}, month : Months, bills : SUBSET Bill] \cup [stage : {"mark"}]

ASSUME BillingConstants ==
    /\ LastDay \in Nat
    /\ FirstDay \in [Months -> Nat] /\ FinalDay \in [Months -> Nat]
    /\ \A d \in Days : \E m \in Months : d \in FirstDay[m] .. FinalDay[m]
    /\ \A m, k \in Months : m # k => FinalDay[m] < FirstDay[k] \/ FinalDay[k] < FirstDay[m]
    /\ DueDay \in Nat
    /\ Starts \subseteq Nat /\ Ends \subseteq Nat
    /\ None \notin Lease \cup Run \cup Ends
    /\ Buttons \cap Jobs = {}

VARIABLES
    day,      \* today
    lease,    \* Lease rows
    charges,  \* RentRecord rows of each lease and month, oldest first
    run,      \* what each generation under way is about to do
    generates \* settings.rentGenerationEnabled; nothing in the code writes it

billing == <<day, lease, charges, run, generates>>

Signed(l) == lease[l] # None
IsLive(l) == Signed(l) /\ lease[l].status = "LIVE"
ThisMonth == CHOOSE m \in Months : day \in FirstDay[m] .. FinalDay[m]

InitBilling ==
    /\ day = 0
    /\ lease = [l \in Leases |-> None]
    /\ charges = [l \in Leases |-> [m \in Months |-> <<>>]]
    /\ run = [r \in Runs |-> None]
    /\ generates \in BOOLEAN

-----------------------------------------------------------------------------
(* RentGenerationService                                                   *)

leaseCoversPeriod(l, m) ==
    /\ lease[l].start <= FinalDay[m]
    /\ lease[l].end = None \/ lease[l].end >= FirstDay[m]

InForceOnTheFirst(scope, m) == {l \in scope : IsLive(l) /\ lease[l].start <= FirstDay[m]}
Billable(scope, m) == {l \in scope : IsLive(l) /\ leaseCoversPeriod(l, m)}

\* The rent is copied now; the rows are inserted later.
ReadLeases(r, scope, m) ==
    /\ run[r] = None
    /\ run' = [run EXCEPT ![r] =
          [stage |-> "insert", month |-> m,
           bills |-> {[lease |-> l, amount |-> lease[l].rent] : l \in Billable(scope, m)}]]
    /\ UNCHANGED <<day, lease, charges, generates>>

\* generate: any month, within the caller's scope.
PressButton(b) == \E scope \in SUBSET Leases, m \in Months : ReadLeases(b, scope, m)

\* generateForAll: this month, everything, if the organization has it switched
\* on.  markOverdue follows in any case.
NightlyRun(j) == ReadLeases(j, IF generates THEN Leases ELSE {}, ThisMonth)

NoIndex(l, m) == TRUE
\* UNIQUE (leaseId, periodStart)
IndexAdmits(l, m) == charges[l][m] = <<>>

\* createMany with skipDuplicates leaves the rows that are there alone.
Written(l, m, amount) ==
    IF IndexAdmits(l, m)
    THEN Append(charges[l][m], [amount |-> amount, status |-> "PENDING"])
    ELSE charges[l][m]

InsertCharges(r) ==
    /\ run[r] # None
    /\ run[r].stage = "insert"
    /\ charges' = [l \in Leases |-> [m \in Months |->
          IF m = run[r].month /\ \E b \in run[r].bills : b.lease = l
          THEN Written(l, m, (CHOOSE b \in run[r].bills : b.lease = l).amount)
          ELSE charges[l][m]]]
    /\ run' = [run EXCEPT ![r] = [stage |-> "mark"]]
    /\ UNCHANGED <<day, lease, generates>>

Due(m) == FirstDay[m] + DueDay
LatePaid(c, m) == Due(m) < day
DueToday(c, m) == c.status = "PENDING" /\ Due(m) <= day
Late(c, m) == c.status = "PENDING" /\ Due(m) < day

\* markOverdue: every month's unpaid charges, in one statement.
MarkOverdue(r) ==
    /\ run[r] # None
    /\ run[r].stage = "mark"
    /\ charges' = [l \in Leases |-> [m \in Months |->
          [i \in DOMAIN charges[l][m] |->
              IF Late(charges[l][m][i], m) THEN [charges[l][m][i] EXCEPT !.status = "OVERDUE"]
                                           ELSE charges[l][m][i]]]]
    /\ run' = [run EXCEPT ![r] = None]
    /\ UNCHANGED <<day, lease, generates>>

\* The process goes down, or the database refuses: nothing is remembered.
Crash(r) ==
    /\ run[r] # None
    /\ run' = [run EXCEPT ![r] = None]
    /\ UNCHANGED <<day, lease, charges, generates>>

-----------------------------------------------------------------------------
(* What happens to leases and charges meanwhile                            *)

SetLease(l, row) ==
    /\ lease' = [lease EXCEPT ![l] = row]
    /\ UNCHANGED <<day, charges, run, generates>>

\* LeasesService.create: the dates may lie in the past.
Sign(l) ==
    \E s \in Starts, e \in Ends \cup {None}, rent \in Rents :
        /\ ~Signed(l)
        /\ e # None => s < e
        /\ SetLease(l, [status |-> "LIVE", start |-> s, end |-> e, rent |-> rent])

\* LeasesService.update
Edit(l) ==
    \E e \in Ends \cup {lease[l].end}, rent \in Rents :
        /\ lease[l].status # "TERMINATED"
        /\ e # None => lease[l].start < e
        /\ SetLease(l, [lease[l] EXCEPT !.end = e, !.rent = rent])

\* LeasesService.renew: a later end, and a new rent or the old one.
Renew(l) ==
    \E e \in Ends, rent \in Rents :
        /\ Signed(l)
        /\ lease[l].status # "TERMINATED"
        /\ lease[l].start < e
        /\ lease[l].end # None => lease[l].end < e
        /\ SetLease(l, [lease[l] EXCEPT !.status = "LIVE", !.end = e, !.rent = rent])

Terminate(l) ==
    /\ Signed(l)
    /\ lease[l].status # "TERMINATED"
    /\ SetLease(l, [lease[l] EXCEPT !.status = "TERMINATED"])

\* LeaseStatusService.deriveFor
Lapse(l) ==
    /\ IsLive(l)
    /\ lease[l].end # None
    /\ lease[l].end < day
    /\ SetLease(l, [lease[l] EXCEPT !.status = "EXPIRED"])

SetStatus(l, m, i, status) ==
    /\ charges' = [charges EXCEPT ![l][m][i].status = status]
    /\ UNCHANGED <<day, lease, run, generates>>

\* The payment that brings the balance to zero, and the void that brings it back.
Settle(l, m) ==
    \E i \in DOMAIN charges[l][m] :
        /\ charges[l][m][i].status # "PAID"
        /\ SetStatus(l, m, i, "PAID")

Unsettle(l, m) ==
    \E i \in DOMAIN charges[l][m] :
        /\ charges[l][m][i].status = "PAID"
        /\ SetStatus(l, m, i, IF Due(m) < day THEN "OVERDUE" ELSE "PENDING")

Tick ==
    /\ day < LastDay
    /\ day' = day + 1
    /\ UNCHANGED <<lease, charges, run, generates>>

RunStep(r) == InsertCharges(r) \/ MarkOverdue(r) \/ Crash(r)
LeaseStep(l) == Sign(l) \/ (Signed(l) /\ Edit(l)) \/ Renew(l) \/ Terminate(l) \/ Lapse(l)

NextBilling ==
    \/ \E b \in Buttons : PressButton(b)
    \/ \E j \in Jobs : NightlyRun(j)
    \/ \E r \in Runs : RunStep(r)
    \/ \E l \in Leases : LeaseStep(l) \/ \E m \in Months : Settle(l, m) \/ Unsettle(l, m)
    \/ Tick

\* The job runs, and is not cut short between read and insert every time.
FairBilling ==
    \A j \in Jobs : /\ WF_billing(NightlyRun(j))
                    /\ SF_billing(InsertCharges(j))
                    /\ SF_billing(MarkOverdue(j))

BillingSpec == InitBilling /\ [][NextBilling]_billing
FairBillingSpec == BillingSpec /\ FairBilling

-----------------------------------------------------------------------------
(* Properties.                                                             *)

\* Rows and runs have their types.
BillingTypeOK ==
    /\ day \in Days
    /\ lease \in [Leases -> Lease \cup {None}]
    /\ charges \in [Leases -> [Months -> Seq(Charge)]]
    /\ run \in [Runs -> Run \cup {None}]
    /\ generates \in BOOLEAN

\* A lease is billed once for a month, however many runs read it unbilled: the
\* job of two processes, the button pressed twice, a restart in the middle.
OneChargePerMonth == \A l \in Leases, m \in Months : Len(charges[l][m]) <= 1

\* A run never bills a lease for a month that ended before it started, even if
\* the lease was changed between the read and the insert.
NoneBeforeStart ==
    \A l \in Leases, m \in Months :
        charges[l][m] # <<>> => Signed(l) /\ lease[l].start <= FinalDay[m]

\* What is OVERDUE was due before today: a date that is today is not late, and
\* a paid charge is not marked.
OverdueIsLate ==
    \A l \in Leases, m \in Months : \A i \in DOMAIN charges[l][m] :
        charges[l][m][i].status = "OVERDUE" => Due(m) < day

\* A later rent review does not rewrite what a month was billed at, and no run
\* takes a charge away or makes a settled one owed again.
ChargesStand ==
    [][\A l \in Leases, m \in Months : \A i \in DOMAIN charges[l][m] :
          /\ i \in DOMAIN charges'[l][m]
          /\ charges'[l][m][i].amount = charges[l][m][i].amount
          /\ run # run' /\ charges[l][m][i].status = "PAID"
                => charges'[l][m][i].status = "PAID"]_billing

\* A lease signed in the middle of a month is billed for that month by the
\* nightly pass, without anybody pressing the button, where the organization has
\* generation on, unless it is ended or shortened, or the month is over, first.
SignedIsBilled ==
    \A l \in Leases, m \in Months :
        LET Owed == generates /\ IsLive(l) /\ ThisMonth = m /\ leaseCoversPeriod(l, m)
        IN  Owed ~> (charges[l][m] # <<>> \/ ~Owed)

-----------------------------------------------------------------------------
(* The inductive invariant behind the safety properties.                   *)

\* What a run read stays coverable: a start date is never changed.
BillsCovered ==
    \A r \in Runs : (run[r] # None /\ run[r].stage = "insert") =>
        \A b \in run[r].bills : /\ Signed(b.lease)
                                /\ lease[b.lease].start <= FinalDay[run[r].month]

BillingInv ==
    BillingTypeOK /\ OneChargePerMonth /\ NoneBeforeStart /\ OverdueIsLate /\ BillsCovered
=============================================================================
