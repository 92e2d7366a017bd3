------------------------------- MODULE Figures -------------------------------
(***************************************************************************)
(* What the screens say about the money of RentLedger: the rent summary,   *)
(* the collections worklist, the dashboard and its chart, and the financial *)
(* reports (RentService, DashboardService, the report strategies).  Each   *)
(* sums its own columns of committed rows in its own way: by the period    *)
(* that was charged, by the date the money came, by the stored balance, or *)
(* by the payments themselves.  Tenants, units, filters and pages are left *)
(* out, and a month is a year of YearOf.                                   *)
(***************************************************************************)
EXTENDS RentLedger, FiniteSets

CONSTANT PeriodOf   \* the month each charge is for

\* The charges of an organization are the rows of a table.
ASSUME FigureConstants ==
    /\ PeriodOf \in [Charges -> Years]
    /\ IsFiniteSet(Charges)

ChargesOf(months) == {c \in Charges : PeriodOf[c] \in months}
Owing(cs) == {c \in cs : charge[c].balance > 0}

PaidOf == [c \in Charges |-> charge[c].paid]
BalanceLeft == [c \in Charges |-> charge[c].balance]

Charged(cs) == SumFunctionOnSet(Expected, cs)
Paid(cs) == SumFunctionOnSet(PaidOf, cs)
Balance(cs) == SumFunctionOnSet(BalanceLeft, cs)

VoidedToo == Recorded
\* status: 'COMPLETED'
Banked == Completed
Takings(ps) == SumFunctionOnSet(AmountOf, ps)

MonthPaid(p) == YearOf[input[p].date]
For(months) == {p \in Banked : PeriodOf[payment[p].charge] \in months}
Within(months) == {p \in Banked : MonthPaid(p) \in months}

MarkedOverdue(cs) == {c \in Owing(cs) : charge[c].status = "OVERDUE"}
Overdue(cs) == {c \in Owing(cs) : DueDate[c] < today}

\* RentService.summary: the payments of the charges of one period.
RentSummary(m) ==
    [expected    |-> Charged(ChargesOf({m})),
     collected   |-> Takings(For({m})),
     outstanding |-> Balance(Owing(ChargesOf({m}))),
     overdue     |-> Balance(Overdue(ChargesOf({m})))]

\* RentService.outstanding, as of a day.
TotalOutstanding(asOf) == Balance({c \in Owing(Charges) : DueDate[c] <= asOf})

\* DashboardService.summary: the payments that came within the month, whatever
\* they are for, and what is overdue in every period.
DashboardSummary(m) ==
    [expected    |-> Charged(ChargesOf({m})),
     collected   |-> Takings(Within({m})),
     outstanding |-> Balance(ChargesOf({m})),
     overdue     |-> Balance(Overdue(Charges))]

\* DashboardService.charts: a row for every month.
Chart(months) ==
    [m \in months |-> [expected |-> Charged(ChargesOf({m})), collected |-> Takings(Within({m}))]]

\* DashboardService.worklists
OverdueRent == Overdue(Charges)

RentCollectionReport(months) == Takings(Within(months))

OutstandingRentReport(months) ==
    LET cs == Owing(ChargesOf(months)) IN
    [expected |-> Charged(cs), paid |-> Paid(cs), balance |-> Balance(cs)]

\* Collected is the charges' own paidAmount, by the month they are for.
IncomeReport(months) ==
    LET cs == ChargesOf(months) IN
    [expected |-> Charged(cs), collected |-> Paid(cs), outstanding |-> Balance(cs)]

-----------------------------------------------------------------------------
(* Properties.                                                             *)

\* What the payments of a period add up to is what its charges say was paid ("the
\* two must agree", RentService.summary), and with what is owing it makes what was
\* charged; the rent summary, the dashboard and the two reports tell alike what a
\* period's charges come to and what is left of them; and what the income report
\* collects in all is what the collection report does.  Of a single month these two
\* differ: the one counts by the month charged, the other by the month received.
PeriodsAddUp ==
    /\ \A m \in Years :
          LET s == RentSummary(m)  i == IncomeReport({m})  o == OutstandingRentReport({m}) IN
          /\ s.collected = Paid(ChargesOf({m}))
          /\ s.expected = s.collected + s.outstanding
          /\ s.expected = i.expected /\ s.outstanding = i.outstanding
          /\ s.outstanding = o.balance
          /\ s.outstanding = DashboardSummary(m).outstanding
          /\ s.expected - o.expected = s.collected - o.paid
          /\ s.overdue <= s.outstanding
    /\ IncomeReport(Years).collected = RentCollectionReport(Years)

\* Counted by the month it came or by the month it was for, it is the same money
\* in the end; and the overdue figure of the dashboard is that of the worklist as
\* of yesterday, and of the periods together, even before the night marked them.
BasesAgree ==
    LET collectedFor == [m \in Years |-> RentSummary(m).collected]
        collectedIn == [m \in Years |-> Chart(Years)[m].collected]
        overdueOf == [m \in Years |-> RentSummary(m).overdue]
        marked == {c \in Charges : charge[c].status = "OVERDUE"}
    IN
    /\ SumFunction(collectedFor) = RentCollectionReport(Years)
    /\ SumFunction(collectedIn) = RentCollectionReport(Years)
    /\ \A m \in Years :
          /\ DashboardSummary(m).overdue = TotalOutstanding(today - 1)
          /\ DashboardSummary(m).overdue = SumFunction(overdueOf)
    /\ marked \subseteq OverdueRent
=============================================================================
