--------------------------- MODULE OccupancyFigures ---------------------------
(***************************************************************************)
(* What the screens say about the occupancy of Occupancy: the dashboard's  *)
(* counts and its expiring leases, the occupancy and tenant reports and the *)
(* renewals list (DashboardService, the portfolio report strategies).      *)
(* Units are counted by their status and leases by theirs: nothing but the *)
(* handlers of Occupancy keeps the two together.  A lease stands for its   *)
(* tenant; filters and pages are left out.  A property can be archived, and *)
(* taken out of the archive, at any time, whatever is let in it, and nothing *)
(* but its row in one report depends on it: what is archived when the      *)
(* screens are read is a parameter.                                        *)
(***************************************************************************)
EXTENDS Occupancy, FiniteSets, Functions

CONSTANTS
    PropertyOf,   \* the property of each unit
    Horizon       \* days ahead the dashboard looks for ending leases

ASSUME FigureConstants ==
    /\ Horizon \in Nat
    /\ IsFiniteSet(Units)
    /\ DOMAIN PropertyOf = Units

Properties == {PropertyOf[u] : u \in Units}
UnitsIn(ps) == {u \in Units : unit[u] # "DELETED" /\ PropertyOf[u] \in ps}

\* groupBy status
Counts(ps) == [s \in UnitStatus |-> Cardinality({u \in UnitsIn(ps) : unit[u] = s})]
TotalOf(counts) == SumFunction(counts)

\* DashboardService.summary
DashboardUnits == [counts |-> Counts(Properties), total |-> TotalOf(Counts(Properties))]

\* OccupancyReport: a row for every property that is not archived, and totals of
\* the rows.
OccupancyReport(archived) ==
    LET shown == Properties \ archived
        row(p) == [counts |-> Counts({p}), total |-> TotalOf(Counts({p}))]
        occupied == SumFunction([p \in shown |-> row(p).counts["OCCUPIED"]])
        total == SumFunction([p \in shown |-> row(p).total])
    IN [rows |-> [p \in shown |-> row(p)],
        occupied |-> occupied, total |-> total, vacant |-> total - occupied]

\* TenantReport: who is housed, by a lease that is live.
Housed == {l \in Signed : lease[l].status \in Live}

LiveWithEnd == {l \in Housed : lease[l].end # None}
\* LeaseExpiryReport: "the renewals worklist"; an open end has no place on it.
LeaseExpiryReport ==
    {l \in Signed : lease[l].status \in {"ACTIVE", "EXPIRING_SOON", "EXPIRED"}
                    /\ lease[l].end # None}

\* DashboardService.worklists
ExpiringLeases ==
    {l \in Housed : lease[l].end # None /\ lease[l].end \in today..today + Horizon}

-----------------------------------------------------------------------------
(* Properties.                                                             *)

\* The tenants of some properties.
TenantsIn(ps) == {l \in Housed \cup LeaseExpiryReport : PropertyOf[lease[l].unit] \in ps}

\* "An occupancy rate computed two different ways is two different products": the
\* dashboard counts what the report does and, besides, exactly the units of the
\* archived properties, so that the two agree where nothing is archived and only
\* there.  Each occupied unit is behind exactly one tenant, on the tenant report
\* or, past the end of the lease, on the renewals list; no property shows more
\* tenants than occupied units; and what the dashboard says is about to end is on
\* the renewals list.
OccupancyTold ==
    /\ \A archived \in SUBSET Properties :
          LET units == DashboardUnits
              report == OccupancyReport(archived)
              hidden == Counts(archived)
              shown == Properties \ archived
          IN
          /\ units.total = report.total + TotalOf(hidden)
          /\ units.counts["OCCUPIED"] = report.occupied + hidden["OCCUPIED"]
          /\ report.vacant >= Counts(shown)["VACANT"]
          /\ report.occupied = Cardinality(TenantsIn(shown))
          /\ \A p \in shown : Cardinality({l \in Housed : PropertyOf[lease[l].unit] = p})
                                 <= report.rows[p].counts["OCCUPIED"]
    /\ ExpiringLeases \subseteq LeaseExpiryReport
=============================================================================
