------------------------------ MODULE Occupancy ------------------------------
(***************************************************************************)
(* Who holds which unit: leases, the unit's status beside them, and the    *)
(* nightly job that derives EXPIRING_SOON and EXPIRED from the calendar    *)
(* (LeasesService, UnitsService.setStatus and remove, LeaseStatusService), *)
(* for one organization.                                                   *)
(*                                                                         *)
(* A client is a browser session: it has one request in flight at a time   *)
(* and sends any number of them.  Every handler reads first and writes     *)
(* later, without a lock in between, so a request is two steps: Read...    *)
(* keeps what the handler will act on in `request', Commit... writes.  The *)
(* writing transactions contain no read and take their row locks in one    *)
(* order (lease, then unit): what others see of one is its commit.         *)
(***************************************************************************)
EXTENDS Integers

CONSTANTS
    Clients,    \* sessions working at the same time
    Units,
    Leases,     \* bound: the leases that can ever be signed
    LastDay,    \* bound: the calendar stops here
    EndDates,   \* the end dates a body may carry, as day numbers
    WarnDays,   \* Settings.leaseExpiryWarningDays
    Manual,     \* the statuses setStatus is used with
    None        \* no lease, no end date, no request

UnitStatus == {"VACANT", "RESERVED", "OCCUPIED", "MAINTENANCE", "UNAVAILABLE"}
LeaseStatus == {"ACTIVE", "EXPIRING_SOON", "EXPIRED", "TERMINATED"}
LeaseRow == [unit : Units, end : EndDates \cup {None}, status : LeaseStatus]

Request ==
    [op : {"create"}, unit : Units, end : EndDates \cup {None}]
    \cup [op : {"update", "renew"}, lease : Leases, end : EndDates]
    \cup [op : {"terminate"}, lease : Leases, status : {"VACANT", "MAINTENANCE"}]
    \cup [op : {"setStatus"}, unit : Units, status : Manual]
    \cup [op : {"remove"}, unit : Units]

\* MANUAL_UNIT_STATUSES has no OCCUPIED: that one follows the leases.
ASSUME OccupancyConstants ==
    /\ LastDay \in Nat
    /\ WarnDays \in Nat
    /\ EndDates \subseteq Nat
    /\ Manual \subseteq UnitStatus \ {"OCCUPIED"}
    /\ None \notin LeaseRow \cup EndDates \cup Request \cup Units \cup Leases

VARIABLES
    today,      \* the server's calendar day
    unit,       \* Unit.status, "DELETED" once the row is gone
    lease,      \* Lease rows, None where no lease was signed yet
    request,    \* what each client's handler is about to write
    job,        \* the statement the nightly job is about to send
    jobDay      \* the day that job began

vars == <<today, unit, lease, request, job, jobDay>>

Live == {"ACTIVE", "EXPIRING_SOON"}
AnyButOut == {"VACANT", "RESERVED", "OCCUPIED"}
\* LEASABLE_UNIT_STATUSES
Leasable == {"VACANT", "RESERVED"}

Signed == {l \in Leases : lease[l] # None}
Closed(l) == lease[l].status = "TERMINATED"
ActiveOn(u) == {l \in Signed : lease[l].unit = u /\ lease[l].status = "ACTIVE"}
\* Leases not moved out of: an EXPIRED one keeps its tenant and its unit.
HeldOn(u) == {l \in Signed : lease[l].unit = u /\ ~Closed(l)}

Init ==
    /\ today = 0
    /\ unit = [u \in Units |-> "VACANT"]
    /\ lease = [l \in Leases |-> None]
    /\ request = [c \in Clients |-> None]
    /\ job = "idle"
    /\ jobDay = 0

-----------------------------------------------------------------------------
(* The requests.  A refused read changes nothing and is not an action.     *)

Ask(c, r) ==
    /\ request[c] = None
    /\ request' = [request EXCEPT ![c] = r]
    /\ UNCHANGED <<today, unit, lease, job, jobDay>>

Doing(c, op) == request[c] # None /\ request[c].op = op
Finish(c) == request' = [request EXCEPT ![c] = None]

\* The write was refused by a constraint or the connection was lost.
Abort(c) ==
    /\ request[c] # None
    /\ Finish(c)
    /\ UNCHANGED <<today, unit, lease, job, jobDay>>

\* LeasesService.create: the unit must be available.
ReadForCreate(c) ==
    \E u \in Units, e \in EndDates \cup {None} :
        /\ unit[u] \in Leasable
        /\ Ask(c, [op |-> "create", unit |-> u, end |-> e])

NoUniqueIndex(l, u) == TRUE
\* The partial unique index lets lease l be ACTIVE on unit u.
IndexAllows(l, u) == ActiveOn(u) \subseteq {l}

LeaseOnly(u) == UNCHANGED unit
\* The lease is inserted and the unit marked in one transaction.
Occupy(u) == unit' = [unit EXCEPT ![u] = "OCCUPIED"]

CommitCreate(c) ==
    \E l \in Leases \ Signed :
        LET r == request[c] IN
        /\ Doing(c, "create")
        /\ unit[r.unit] # "DELETED"
        /\ IndexAllows(l, r.unit)
        /\ lease' = [lease EXCEPT ![l] =
                        [unit |-> r.unit, end |-> r.end, status |-> "ACTIVE"]]
        /\ Occupy(r.unit)
        /\ Finish(c)
        /\ UNCHANGED <<today, job, jobDay>>

\* LeasesService.update: only the end date matters here.
ReadForUpdate(c) ==
    \E l \in Signed, e \in EndDates :
        /\ ~Closed(l)
        /\ Ask(c, [op |-> "update", lease |-> l, end |-> e])

CommitUpdate(c) ==
    LET r == request[c] IN
    /\ Doing(c, "update")
    /\ lease' = [lease EXCEPT ![r.lease].end = r.end]
    /\ Finish(c)
    /\ UNCHANGED <<today, unit, job, jobDay>>

\* LeasesService.renew: the new end must lie after the one just read.
ReadForRenew(c) ==
    \E l \in Signed, e \in EndDates :
        /\ ~Closed(l)
        /\ lease[l].end # None => e > lease[l].end
        /\ Ask(c, [op |-> "renew", lease |-> l, end |-> e])

AnyRevival(l) == TRUE
\* CHECK Lease_terminated_has_date: a row with a termination date is TERMINATED.
CheckAllowsLive(l) == ~Closed(l)

CommitRenew(c) ==
    LET r == request[c]
        l == r.lease
    IN
    /\ Doing(c, "renew")
    /\ CheckAllowsLive(l)
    /\ IndexAllows(l, lease[l].unit)
    /\ lease' = [lease EXCEPT ![l].end = r.end, ![l].status = "ACTIVE"]
    /\ Finish(c)
    /\ UNCHANGED <<today, unit, job, jobDay>>

\* LeasesService.terminate
ReadForTerminate(c) ==
    \E l \in Signed, s \in {"VACANT", "MAINTENANCE"} :
        /\ ~Closed(l)
        /\ Ask(c, [op |-> "terminate", lease |-> l, status |-> s])

CommitTerminate(c) ==
    LET r == request[c] IN
    /\ Doing(c, "terminate")
    /\ lease' = [lease EXCEPT ![r.lease].status = "TERMINATED"]
    /\ unit' = [unit EXCEPT ![lease[r.lease].unit] = r.status]
    /\ Finish(c)
    /\ UNCHANGED <<today, job, jobDay>>

\* UnitsService.setStatus and remove refuse an occupied unit.
Idle(u) == unit[u] \notin {"OCCUPIED", "DELETED"}

ReadForStatus(c) ==
    \E u \in Units, s \in Manual :
        /\ Idle(u)
        /\ Ask(c, [op |-> "setStatus", unit |-> u, status |-> s])

CommitStatus(c) ==
    LET r == request[c] IN
    /\ Doing(c, "setStatus")
    /\ unit[r.unit] # "DELETED"
    /\ unit' = [unit EXCEPT ![r.unit] = r.status]
    /\ Finish(c)
    /\ UNCHANGED <<today, lease, job, jobDay>>

\* The counts of charges, payments and expenses may or may not refuse it.
ReadForRemove(c) ==
    \E u \in Units : Idle(u) /\ Ask(c, [op |-> "remove", unit |-> u])

CascadeDelete(u) == TRUE
\* Lease.unit is onDelete: Restrict.
NoLeaseOf(u) == \A l \in Signed : lease[l].unit # u

CommitRemove(c) ==
    LET r == request[c] IN
    /\ Doing(c, "remove")
    /\ NoLeaseOf(r.unit)
    /\ unit' = [unit EXCEPT ![r.unit] = "DELETED"]
    /\ Finish(c)
    /\ UNCHANGED <<today, lease, job, jobDay>>

-----------------------------------------------------------------------------
(* LeaseStatusService.deriveFor: three UPDATE statements, no transaction   *)
(* around them, with the day taken when the job began.                     *)

JobStart ==
    /\ job = "idle"
    /\ job' = "expire"
    /\ jobDay' = today
    /\ UNCHANGED <<today, unit, lease, request>>

SetStatus(matches, status) ==
    lease' = [l \in Leases |-> IF l \in matches
                               THEN [lease[l] EXCEPT !.status = status]
                               ELSE lease[l]]

WarningEdge == jobDay + WarnDays

LapsedFlaggedOnly == {l \in Signed : /\ lease[l].status = "EXPIRING_SOON"
                                     /\ lease[l].end # None
                                     /\ lease[l].end < jobDay}
Lapsed == {l \in Signed : /\ lease[l].status \in Live
                          /\ lease[l].end # None
                          /\ lease[l].end < jobDay}

ExpireLapsed ==
    /\ job = "expire"
    /\ SetStatus(Lapsed, "EXPIRED")
    /\ job' = "flag"
    /\ UNCHANGED <<today, unit, request, jobDay>>

Expiring == {l \in Signed : /\ lease[l].status = "ACTIVE"
                            /\ lease[l].end # None
                            /\ lease[l].end \in jobDay..WarningEdge}

FlagExpiring ==
    /\ job = "flag"
    /\ SetStatus(Expiring, "EXPIRING_SOON")
    /\ job' = "clear"
    /\ UNCHANGED <<today, unit, request, jobDay>>

NothingDealtWith == {}
\* Extended beyond the warning window since it was flagged.
DealtWith == {l \in Signed : /\ lease[l].status = "EXPIRING_SOON"
                             /\ lease[l].end # None
                             /\ lease[l].end > WarningEdge}

\* The unique index takes every row the statement would make ACTIVE.
ClearAllowed ==
    \A l \in DealtWith :
        /\ IndexAllows(l, lease[l].unit)
        /\ \A k \in DealtWith : lease[k].unit = lease[l].unit => k = l

ClearFlags ==
    /\ job = "clear"
    /\ ClearAllowed
    /\ SetStatus(DealtWith, "ACTIVE")
    /\ job' = "idle"
    /\ UNCHANGED <<today, unit, request, jobDay>>

JobEnds ==
    /\ job' = "idle"
    /\ UNCHANGED <<today, unit, lease, request, jobDay>>

\* One row refused fails the whole statement, and the error ends the job.
ClearRefused == job = "clear" /\ ~ClearAllowed /\ JobEnds

\* The process stops: what is left waits for a later night.
JobAbort == job # "idle" /\ JobEnds

Tick ==
    /\ today < LastDay
    /\ today' = today + 1
    /\ UNCHANGED <<unit, lease, request, job, jobDay>>

ClientStep(c) ==
    \/ ReadForCreate(c) \/ CommitCreate(c)
    \/ ReadForUpdate(c) \/ CommitUpdate(c)
    \/ ReadForRenew(c) \/ CommitRenew(c)
    \/ ReadForTerminate(c) \/ CommitTerminate(c)
    \/ ReadForStatus(c) \/ CommitStatus(c)
    \/ ReadForRemove(c) \/ CommitRemove(c)
    \/ Abort(c)

JobStep == JobStart \/ ExpireLapsed \/ FlagExpiring \/ ClearFlags
           \/ ClearRefused \/ JobAbort

Next ==
    \/ \E c \in Clients : ClientStep(c)
    \/ JobStep
    \/ Tick

Spec == Init /\ [][Next]_vars

\* The job starts every night, and a statement that can succeed is not cut
\* short every single night; nobody has to send a request.
Fairness ==
    /\ WF_vars(JobStart)
    /\ SF_vars(ExpireLapsed)
    /\ SF_vars(FlagExpiring)
    /\ SF_vars(ClearFlags)
    /\ WF_vars(ClearRefused)

FairSpec == Spec /\ Fairness

-----------------------------------------------------------------------------
(* Properties.                                                             *)

\* Rows and requests have their types.
TypeOK ==
    /\ today \in 0..LastDay
    /\ unit \in [Units -> UnitStatus \cup {"DELETED"}]
    /\ lease \in [Leases -> LeaseRow \cup {None}]
    /\ request \in [Clients -> Request \cup {None}]
    /\ job \in {"idle", "expire", "flag", "clear"}
    /\ jobDay \in 0..today

\* No unit has two ACTIVE leases, whichever of the three writers of that
\* status (a new lease, a renewal, the nightly job) gets there second.
OneActiveLease ==
    \A l, k \in Signed :
        /\ lease[l].status = "ACTIVE" /\ lease[k].status = "ACTIVE"
        /\ lease[l].unit = lease[k].unit
        => l = k

\* A lease never outlives its unit's row.
LeasesHaveUnits == \A l \in Signed : unit[lease[l].unit] # "DELETED"

KeepsTerminated ==
    \A l \in Signed : /\ lease'[l] # None
                      /\ lease'[l].unit = lease[l].unit
                      /\ Closed(l) => lease'[l].status = "TERMINATED"

\* A lease stays terminated: no renewal, and no run of the job, that read it
\* earlier brings it back; its row stays, on the unit it was signed for.
TerminatedForever == [][KeepsTerminated]_vars

\* A unit is OCCUPIED exactly while somebody holds a lease on it.
UnitFollowsLease ==
    \A u \in Units : unit[u] = "OCCUPIED" <=> HeldOn(u) # {}

\* Two tenants are never in one unit, the one staying past an end included.
OneTenantPerUnit ==
    \A l, k \in Signed :
        ~Closed(l) /\ ~Closed(k) /\ lease[l].unit = lease[k].unit => l = k

-----------------------------------------------------------------------------
(* The inductive invariants behind the safety properties.                  *)

SignedInv(c) ==
    \A op \in {"update", "renew", "terminate"} :
        Doing(c, op) => request[c].lease \in Signed

\* Holds whatever the clients interleave.
OccupancyInv ==
    /\ TypeOK
    /\ \A c \in Clients : SignedInv(c)
    /\ OneActiveLease
    /\ LeasesHaveUnits

\* The requests that decide who is in a unit, and the unit they decide on.
Moving(c) == \E op \in {"create", "terminate", "setStatus"} : Doing(c, op)
UnitOf(r) == IF r.op = "terminate" THEN lease[r.lease].unit ELSE r.unit

\* No two of them are under way on one unit; on other units, and renewals, edits
\* and removals everywhere, come as they like.
MovesApart ==
    \A c, d \in Clients :
        Moving(c) /\ Moving(d) /\ UnitOf(request[c]) = UnitOf(request[d]) => c = d

\* What a handler read still holds when it writes, if the moves are apart.
ReadStillHolds(c) ==
    /\ Doing(c, "create") => unit[request[c].unit] \in Leasable \cup {"DELETED"}
    /\ Doing(c, "setStatus") => unit[request[c].unit] # "OCCUPIED"
    /\ Doing(c, "terminate") => ~Closed(request[c].lease)

\* Moves apart: what the module's other half promises.
ClerkInv ==
    /\ OccupancyInv
    /\ \A c \in Clients : ReadStillHolds(c)
    /\ UnitFollowsLease
    /\ OneTenantPerUnit

\* Only an end that passed makes a lease EXPIRED; an edit after that can move the
\* end, and never takes it away.
ExpiredHasEnd == \A l \in Signed : lease[l].status = "EXPIRED" => lease[l].end # None

-----------------------------------------------------------------------------
(* The abstract book this module implements.                               *)

AnyOf(S) == CHOOSE x \in S : TRUE

Homes == [l \in Leases |-> IF l \in Signed THEN lease[l].unit ELSE None]
Tenants == [u \in Units |-> IF HeldOn(u) = {} THEN None ELSE AnyOf(HeldOn(u))]

MarketOf(status) ==
    CASE status = "OCCUPIED" -> "let"
      [] status = "DELETED" -> "gone"
      [] status \in Leasable -> "free"
      [] OTHER -> "off"

Market == [u \in Units |-> MarketOf(unit[u])]

Letting == INSTANCE LettingBook WITH home <- Homes, tenant <- Tenants, market <- Market

\* Moving in and out look like single steps on the book, and renewals, edits and
\* the nightly job like none: nobody's home is touched by what somebody else
\* does, and an EXPIRED lease still keeps its tenant where they are.
ImplementsLetting == Letting!Spec

-----------------------------------------------------------------------------
(* Liveness.                                                               *)

IsLapsed(l) ==
    /\ lease[l] # None
    /\ lease[l].status \in Live
    /\ lease[l].end # None
    /\ lease[l].end < today

\* A lease past its end date is found by the job and leaves the live list,
\* unless somebody extends or closes it first.
LapsedLeasesSurface == \A l \in Leases : IsLapsed(l) ~> ~IsLapsed(l)

IsStaleFlag(l) ==
    /\ lease[l] # None
    /\ lease[l].status = "EXPIRING_SOON"
    /\ lease[l].end # None
    /\ lease[l].end > today + WarnDays

\* The renewals worklist does not keep a lease somebody already extended.
WorklistCleared == \A l \in Leases : IsStaleFlag(l) ~> ~IsStaleFlag(l)
=============================================================================
