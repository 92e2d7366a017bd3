------------------------------- MODULE Nightly -------------------------------
(***************************************************************************)
(* The night of one organization: Billing, and beside it the sweeps that   *)
(* turn what the tables hold in the morning into notifications             *)
(* (NotificationSweepsJob, NotificationsService, the recipients service).  *)
(*                                                                         *)
(* A sweep lists facts once, then for every fact reads who may see it and  *)
(* inserts one row for each of them; charges are paid, leases renewed and  *)
(* people reassigned in between, another process may sweep at the same     *)
(* time, and a restart begins again.                                       *)
(***************************************************************************)
EXTENDS Billing, FiniteSets

CONSTANTS
    Workers,     \* API processes, each with its own sweeps
    Owners,      \* active staff who see every property
    Scoped,      \* active staff who see the properties assigned to them
    Milestones,  \* EXPIRY_MILESTONES, in days
    Cap          \* a sweep lists at most so many facts

Users == Owners \cup Scoped

\* dedupeKey: the fact, and the day it was swept; a milestone has no day.
OverdueKey == [type : {"RENT_OVERDUE"}, lease : Leases, month : Months, stamp : Days]
ExpiryKey == [type : {"LEASE_EXPIRING"}, lease : Leases, days : Milestones]
Key == OverdueKey \cup ExpiryKey

Sweep == [todo : SUBSET Key]
         \cup [todo : SUBSET Key, about : Key, to : SUBSET Users]

ASSUME NightlyConstants ==
    /\ Owners \cap Scoped = {}
    /\ Milestones \subseteq Nat
    /\ Cap \in Nat \ {0}
    /\ None \notin Sweep

VARIABLES
    assigned,  \* StaffAssignment: the leases each scoped person can see
    everSaw,   \* the leases each ever could see (history)
    told,      \* Notification rows of each user and key
    unread,    \* users and keys whose row has no readAt
    sweep      \* what each sweep under way still has to do

notices == <<assigned, everSaw, told, unread, sweep>>
vars == <<day, lease, charges, run, generates, assigned, everSaw, told, unread, sweep>>

Init ==
    /\ InitBilling
    /\ assigned = [u \in Scoped |-> {}]
    /\ everSaw = [u \in Scoped |-> {}]
    /\ told = [u \in Users |-> [k \in Key |-> 0]]
    /\ unread = {}
    /\ sweep = [w \in Workers |-> None]

-----------------------------------------------------------------------------
(* NotificationSweepsJob                                                   *)

IsOverdue(l, m) == \E i \in DOMAIN charges[l][m] : charges[l][m][i].status = "OVERDUE"

Overdue == {k \in OverdueKey : k.stamp = day /\ IsOverdue(k.lease, k.month)}

\* Exactly that many days away, not fewer.
Expiring == {k \in ExpiryKey : IsLive(k.lease) /\ lease[k.lease].end = day + k.days}

\* take: 100, in no order.
UpToCap(facts) ==
    {s \in SUBSET facts : Cardinality(s) = IF Cardinality(facts) < Cap
                                           THEN Cardinality(facts) ELSE Cap}

List(w, facts) ==
    /\ sweep[w] = None
    /\ \E todo \in UpToCap(facts) :
          todo # {} /\ sweep' = [sweep EXCEPT ![w] = [todo |-> todo]]
    /\ UNCHANGED <<billing, assigned, everSaw, told, unread>>

Unscoped(l) == Users
AssignedOnly(l) == {u \in Scoped : l \in assigned[u]}
\* forPermission: owners and managers, and whoever is assigned to the property.
Recipients(l) == Owners \cup {u \in Scoped : l \in assigned[u]}

Listing(w) == sweep[w] # None /\ DOMAIN sweep[w] = {"todo"}
Telling(w) == sweep[w] # None /\ DOMAIN sweep[w] = {"todo", "about", "to"}

ReadRecipients(w, k) ==
    /\ Listing(w)
    /\ k \in sweep[w].todo
    /\ sweep' = [sweep EXCEPT ![w] =
          [todo |-> sweep[w].todo \ {k}, about |-> k, to |-> Recipients(k.lease)]]
    /\ UNCHANGED <<billing, assigned, everSaw, told, unread>>

NoNoticeIndex(u, k) == TRUE
\* The partial unique index on (organizationId, userId, dedupeKey).
NoticeAdmitted(u, k) == told[u][k] = 0

\* notify: one createMany with skipDuplicates; a new row is unread.
Notify(w) ==
    LET s == sweep[w]
        new == {u \in s.to : NoticeAdmitted(u, s.about)}
    IN
    /\ Telling(w)
    /\ told' = [u \in Users |-> IF u \in new THEN [told[u] EXCEPT ![s.about] = @ + 1]
                                             ELSE told[u]]
    /\ unread' = unread \cup {<<u, s.about>> : u \in new}
    /\ sweep' = [sweep EXCEPT ![w] = IF s.todo = {} THEN None ELSE [todo |-> s.todo]]
    /\ UNCHANGED <<billing, assigned, everSaw>>

\* The restart in the middle; an insert that fails is swallowed and goes on.
StopSweep(w) ==
    /\ sweep[w] # None
    /\ sweep' = [sweep EXCEPT ![w] = None]
    /\ UNCHANGED <<billing, assigned, everSaw, told, unread>>

FailNotice(w) ==
    /\ Telling(w)
    /\ sweep' = [sweep EXCEPT ![w] = IF @.todo = {} THEN None ELSE [todo |-> @.todo]]
    /\ UNCHANGED <<billing, assigned, everSaw, told, unread>>

-----------------------------------------------------------------------------
(* Staff, and readers                                                      *)

Assign(u) ==
    \E ls \in SUBSET Leases :
        /\ ls # assigned[u]
        /\ assigned' = [assigned EXCEPT ![u] = ls]
        /\ everSaw' = [everSaw EXCEPT ![u] = @ \cup ls]
        /\ UNCHANGED <<billing, told, unread, sweep>>

OthersToo(u) == {p \in unread : p[2] \in {q[2] : q \in {r \in unread : r[1] = u}}}
\* ownWhere: the caller's rows and nobody else's.
OwnUnread(u) == {p \in unread : p[1] = u}

\* markRead of some, or markAllRead.
MarkRead(u) ==
    \E n \in OwnUnread(u) :
        \/ /\ unread' = unread \ {n}
           /\ UNCHANGED <<billing, assigned, everSaw, told, sweep>>
        \/ /\ unread' = unread \ OwnUnread(u)
           /\ UNCHANGED <<billing, assigned, everSaw, told, sweep>>

GoOn(w) ==
    \/ \E k \in Key : ReadRecipients(w, k)
    \/ Notify(w) \/ FailNotice(w) \/ StopSweep(w)

SweepStep(w) == List(w, Overdue) \/ List(w, Expiring) \/ GoOn(w)

Next ==
    \/ NextBilling /\ UNCHANGED notices
    \/ \E w \in Workers : SweepStep(w)
    \/ \E u \in Scoped : Assign(u)
    \/ \E u \in Users : MarkRead(u)

Spec == Init /\ [][Next]_vars

\* No sweep hangs, the overdue sweep runs every morning, and neither a restart
\* nor a failed insert hits the same fact every time.
Fairness ==
    /\ \A w \in Workers : WF_vars(GoOn(w))
    /\ SF_vars(\E w \in Workers : List(w, Overdue))
    /\ \A k \in OverdueKey :
          /\ SF_vars(\E w \in Workers : ReadRecipients(w, k))
          /\ SF_vars(\E w \in Workers : Telling(w) /\ sweep[w].about = k /\ Notify(w))

FairSpec == Spec /\ Fairness

-----------------------------------------------------------------------------
(* Properties.                                                             *)

\* Rows and sweeps have their types.
TypeOK ==
    /\ BillingTypeOK
    /\ assigned \in [Scoped -> SUBSET Leases]
    /\ everSaw \in [Scoped -> SUBSET Leases]
    /\ told \in [Users -> [Key -> Nat]]
    /\ unread \subseteq Users \X Key
    /\ sweep \in [Workers -> Sweep \cup {None}]

\* A sweep run again, a restart in the middle of one and two processes at once
\* tell each person once: one row for one person and one key.
ToldOnce == \A u \in Users, k \in Key : told[u][k] <= 1

\* Nobody is told of a property that was never theirs to see, whatever was
\* reassigned between the listing and the insert.
ToldWhatTheySaw ==
    \A u \in Scoped, k \in Key : told[u][k] > 0 => k.lease \in everSaw[u]

\* A notice, once read, stays read, and only its owner reads it; a later sweep
\* of the same fact does not bring it back.
ReadStaysRead ==
    [][\A u \in Users, k \in Key :
          /\ told'[u][k] >= told[u][k]
          /\ told[u][k] > 0 /\ <<u, k>> \notin unread => <<u, k>> \notin unread'
          /\ <<u, k>> \in unread /\ <<u, k>> \notin unread' =>
                \A v \in Users \ {u}, j \in Key : <<v, j>> \in unread => <<v, j>> \in unread']_vars

\* What is announced as overdue was billed, and was due before the day of the
\* sweep that says so.
OverdueToldTruly ==
    \A u \in Users, k \in Key :
        told[u][k] > 0 /\ k.type = "RENT_OVERDUE" =>
            charges[k.lease][k.month] # <<>> /\ Due(k.month) < k.stamp

\* A charge that stays overdue is announced to everybody who sees every property,
\* on some morning, whatever restarts in the middle of a sweep and however often
\* it was left out while more were overdue, once no more are overdue than a sweep
\* lists.  While more are, the code picks among them in no order, and one that is
\* never picked is never announced.
OverdueIsAnnounced ==
    \A l \in Leases, m \in Months, u \in Owners :
        <>[](IsOverdue(l, m) /\ Cardinality(Overdue) <= Cap) =>
            <>(\E k \in OverdueKey : k.lease = l /\ k.month = m /\ told[u][k] > 0)

-----------------------------------------------------------------------------
(* The inductive invariant behind the safety properties.                   *)

Truly(k) == k.type = "RENT_OVERDUE" =>
                charges[k.lease][k.month] # <<>> /\ Due(k.month) < k.stamp

\* What a sweep is about to say is still so, and to whom.
SweepsAreSound ==
    \A w \in Workers : sweep[w] # None =>
        /\ \A k \in sweep[w].todo : Truly(k)
        /\ Telling(w) => /\ Truly(sweep[w].about)
                         /\ \A u \in sweep[w].to \cap Scoped :
                               sweep[w].about.lease \in everSaw[u]

SeenEverSeen == \A u \in Scoped : assigned[u] \subseteq everSaw[u]

UnreadIsTold == \A p \in unread : told[p[1]][p[2]] > 0

NightlyInv ==
    /\ TypeOK
    /\ BillingInv
    /\ ToldOnce
    /\ ToldWhatTheySaw
    /\ OverdueToldTruly
    /\ SweepsAreSound
    /\ SeenEverSeen
    /\ UnreadIsTold
=============================================================================
