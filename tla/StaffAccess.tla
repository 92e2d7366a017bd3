----------------------------- MODULE StaffAccess -----------------------------
(***************************************************************************)
(* Who may do what: staff accounts, their role and the properties they are *)
(* assigned to (StaffService), and the access a request is admitted with   *)
(* (SessionAuthGuard, PermissionsService and its cache), for one           *)
(* organization and one API process.                                       *)
(*                                                                         *)
(* A client is one request in flight.  The guard resolves the actor's role *)
(* (a cache hit, or a lookup that is stored afterwards); a handler of      *)
(* StaffService then reads what it checks and, later and without a lock,   *)
(* writes: Read... keeps in `request' what Commit... will write.           *)
(***************************************************************************)
EXTENDS Integers

CONSTANTS
    Clients,   \* requests handled at the same time
    Users,     \* accounts that can ever exist
    Founder,   \* the account made with the organization
    Props,     \* properties
    None       \* no role, nothing cached, no request

\* Two stand for more: an ACCOUNTANT is scoped like a CARETAKER.
Role == {"PROPERTY_OWNER", "PROPERTY_MANAGER", "CARETAKER"}
ManagersToo == {"CARETAKER", "PROPERTY_MANAGER"}
\* PROPERTY_SCOPED_ROLES
Scoped == {"CARETAKER"}

Status == {"ABSENT", "INVITED", "ACTIVE", "INACTIVE", "REMOVED"}

Request ==
    [op : {"lookup"}, actor : Users, role : Role]
    \cup [op : {"admitted"}, actor : Users]
    \cup [op : {"invite"}, user : Users, role : Role, props : SUBSET Props]
    \cup [op : {"assign"}, user : Users, props : SUBSET Props]
    \cup [op : {"replace"}, user : Users, props : SUBSET Props, seen : SUBSET Props]
    \cup [op : {"role"}, user : Users, role : Role]
    \cup [op : {"active"}, user : Users, active : BOOLEAN]
    \cup [op : {"remove"}, user : Users]

ASSUME StaffConstants ==
    /\ Founder \in Users
    /\ None \notin Role \cup Request

VARIABLES
    status,     \* User.status, ABSENT before and REMOVED after the row
    role,       \* the one UserRole of a user, None without the row
    assigned,   \* StaffAssignment rows: the properties of each user
    cache,      \* PermissionsService.cache: the role last resolved, or None
    accepting,  \* users whose invitation was read as INVITED, to be activated
    request     \* what each client's guard or handler is about to do

vars == <<status, role, assigned, cache, accepting, request>>
rows == <<status, role, assigned>>

Exists(u) == status[u] \notin {"ABSENT", "REMOVED"}
ActiveOwners == {u \in Users : status[u] = "ACTIVE" /\ role[u] = "PROPERTY_OWNER"}

Init ==
    /\ status = [u \in Users |-> IF u = Founder THEN "ACTIVE" ELSE "ABSENT"]
    /\ role = [u \in Users |-> IF u = Founder THEN "PROPERTY_OWNER" ELSE None]
    /\ assigned = [u \in Users |-> {}]
    /\ cache = [u \in Users |-> None]
    /\ accepting = {}
    /\ request = [c \in Clients |-> None]

Doing(c, op) == request[c] # None /\ request[c].op = op
Hold(c, r) == request' = [request EXCEPT ![c] = r]
Finish(c) == Hold(c, None)

-----------------------------------------------------------------------------
(* The guard.  Only an owner's role carries staff.create, .update, .delete. *)

Admit(c, u, r) ==
    IF r = "PROPERTY_OWNER" THEN Hold(c, [op |-> "admitted", actor |-> u])
                            ELSE Finish(c)

\* A session is only valid for an ACTIVE account; a cached role is taken as is.
CacheHit(c) ==
    \E u \in Users :
        /\ request[c] = None
        /\ status[u] = "ACTIVE"
        /\ cache[u] # None
        /\ Admit(c, u, cache[u])
        /\ UNCHANGED <<rows, cache, accepting>>

CacheMiss(c) ==
    \E u \in Users :
        /\ request[c] = None
        /\ status[u] = "ACTIVE"
        /\ cache[u] = None
        /\ Hold(c, [op |-> "lookup", actor |-> u, role |-> role[u]])
        /\ UNCHANGED <<rows, cache, accepting>>

StoreAccess(c) ==
    LET r == request[c] IN
    /\ Doing(c, "lookup")
    /\ cache' = [cache EXCEPT ![r.actor] = r.role]
    /\ Admit(c, r.actor, r.role)
    /\ UNCHANGED <<rows, accepting>>

NeverExpires(u) == FALSE
\* Sixty seconds after it was stored.
Expires(u) == cache[u] # None

Expire(u) ==
    /\ Expires(u)
    /\ cache' = [cache EXCEPT ![u] = None]
    /\ UNCHANGED <<rows, accepting, request>>

-----------------------------------------------------------------------------
(* StaffService                                                            *)

Uncounted(u) == TRUE
\* assertNotLastOwner
AnotherOwner(u) == ActiveOwners \ {u} # {}

\* A handler takes over from the guard; refusals change nothing.
Handle(c, r) ==
    /\ Doing(c, "admitted")
    /\ Hold(c, r)
    /\ UNCHANGED <<rows, cache, accepting>>

NotSelf(c, u) == Doing(c, "admitted") /\ request[c].actor # u

\* create: an invitation, with properties for a scoped role only.
ReadForInvite(c) ==
    \E u \in Users, r \in Role, p \in SUBSET Props :
        /\ status[u] = "ABSENT"
        /\ r \notin Scoped => p = {}
        /\ Handle(c, [op |-> "invite", user |-> u, role |-> r, props |-> p])

AnyProps(r) == Props
InsertedProps(r) == r.props
\* The unique email lets one of two invitations of a person through.
CommitInvite(c) ==
    LET r == request[c] IN
    /\ Doing(c, "invite")
    /\ status[r.user] = "ABSENT"
    /\ status' = [status EXCEPT ![r.user] = "INVITED"]
    /\ role' = [role EXCEPT ![r.user] = r.role]
    /\ assigned' = [assigned EXCEPT ![r.user] = InsertedProps(r)]
    /\ Finish(c)
    /\ UNCHANGED <<cache, accepting>>

\* update with a role: not one's own, and not of the last owner.
ReadForRole(c) ==
    \E u \in Users, r \in Role :
        /\ Exists(u)
        /\ NotSelf(c, u)
        /\ role[u] = "PROPERTY_OWNER" /\ r # "PROPERTY_OWNER" => AnotherOwner(u)
        /\ Handle(c, [op |-> "role", user |-> u, role |-> r])

KeepAssigned(u, r) == assigned[u]
\* Assignments of somebody who now sees everything are deleted with the change.
AssignedUnder(u, r) == IF r \in Scoped THEN assigned[u] ELSE {}

CommitRole(c) ==
    LET r == request[c] IN
    /\ Doing(c, "role")
    /\ Exists(r.user)
    /\ role' = [role EXCEPT ![r.user] = r.role]
    /\ assigned' = [assigned EXCEPT ![r.user] = AssignedUnder(r.user, r.role)]
    /\ Finish(c)
    /\ UNCHANGED <<status, cache, accepting>>

\* assignProperties: for a scoped role only; the array is the whole set.
ReadForProperties(c) ==
    \E u \in Users, p \in SUBSET Props :
        /\ Exists(u)
        /\ role[u] \in Scoped
        /\ Handle(c, [op |-> "assign", user |-> u, props |-> p])

\* deleteMany sees the rows committed when it starts ...
DeleteAssigned(c) ==
    LET r == request[c] IN
    /\ Doing(c, "assign")
    /\ Hold(c, [op |-> "replace", user |-> r.user, props |-> r.props,
                seen |-> assigned[r.user]])
    /\ UNCHANGED <<rows, cache, accepting>>

\* ... and createMany adds to whatever is there besides; one property twice
\* breaks the unique index, a deleted account the foreign key.
CommitProperties(c) ==
    LET r == request[c]
        kept == assigned[r.user] \ r.seen
    IN
    /\ Doing(c, "replace")
    /\ r.props # {} => Exists(r.user)
    /\ kept \cap r.props = {}
    /\ assigned' = [assigned EXCEPT ![r.user] = kept \cup r.props]
    /\ Finish(c)
    /\ UNCHANGED <<status, role, cache, accepting>>

\* setActive
ReadForActive(c) ==
    \E u \in Users, a \in BOOLEAN :
        /\ Exists(u)
        /\ ~a => NotSelf(c, u) /\ AnotherOwner(u)
        /\ Handle(c, [op |-> "active", user |-> u, active |-> a])

CommitActive(c) ==
    LET r == request[c] IN
    /\ Doing(c, "active")
    /\ Exists(r.user)
    /\ status' = [status EXCEPT ![r.user] = IF r.active THEN "ACTIVE" ELSE "INACTIVE"]
    /\ Finish(c)
    /\ UNCHANGED <<role, assigned, cache, accepting>>

\* remove: an account that recorded payments, receipts or audit rows is refused;
\* which accounts those are is left open (a failed audit insert is swallowed).
ReadForRemove(c) ==
    \E u \in Users :
        /\ Exists(u)
        /\ NotSelf(c, u)
        /\ AnotherOwner(u)
        /\ Handle(c, [op |-> "remove", user |-> u])

CommitRemove(c) ==
    LET u == request[c].user IN
    /\ Doing(c, "remove")
    /\ Exists(u)
    /\ status' = [status EXCEPT ![u] = "REMOVED"]
    /\ role' = [role EXCEPT ![u] = None]
    /\ assigned' = [assigned EXCEPT ![u] = {}]
    /\ Finish(c)
    /\ UNCHANGED <<cache, accepting>>

\* The request was refused, by the handler or a constraint, or was one that
\* changes nothing here.
Leave(c) ==
    /\ request[c] # None
    /\ Finish(c)
    /\ UNCHANGED <<rows, cache, accepting>>

-----------------------------------------------------------------------------
(* AuthService.resetPassword, for an invitation: the status is read, the   *)
(* new password hashed, and the account activated.                         *)

ReadForAccept(u) ==
    /\ status[u] = "INVITED"
    /\ accepting' = accepting \cup {u}
    /\ UNCHANGED <<rows, cache, request>>

CommitAccept(u) ==
    /\ u \in accepting
    /\ accepting' = accepting \ {u}
    /\ status' = [status EXCEPT ![u] = IF Exists(u) THEN "ACTIVE" ELSE @]
    /\ UNCHANGED <<role, assigned, cache, request>>

ClientStep(c) ==
    \/ CacheHit(c) \/ CacheMiss(c) \/ StoreAccess(c)
    \/ ReadForInvite(c) \/ CommitInvite(c)
    \/ ReadForRole(c) \/ CommitRole(c)
    \/ ReadForProperties(c) \/ DeleteAssigned(c) \/ CommitProperties(c)
    \/ ReadForActive(c) \/ CommitActive(c)
    \/ ReadForRemove(c) \/ CommitRemove(c)
    \/ Leave(c)

Next ==
    \/ \E c \in Clients : ClientStep(c)
    \/ \E u \in Users : Expire(u) \/ ReadForAccept(u) \/ CommitAccept(u)

Spec == Init /\ [][Next]_vars

\* Time passes: an entry of the cache is not served for ever.
Fairness == \A u \in Users : WF_vars(Expire(u))

FairSpec == Spec /\ Fairness

-----------------------------------------------------------------------------
(* Properties.                                                             *)

\* Rows, cache and requests have their types.
TypeOK ==
    /\ status \in [Users -> Status]
    /\ role \in [Users -> Role \cup {None}]
    /\ assigned \in [Users -> SUBSET Props]
    /\ cache \in [Users -> Role \cup {None}]
    /\ accepting \subseteq Users
    /\ request \in [Clients -> Request \cup {None}]

\* The organization can always be administered: it never loses its last
\* active owner to a demotion, a deactivation or a removal, even one asked by
\* somebody whose own demotion the cache has not heard of.
AnActiveOwner == ActiveOwners # {}

\* Assignments exist only where they restrict: whoever sees every property
\* has none left over that would restrict them again after a demotion.
UnscopedHaveNone == \A u \in Users : role[u] \notin Scoped => assigned[u] = {}

\* A role that stays as it is, is the one requests are admitted with from some
\* time on: the cache never holds on to a role that was taken away.
CacheCatchesUp ==
    \A u \in Users, r \in Role \cup {None} :
        <>[](role[u] = r) => <>[](cache[u] \in {None, r})

\* "What can this person do" has a single answer for as long as the account
\* exists, and no row outlives it.
RemovedIsGone ==
    \A u \in Users : /\ Exists(u) <=> role[u] # None
                     /\ ~Exists(u) => assigned[u] = {}

-----------------------------------------------------------------------------
(* The inductive invariants behind the safety properties.                  *)

\* Holds however many requests are handled at the same time.
AccessInv == TypeOK /\ RemovedIsGone

\* The requests that may take an active owner away.
Lessens(c) ==
    \/ Doing(c, "role") /\ request[c].role # "PROPERTY_OWNER"
    \/ Doing(c, "active") /\ ~request[c].active
    \/ Doing(c, "remove")

\* No two of them are under way; everything else comes as it likes.
OwnersApart == \A c, d \in Clients : Lessens(c) /\ Lessens(d) => c = d

\* What assertNotLastOwner counted still holds at the write.
OwnerCheckHolds(c) ==
    LET r == request[c] IN
    /\ Doing(c, "role") => r.role = "PROPERTY_OWNER" \/ role[r.user] # "PROPERTY_OWNER"
                           \/ AnotherOwner(r.user)
    /\ Doing(c, "active") => r.active \/ AnotherOwner(r.user)
    /\ Doing(c, "remove") => AnotherOwner(r.user)

OwnerInv ==
    /\ AccessInv
    /\ AnActiveOwner
    /\ \A c \in Clients : OwnerCheckHolds(c)

\* Nobody's role is changed while their properties are being replaced.
ScopesApart ==
    \A c, d \in Clients :
        Doing(c, "role") /\ (Doing(d, "assign") \/ Doing(d, "replace"))
            => request[c].user # request[d].user

\* Properties go to a role they restrict, or the account is gone by then.
ScopeCheckHolds(c) ==
    LET r == request[c] IN
    /\ Doing(c, "invite") => r.role \in Scoped \/ r.props = {}
    /\ Doing(c, "assign") \/ Doing(c, "replace")
         => role[r.user] \in Scoped \/ status[r.user] = "REMOVED"

ScopeInv ==
    /\ AccessInv
    /\ UnscopedHaveNone
    /\ \A c \in Clients : ScopeCheckHolds(c)
=============================================================================
