-------------------------- MODULE StaffAccessProofs --------------------------
(***************************************************************************)
(* What holds of StaffAccess for every number of accounts and properties.  *)
(***************************************************************************)
EXTENDS StaffAccess, TLAPS

-----------------------------------------------------------------------------
(* Requests.                                                               *)

\* Each kind of request carries the fields its next step uses.
LEMMA RequestFields ==
    ASSUME NEW r \in Request
    PROVE  /\ r.op = "lookup" => r.actor \in Users /\ r.role \in Role
           /\ r.op = "admitted" => r.actor \in Users
           /\ r.op = "invite" => /\ r.user \in Users /\ r.role \in Role
                                 /\ r.props \in SUBSET Props
           /\ r.op = "assign" => r.user \in Users /\ r.props \in SUBSET Props
           /\ r.op = "replace" => /\ r.user \in Users /\ r.props \in SUBSET Props
                                  /\ r.seen \in SUBSET Props
           /\ r.op = "role" => r.user \in Users /\ r.role \in Role
           /\ r.op = "active" => r.user \in Users /\ r.active \in BOOLEAN
           /\ r.op = "remove" => r.user \in Users
BY DEF Request

\* A guard or handler under way holds a request.
LEMMA InHand ==
    ASSUME TypeOK, NEW c \in Clients, NEW op, Doing(c, op)
    PROVE  request[c] \in Request /\ request[c].op = op
BY DEF TypeOK, Doing

\* An account that exists has a role.
LEMMA HasRole ==
    ASSUME AccessInv, NEW u \in Users, Exists(u)
    PROVE  role[u] \in Role
BY DEF AccessInv, TypeOK, RemovedIsGone

-----------------------------------------------------------------------------
(* The steps, by what they do.                                             *)

\* The guard and the reads: no row changes.
Reading(c) ==
    \/ CacheHit(c) \/ CacheMiss(c) \/ StoreAccess(c)
    \/ ReadForInvite(c) \/ ReadForRole(c) \/ ReadForProperties(c)
    \/ DeleteAssigned(c) \/ ReadForActive(c) \/ ReadForRemove(c)
    \/ Leave(c)

Writing(c) ==
    \/ CommitInvite(c) \/ CommitRole(c) \/ CommitProperties(c)
    \/ CommitActive(c) \/ CommitRemove(c)

\* What Admit leaves is a request or nothing.
LEMMA Admitted ==
    ASSUME TypeOK, NEW c \in Clients, NEW u \in Users, NEW r, Admit(c, u, r)
    PROVE  \E q \in Request \cup {None} :
              /\ Hold(c, q)
              /\ q # None => q = [op |-> "admitted", actor |-> u]
PROOF
<1>1. [op |-> "admitted", actor |-> u] \in Request
  BY DEF Request
<1> QED
  BY <1>1 DEF Admit, Finish

\* What a read puts in the client's hands, and that its checks hold.
Checked(q) ==
    /\ q.op = "invite" => q.role \in Scoped \/ q.props = {}
    /\ q.op \in {"assign", "replace"} => role[q.user] \in Scoped
    /\ q.op = "role" => q.role = "PROPERTY_OWNER" \/ role[q.user] # "PROPERTY_OWNER"
                        \/ AnotherOwner(q.user)
    /\ q.op = "active" => q.active \/ AnotherOwner(q.user)
    /\ q.op = "remove" => AnotherOwner(q.user)

\* The guard's own requests carry nothing to check.
LEMMA GuardChecked ==
    ASSUME NEW u, NEW r
    PROVE  /\ Checked([op |-> "lookup", actor |-> u, role |-> r])
           /\ Checked([op |-> "admitted", actor |-> u])
BY DEF Checked

\* Every step of the guard, and every read, changes no row.
LEMMA ReadingHolds ==
    ASSUME AccessInv, NEW c \in Clients, Reading(c)
    PROVE  /\ UNCHANGED <<rows, accepting>>
           /\ cache' \in [Users -> Role \cup {None}]
           /\ \E q \in Request \cup {None} :
                 /\ Hold(c, q)
                 /\ q # None =>
                       Checked(q) \/ (q.op = "replace" /\ Doing(c, "assign")
                                      /\ q.user = request[c].user)
PROOF
<1> USE StaffConstants
<1>0. TypeOK /\ cache \in [Users -> Role \cup {None}] /\ assigned \in [Users -> SUBSET Props]
  BY DEF AccessInv, TypeOK
<1>1. CASE CacheHit(c)
  <2>1. PICK u \in Users : Admit(c, u, cache[u]) /\ UNCHANGED <<rows, cache, accepting>>
    BY <1>1 DEF CacheHit
  <2>2. PICK q \in Request \cup {None} :
           /\ Hold(c, q)
           /\ q # None => q = [op |-> "admitted", actor |-> u]
    BY <1>0, <2>1, Admitted
  <2>3. q # None => Checked(q)
    BY <2>2, GuardChecked
  <2> QED
    BY <1>0, <2>1, <2>2, <2>3
<1>2. CASE CacheMiss(c)
  <2>1. PICK u \in Users : /\ status[u] = "ACTIVE"
                           /\ Hold(c, [op |-> "lookup", actor |-> u, role |-> role[u]])
                           /\ UNCHANGED <<rows, cache, accepting>>
    BY <1>2 DEF CacheMiss
  <2>2. role[u] \in Role
    BY <2>1, HasRole DEF Exists
  <2> DEFINE q == [op |-> "lookup", actor |-> u, role |-> role[u]]
  <2>3. q \in Request /\ Checked(q)
    BY <2>2, GuardChecked DEF Request
  <2>4. Hold(c, q) /\ UNCHANGED <<rows, cache, accepting>>
    BY <2>1
  <2> HIDE DEF q
  <2> QED
    BY <1>0, <2>3, <2>4
<1>3. CASE StoreAccess(c)
  <2>1. /\ request[c].actor \in Users
        /\ request[c].role \in Role
    BY <1>0, <1>3, InHand, RequestFields DEF StoreAccess
  <2>2. /\ cache' = [cache EXCEPT ![request[c].actor] = request[c].role]
        /\ Admit(c, request[c].actor, request[c].role)
        /\ UNCHANGED <<rows, accepting>>
    BY <1>3 DEF StoreAccess
  <2>3. cache' \in [Users -> Role \cup {None}]
    BY <1>0, <2>1, <2>2
  <2>4. PICK q \in Request \cup {None} :
           /\ Hold(c, q)
           /\ q # None => q = [op |-> "admitted", actor |-> request[c].actor]
    BY <1>0, <2>1, <2>2, Admitted
  <2>5. q # None => Checked(q)
    BY <2>4, GuardChecked
  <2> QED
    BY <2>2, <2>3, <2>4, <2>5
<1>4. CASE ReadForInvite(c)
  <2>1. PICK u \in Users, r \in Role, p \in SUBSET Props :
           /\ r \notin Scoped => p = {}
           /\ Handle(c, [op |-> "invite", user |-> u, role |-> r, props |-> p])
    BY <1>4 DEF ReadForInvite
  <2> DEFINE q == [op |-> "invite", user |-> u, role |-> r, props |-> p]
  <2>2. q \in Request /\ Checked(q)
    BY <2>1 DEF Request, Checked
  <2> QED
    BY <1>0, <2>1, <2>2 DEF Handle
<1>5. CASE ReadForRole(c)
  <2>1. PICK u \in Users, r \in Role :
           /\ role[u] = "PROPERTY_OWNER" /\ r # "PROPERTY_OWNER" => AnotherOwner(u)
           /\ Handle(c, [op |-> "role", user |-> u, role |-> r])
    BY <1>5 DEF ReadForRole
  <2> DEFINE q == [op |-> "role", user |-> u, role |-> r]
  <2>2. q \in Request /\ Checked(q)
    BY <2>1 DEF Request, Checked
  <2> QED
    BY <1>0, <2>1, <2>2 DEF Handle
<1>6. CASE ReadForProperties(c)
  <2>1. PICK u \in Users, p \in SUBSET Props :
           /\ role[u] \in Scoped
           /\ Handle(c, [op |-> "assign", user |-> u, props |-> p])
    BY <1>6 DEF ReadForProperties
  <2> DEFINE q == [op |-> "assign", user |-> u, props |-> p]
  <2>2. q \in Request /\ Checked(q)
    BY <2>1 DEF Request, Checked
  <2> QED
    BY <1>0, <2>1, <2>2 DEF Handle
<1>7. CASE DeleteAssigned(c)
  <2> DEFINE q == [op |-> "replace", user |-> request[c].user,
                   props |-> request[c].props, seen |-> assigned[request[c].user]]
  <2>1. Doing(c, "assign") /\ Hold(c, q) /\ UNCHANGED <<rows, cache, accepting>>
    BY <1>7 DEF DeleteAssigned
  <2>2. request[c].user \in Users /\ request[c].props \in SUBSET Props
    BY <1>0, <2>1, InHand, RequestFields
  <2>3. q \in Request /\ q.op = "replace" /\ q.user = request[c].user
    BY <1>0, <2>2 DEF Request
  <2> QED
    BY <1>0, <2>1, <2>3
<1>8. CASE ReadForActive(c)
  <2>1. PICK u \in Users, a \in BOOLEAN :
           /\ ~a => AnotherOwner(u)
           /\ Handle(c, [op |-> "active", user |-> u, active |-> a])
    BY <1>8 DEF ReadForActive
  <2> DEFINE q == [op |-> "active", user |-> u, active |-> a]
  <2>2. q \in Request /\ Checked(q)
    <3>1. q \in Request
      BY DEF Request
    <3>2. q.op = "active" /\ q.user = u /\ (q.active <=> a)
      BY Zenon
    <3>3. Checked(q)
      BY <2>1, <3>2 DEF Checked
    <3> QED
      BY <3>1, <3>3
  <2> QED
    BY <1>0, <2>1, <2>2 DEF Handle
<1>9. CASE ReadForRemove(c)
  <2>1. PICK u \in Users : AnotherOwner(u) /\ Handle(c, [op |-> "remove", user |-> u])
    BY <1>9 DEF ReadForRemove
  <2> DEFINE q == [op |-> "remove", user |-> u]
  <2>2. q \in Request /\ Checked(q)
    BY <2>1 DEF Request, Checked
  <2> QED
    BY <1>0, <2>1, <2>2 DEF Handle
<1>10. CASE Leave(c)
  BY <1>0, <1>10 DEF Leave, Finish
<1> QED
  BY <1>1, <1>2, <1>3, <1>4, <1>5, <1>6, <1>7, <1>8, <1>9, <1>10 DEF Reading

-----------------------------------------------------------------------------
(* Any number of requests.                                                 *)

\* The commits, by the row they write: it exists afterwards exactly if it has
\* a role, and an absent one has no assignment.
LEMMA WritingKeeps ==
    ASSUME AccessInv, NEW c \in Clients, Writing(c)
    PROVE  AccessInv'
PROOF
<1> USE StaffConstants
<1>0. /\ TypeOK /\ RemovedIsGone
      /\ status \in [Users -> Status]
      /\ role \in [Users -> Role \cup {None}]
      /\ assigned \in [Users -> SUBSET Props]
      /\ request \in [Clients -> Request \cup {None}]
  BY DEF AccessInv, TypeOK
<1> DEFINE u == request[c].user
<1>1. /\ UNCHANGED <<cache, accepting>>
      /\ request' \in [Clients -> Request \cup {None}]
  <2>1. Finish(c) /\ UNCHANGED <<cache, accepting>>
    BY DEF Writing, CommitInvite, CommitRole, CommitProperties, CommitActive, CommitRemove
  <2> QED
    BY <1>0, <2>1 DEF Finish, Hold
<1>2. CASE CommitInvite(c)
  <2>1. u \in Users /\ request[c].role \in Role /\ request[c].props \in SUBSET Props
    BY <1>0, <1>2, InHand, RequestFields DEF CommitInvite
  <2>2. /\ status' = [status EXCEPT ![u] = "INVITED"]
        /\ role' = [role EXCEPT ![u] = request[c].role]
        /\ assigned' = [assigned EXCEPT ![u] = request[c].props]
    BY <1>2 DEF CommitInvite, InsertedProps
  <2>3. TypeOK'
    BY <1>0, <1>1, <2>1, <2>2 DEF TypeOK, Status
  <2>4. RemovedIsGone'
    BY <1>0, <2>1, <2>2 DEF RemovedIsGone, Exists
  <2> QED
    BY <2>3, <2>4 DEF AccessInv
<1>3. CASE CommitRole(c)
  <2>1. u \in Users /\ request[c].role \in Role /\ Exists(u)
    BY <1>0, <1>3, InHand, RequestFields DEF CommitRole
  <2>2. /\ UNCHANGED status
        /\ role' = [role EXCEPT ![u] = request[c].role]
        /\ assigned' = [assigned EXCEPT ![u] = AssignedUnder(u, request[c].role)]
    BY <1>3 DEF CommitRole
  <2>3. AssignedUnder(u, request[c].role) \in SUBSET Props
    BY <1>0, <2>1 DEF AssignedUnder
  <2>4. TypeOK'
    BY <1>0, <1>1, <2>1, <2>2, <2>3 DEF TypeOK
  <2>5. RemovedIsGone'
    BY <1>0, <2>1, <2>2 DEF RemovedIsGone, Exists
  <2> QED
    BY <2>4, <2>5 DEF AccessInv
<1>4. CASE CommitProperties(c)
  <2> DEFINE kept == assigned[u] \ request[c].seen
  <2>1. u \in Users /\ request[c].props \in SUBSET Props
    BY <1>0, <1>4, InHand, RequestFields DEF CommitProperties
  <2>2. /\ UNCHANGED <<status, role>>
        /\ request[c].props # {} => Exists(u)
        /\ assigned' = [assigned EXCEPT ![u] = kept \cup request[c].props]
    BY <1>4 DEF CommitProperties
  <2>3. kept \cup request[c].props \in SUBSET Props
    BY <1>0, <2>1
  <2>4. TypeOK'
    BY <1>0, <1>1, <2>1, <2>2, <2>3 DEF TypeOK
  <2>5. ~Exists(u) => kept \cup request[c].props = {}
    BY <1>0, <2>1, <2>2 DEF RemovedIsGone
  <2>6. RemovedIsGone'
    BY <1>0, <2>1, <2>2, <2>5 DEF RemovedIsGone, Exists
  <2> QED
    BY <2>4, <2>6 DEF AccessInv
<1>5. CASE CommitActive(c)
  <2>1. u \in Users /\ Exists(u)
    BY <1>0, <1>5, InHand, RequestFields DEF CommitActive
  <2>2. PICK s \in {"ACTIVE", "INACTIVE"} : status' = [status EXCEPT ![u] = s]
    BY <1>5 DEF CommitActive
  <2>3. UNCHANGED <<role, assigned>>
    BY <1>5 DEF CommitActive
  <2>4. TypeOK'
    BY <1>0, <1>1, <2>1, <2>2, <2>3 DEF TypeOK, Status
  <2>5. RemovedIsGone'
    BY <1>0, <2>1, <2>2, <2>3 DEF RemovedIsGone, Exists
  <2> QED
    BY <2>4, <2>5 DEF AccessInv
<1>6. CASE CommitRemove(c)
  <2>1. u \in Users
    BY <1>0, <1>6, InHand, RequestFields DEF CommitRemove
  <2>2. /\ status' = [status EXCEPT ![u] = "REMOVED"]
        /\ role' = [role EXCEPT ![u] = None]
        /\ assigned' = [assigned EXCEPT ![u] = {}]
    BY <1>6 DEF CommitRemove
  <2>3. TypeOK'
    BY <1>0, <1>1, <2>1, <2>2 DEF TypeOK, Status
  <2>4. RemovedIsGone'
    BY <1>0, <2>1, <2>2 DEF RemovedIsGone, Exists
  <2> QED
    BY <2>3, <2>4 DEF AccessInv
<1> QED
  BY <1>2, <1>3, <1>4, <1>5, <1>6 DEF Writing

\* An invitation accepted makes an account ACTIVE if it is still there.
LEMMA AcceptEffect ==
    ASSUME AccessInv, NEW u \in Users, CommitAccept(u)
    PROVE  /\ UNCHANGED <<role, assigned, cache, request>>
           /\ accepting' \subseteq accepting
           /\ \A v \in Users : status'[v] \in {status[v], "ACTIVE"}
           /\ \A v \in Users : ~Exists(v) => status'[v] = status[v]
           /\ status' \in [Users -> Status]
PROOF
<1>1. status \in [Users -> Status]
  BY DEF AccessInv, TypeOK
<1>2. CASE Exists(u)
  BY <1>1, <1>2 DEF CommitAccept, Status
<1>3. CASE ~Exists(u)
  BY <1>1, <1>3 DEF CommitAccept
<1> QED
  BY <1>2, <1>3

\* No account, no role but the founder's.
LEMMA AccessInit == Init => AccessInv
BY StaffConstants
DEF Init, AccessInv, TypeOK, RemovedIsGone, Exists, Status, Role

\* Every step keeps types, roles and accounts together.
LEMMA AccessNext == AccessInv /\ [Next]_vars => AccessInv'
PROOF
<1> SUFFICES ASSUME AccessInv, [Next]_vars PROVE AccessInv'
  OBVIOUS
<1>0. TypeOK /\ RemovedIsGone
  BY DEF AccessInv
<1>1. ASSUME NEW c \in Clients, Reading(c) PROVE AccessInv'
  <2>1. /\ UNCHANGED <<rows, accepting>>
        /\ cache' \in [Users -> Role \cup {None}]
        /\ \E q \in Request \cup {None} : Hold(c, q)
    BY <1>1, ReadingHolds
  <2>2. TypeOK'
    BY <1>0, <2>1 DEF TypeOK, Hold, rows
  <2>3. RemovedIsGone'
    BY <1>0, <2>1 DEF RemovedIsGone, Exists, rows
  <2> QED
    BY <2>2, <2>3 DEF AccessInv
<1>2. ASSUME NEW c \in Clients, Writing(c) PROVE AccessInv'
  BY <1>2, WritingKeeps
<1>3. ASSUME NEW u \in Users, Expire(u) PROVE AccessInv'
  BY <1>0, <1>3 DEF Expire, AccessInv, TypeOK, RemovedIsGone, Exists, rows
<1>4. ASSUME NEW u \in Users, ReadForAccept(u) PROVE AccessInv'
  BY <1>0, <1>4 DEF ReadForAccept, AccessInv, TypeOK, RemovedIsGone, Exists, rows
<1>5. ASSUME NEW u \in Users, CommitAccept(u) PROVE AccessInv'
  <2>1. TypeOK'
    BY <1>0, <1>5, AcceptEffect DEF TypeOK
  <2>2. RemovedIsGone'
    BY <1>0, <1>5, AcceptEffect DEF RemovedIsGone, Exists
  <2> QED
    BY <2>1, <2>2 DEF AccessInv
<1>6. CASE UNCHANGED vars
  BY <1>0, <1>6 DEF vars, rows, AccessInv, TypeOK, RemovedIsGone, Exists
<1> QED
  BY <1>1, <1>2, <1>3, <1>4, <1>5, <1>6 DEF Next, ClientStep, Reading, Writing

\* Whatever requests overtake one another, every account that exists has its
\* one role, and nothing is left of one that does not.
THEOREM AccessSafe == Spec => []AccessInv
PROOF
<1>1. Init => AccessInv
  BY AccessInit
<1>2. AccessInv /\ [Next]_vars => AccessInv'
  BY AccessNext
<1> QED
  BY <1>1, <1>2, PTL DEF Spec

-----------------------------------------------------------------------------
(* The last owner, while no two requests that lessen are under way.        *)

\* While another active owner keeps status and role, there is one.
LEMMA OwnerRemains ==
    ASSUME NEW u \in Users, AnotherOwner(u),
           \A o \in Users \ {u} : status'[o] = status[o] /\ role'[o] = role[o]
    PROVE  AnActiveOwner'
BY DEF AnotherOwner, AnActiveOwner, ActiveOwners

\* A step that leaves every active owner in place leaves the checks true: where
\* it made an owner of the very user, the one there was before is another.
LEMMA GrowingKeepsChecks ==
    ASSUME AccessInv, AnActiveOwner, ActiveOwners \subseteq ActiveOwners',
           NEW d \in Clients, OwnerCheckHolds(d), request'[d] = request[d]
    PROVE  OwnerCheckHolds(d)'
PROOF
<1>1. \A u \in Users : AnotherOwner(u) => AnotherOwner(u)'
  BY DEF AnotherOwner
<1>2. \A u \in Users : role[u] # "PROPERTY_OWNER" => AnotherOwner(u)
  BY DEF AnActiveOwner, AnotherOwner, ActiveOwners
<1>3. request[d] # None => request[d] \in Request
  BY DEF AccessInv, TypeOK
<1> QED
  BY <1>1, <1>2, <1>3, RequestFields DEF OwnerCheckHolds, Doing

\* A write that does not lessen leaves every active owner, and one that does
\* leaves the owner its check has counted.
LEMMA WritingOwners ==
    ASSUME AccessInv, AnActiveOwner,
           NEW c \in Clients, OwnerCheckHolds(c), Writing(c)
    PROVE  /\ AnActiveOwner'
           /\ ~Lessens(c) => ActiveOwners \subseteq ActiveOwners'
PROOF
<1> USE StaffConstants
<1> DEFINE u == request[c].user
<1>0. /\ TypeOK /\ RemovedIsGone
      /\ status \in [Users -> Status]
      /\ role \in [Users -> Role \cup {None}]
  BY DEF AccessInv, TypeOK
<1>1. ActiveOwners \subseteq ActiveOwners' => AnActiveOwner'
  BY DEF AnActiveOwner
<1>2. CASE CommitInvite(c)
  <2>1. u \in Users /\ request[c].role \in Role
    BY <1>0, <1>2, InHand, RequestFields DEF CommitInvite
  <2>2. /\ status[u] = "ABSENT"
        /\ status' = [status EXCEPT ![u] = "INVITED"]
        /\ role' = [role EXCEPT ![u] = request[c].role]
    BY <1>2 DEF CommitInvite
  <2> QED
    BY <1>0, <1>1, <2>1, <2>2 DEF ActiveOwners
<1>3. CASE CommitRole(c)
  <2>1. u \in Users /\ request[c].role \in Role
    BY <1>0, <1>3, InHand, RequestFields DEF CommitRole
  <2>2. /\ UNCHANGED status
        /\ role' = [role EXCEPT ![u] = request[c].role]
        /\ \/ request[c].role = "PROPERTY_OWNER"
           \/ role[u] # "PROPERTY_OWNER"
           \/ AnotherOwner(u)
    BY <1>3 DEF CommitRole, OwnerCheckHolds
  <2>3. CASE role[u] # "PROPERTY_OWNER" \/ request[c].role = "PROPERTY_OWNER"
    BY <1>0, <1>1, <2>1, <2>2, <2>3 DEF ActiveOwners
  <2>4. CASE AnotherOwner(u) /\ request[c].role # "PROPERTY_OWNER"
    <3>1. AnActiveOwner'
      BY <1>0, <2>1, <2>2, <2>4, OwnerRemains
    <3>2. Lessens(c)
      BY <1>3, <2>4 DEF CommitRole, Lessens
    <3> QED
      BY <3>1, <3>2
  <2> QED
    BY <2>2, <2>3, <2>4
<1>4. CASE CommitProperties(c)
  <2>1. UNCHANGED <<status, role>>
    BY <1>4 DEF CommitProperties
  <2> QED
    BY <1>1, <2>1 DEF ActiveOwners
<1>5. CASE CommitActive(c)
  <2>1. u \in Users
    BY <1>0, <1>5, InHand, RequestFields DEF CommitActive
  <2>2. /\ UNCHANGED role
        /\ status' = [status EXCEPT ![u] = IF request[c].active THEN "ACTIVE"
                                                               ELSE "INACTIVE"]
        /\ request[c].active \/ AnotherOwner(u)
    BY <1>5 DEF CommitActive, OwnerCheckHolds
  <2>3. CASE request[c].active
    <3>1. status' = [status EXCEPT ![u] = "ACTIVE"]
      BY <2>2, <2>3
    <3> QED
      BY <1>0, <1>1, <2>1, <2>2, <3>1 DEF ActiveOwners
  <2>4. CASE ~request[c].active
    <3>1. AnActiveOwner'
      BY <1>0, <2>1, <2>2, <2>4, OwnerRemains
    <3>2. Lessens(c)
      BY <1>5, <2>4 DEF CommitActive, Lessens
    <3> QED
      BY <3>1, <3>2
  <2> QED
    BY <2>3, <2>4
<1>6. CASE CommitRemove(c)
  <2>1. u \in Users
    BY <1>0, <1>6, InHand, RequestFields DEF CommitRemove
  <2>2. /\ status' = [status EXCEPT ![u] = "REMOVED"]
        /\ role' = [role EXCEPT ![u] = None]
        /\ AnotherOwner(u)
    BY <1>6 DEF CommitRemove, OwnerCheckHolds
  <2>3. AnActiveOwner'
    BY <1>0, <2>1, <2>2, OwnerRemains
  <2>4. Lessens(c)
    BY <1>6 DEF CommitRemove, Lessens
  <2> QED
    BY <2>3, <2>4
<1> QED
  BY <1>2, <1>3, <1>4, <1>5, <1>6 DEF Writing

\* Only the client whose step it is changes its request; a write ends it.
LEMMA WritingFinishes ==
    ASSUME AccessInv, NEW c \in Clients, Writing(c)
    PROVE  /\ request'[c] = None
           /\ \A d \in Clients \ {c} : request'[d] = request[d]
PROOF
<1>1. Finish(c)
  BY DEF Writing, CommitInvite, CommitRole, CommitProperties, CommitActive, CommitRemove
<1> QED
  BY <1>1 DEF Finish, Hold, AccessInv, TypeOK

\* Every step, at most one request that lessens under way.
LEMMA OwnerNext == OwnersApart /\ OwnerInv /\ [Next]_vars => OwnerInv'
PROOF
<1> SUFFICES ASSUME OwnersApart, OwnerInv, [Next]_vars PROVE OwnerInv'
  OBVIOUS
<1>0. /\ AccessInv /\ AnActiveOwner /\ (\A c \in Clients : OwnerCheckHolds(c))
      /\ request \in [Clients -> Request \cup {None}]
  BY DEF OwnerInv, AccessInv, TypeOK
<1>1. AccessInv'
  BY <1>0, AccessNext
<1>2. ASSUME NEW c \in Clients, Reading(c) PROVE OwnerInv'
  <2>1. UNCHANGED <<status, role>>
    BY <1>0, <1>2, ReadingHolds DEF rows
  <2>2. PICK q \in Request \cup {None} :
           /\ Hold(c, q)
           /\ q # None => Checked(q) \/ q.op = "replace"
    BY <1>0, <1>2, ReadingHolds
  <2>3. /\ request'[c] = q
        /\ \A d \in Clients \ {c} : request'[d] = request[d]
    BY <1>0, <2>2 DEF Hold
  <2>4. /\ ActiveOwners' = ActiveOwners
        /\ \A u \in Users : AnotherOwner(u)' <=> AnotherOwner(u)
    BY <2>1 DEF ActiveOwners, AnotherOwner
  <2>5. OwnerCheckHolds(c)'
    <3>1. CASE q = None
      BY <2>3, <3>1 DEF OwnerCheckHolds, Doing
    <3>2. CASE q # None /\ q.op = "replace"
      BY <2>3, <3>2 DEF OwnerCheckHolds, Doing
    <3>3. CASE q # None /\ Checked(q)
      BY <2>1, <2>2, <2>3, <2>4, <3>3, RequestFields DEF OwnerCheckHolds, Doing, Checked
    <3> QED
      BY <2>2, <3>1, <3>2, <3>3
  <2>6. \A d \in Clients \ {c} : OwnerCheckHolds(d)'
    BY <1>0, <2>3, <2>4, GrowingKeepsChecks
  <2>7. AnActiveOwner'
    BY <1>0, <2>4 DEF AnActiveOwner
  <2> QED
    BY <1>1, <2>5, <2>6, <2>7 DEF OwnerInv
<1>3. ASSUME NEW c \in Clients, Writing(c) PROVE OwnerInv'
  <2>1. /\ AnActiveOwner'
        /\ ~Lessens(c) => ActiveOwners \subseteq ActiveOwners'
    BY <1>0, <1>3, WritingOwners
  <2>2. /\ request'[c] = None
        /\ \A d \in Clients \ {c} : request'[d] = request[d]
    BY <1>0, <1>3, WritingFinishes
  <2>3. OwnerCheckHolds(c)'
    BY <2>2 DEF OwnerCheckHolds, Doing
  <2>4. ASSUME NEW d \in Clients \ {c} PROVE OwnerCheckHolds(d)'
    <3>1. CASE ~Lessens(c)
      BY <1>0, <2>1, <2>2, <3>1, GrowingKeepsChecks
    <3>2. CASE Lessens(c)
      <4>1. ~Lessens(d)
        BY <3>2 DEF OwnersApart
      <4>2. ~Lessens(d)'
        BY <2>2, <4>1 DEF Lessens, Doing
      <4> QED
        BY <4>2 DEF Lessens, OwnerCheckHolds
    <3> QED
      BY <3>1, <3>2
  <2> QED
    BY <1>1, <2>1, <2>3, <2>4 DEF OwnerInv
<1>4. ASSUME NEW u \in Users, Expire(u) \/ ReadForAccept(u) \/ CommitAccept(u)
      PROVE  OwnerInv'
  <2>1. UNCHANGED <<role, request>> /\ \A v \in Users : status'[v] \in {status[v], "ACTIVE"}
    <3>1. CASE CommitAccept(u)
      BY <1>0, <3>1, AcceptEffect
    <3>2. CASE Expire(u) \/ ReadForAccept(u)
      BY <3>2 DEF Expire, ReadForAccept, rows
    <3> QED
      BY <1>4, <3>1, <3>2
  <2>2. ActiveOwners \subseteq ActiveOwners'
    BY <2>1 DEF ActiveOwners
  <2>3. AnActiveOwner'
    BY <1>0, <2>2 DEF AnActiveOwner
  <2>4. \A d \in Clients : OwnerCheckHolds(d)'
    BY <1>0, <2>1, <2>2, GrowingKeepsChecks
  <2> QED
    BY <1>1, <2>3, <2>4 DEF OwnerInv
<1>5. CASE UNCHANGED vars
  BY <1>0, <1>1, <1>5
     DEF vars, rows, OwnerInv, AnActiveOwner, OwnerCheckHolds, Doing, AnotherOwner, ActiveOwners
<1> QED
  BY <1>2, <1>3, <1>4, <1>5 DEF Next, ClientStep, Reading, Writing

\* What assertNotLastOwner counted still holds when its handler writes, as long
\* as no second demotion, deactivation or removal is under way beside it:
\* promotions, invitations and everything else may overtake it.
THEOREM OwnersKept == Spec /\ []OwnersApart => []OwnerInv
PROOF
<1>1. Init => OwnerInv
  <2>1. Init => AnActiveOwner /\ \A c \in Clients : OwnerCheckHolds(c)
    BY StaffConstants DEF Init, AnActiveOwner, ActiveOwners, OwnerCheckHolds, Doing
  <2> QED
    BY <2>1, AccessInit DEF OwnerInv
<1>2. OwnersApart /\ OwnerInv /\ [Next]_vars => OwnerInv'
  BY OwnerNext
<1> QED
  BY <1>1, <1>2, PTL DEF Spec

\* Then the organization never loses its last active owner, however stale the
\* cached roles of the actors are.
THEOREM AdminKeepsOwner == Spec /\ []OwnersApart => []AnActiveOwner
PROOF
<1>1. OwnerInv => AnActiveOwner
  BY DEF OwnerInv
<1> QED
  BY <1>1, OwnersKept, PTL

-----------------------------------------------------------------------------
(* Assignments, while no role changes under a replacement of properties.   *)

\* A write leaves the checks of the others true: an invitation and a removal
\* reach nobody who is being assigned to, and a removed account stays removed.
LEMMA WritingKeepsScope ==
    ASSUME AccessInv, ScopesApart,
           NEW c \in Clients, Writing(c),
           NEW d \in Clients \ {c}, ScopeCheckHolds(d), request'[d] = request[d]
    PROVE  ScopeCheckHolds(d)'
PROOF
<1> USE StaffConstants
<1> DEFINE v == request[c].user
           u == request[d].user
<1>0. /\ TypeOK /\ RemovedIsGone
      /\ status \in [Users -> Status]
      /\ role \in [Users -> Role \cup {None}]
  BY DEF AccessInv, TypeOK
<1> SUFFICES ASSUME Doing(d, "assign") \/ Doing(d, "replace")
             PROVE  role'[u] \in Scoped \/ status'[u] = "REMOVED"
  BY DEF ScopeCheckHolds, Doing
<1>1. u \in Users
  BY <1>0, InHand, RequestFields
<1>2. role[u] \in Scoped \/ status[u] = "REMOVED"
  BY DEF ScopeCheckHolds
<1>3. role[u] \in Scoped => Exists(u)
  BY <1>0, <1>1 DEF RemovedIsGone, Scoped, Role
<1>4. CASE CommitInvite(c)
  <2>1. u # v
    BY <1>2, <1>3, <1>4 DEF CommitInvite, Exists
  <2> QED
    BY <1>0, <1>1, <1>2, <1>4, <2>1 DEF CommitInvite
<1>5. CASE CommitRole(c)
  <2>1. u # v
    BY <1>5 DEF CommitRole, ScopesApart
  <2> QED
    BY <1>0, <1>1, <1>2, <1>5, <2>1 DEF CommitRole
<1>6. CASE CommitProperties(c)
  BY <1>2, <1>6 DEF CommitProperties
<1>7. CASE CommitActive(c)
  <2>1. UNCHANGED role
    BY <1>7 DEF CommitActive
  <2>2. status[u] = "REMOVED" => status'[u] = "REMOVED"
    BY <1>0, <1>1, <1>7 DEF CommitActive, Exists
  <2> QED
    BY <1>2, <2>1, <2>2
<1>8. CASE CommitRemove(c)
  BY <1>0, <1>1, <1>2, <1>8 DEF CommitRemove
<1> QED
  BY <1>4, <1>5, <1>6, <1>7, <1>8 DEF Writing

\* Each write keeps unscoped roles free of assignments.
LEMMA WritingScopes ==
    ASSUME AccessInv, UnscopedHaveNone,
           NEW c \in Clients, ScopeCheckHolds(c), Writing(c)
    PROVE  UnscopedHaveNone'
PROOF
<1> USE StaffConstants
<1> DEFINE u == request[c].user
<1>0. /\ TypeOK /\ RemovedIsGone
      /\ role \in [Users -> Role \cup {None}]
      /\ assigned \in [Users -> SUBSET Props]
  BY DEF AccessInv, TypeOK
<1>1. CASE CommitInvite(c)
  <2>1. u \in Users
    BY <1>0, <1>1, InHand, RequestFields DEF CommitInvite
  <2>2. /\ role' = [role EXCEPT ![u] = request[c].role]
        /\ assigned' = [assigned EXCEPT ![u] = request[c].props]
        /\ request[c].role \in Scoped \/ request[c].props = {}
    BY <1>1 DEF CommitInvite, InsertedProps, ScopeCheckHolds
  <2> QED
    BY <1>0, <2>1, <2>2 DEF UnscopedHaveNone
<1>2. CASE CommitRole(c)
  <2>1. u \in Users
    BY <1>0, <1>2, InHand, RequestFields DEF CommitRole
  <2>2. /\ role' = [role EXCEPT ![u] = request[c].role]
        /\ assigned' = [assigned EXCEPT ![u] = AssignedUnder(u, request[c].role)]
    BY <1>2 DEF CommitRole
  <2> QED
    BY <1>0, <2>1, <2>2 DEF UnscopedHaveNone, AssignedUnder
<1>3. CASE CommitProperties(c)
  <2> DEFINE kept == assigned[u] \ request[c].seen
  <2>1. u \in Users
    BY <1>0, <1>3, InHand, RequestFields DEF CommitProperties
  <2>2. /\ UNCHANGED role
        /\ request[c].props # {} => Exists(u)
        /\ assigned' = [assigned EXCEPT ![u] = kept \cup request[c].props]
        /\ role[u] \in Scoped \/ status[u] = "REMOVED"
    BY <1>3 DEF CommitProperties, ScopeCheckHolds
  <2>3. status[u] = "REMOVED" => kept \cup request[c].props = {}
    BY <1>0, <2>1, <2>2 DEF RemovedIsGone, Exists
  <2> QED
    BY <1>0, <2>1, <2>2, <2>3 DEF UnscopedHaveNone
<1>4. CASE CommitActive(c)
  BY <1>4 DEF CommitActive, UnscopedHaveNone
<1>5. CASE CommitRemove(c)
  <2>1. u \in Users
    BY <1>0, <1>5, InHand, RequestFields DEF CommitRemove
  <2> QED
    BY <1>0, <1>5, <2>1 DEF CommitRemove, UnscopedHaveNone
<1> QED
  BY <1>1, <1>2, <1>3, <1>4, <1>5 DEF Writing

\* Every step, no role changing under a replacement of properties.
LEMMA ScopeNext == ScopesApart /\ ScopeInv /\ [Next]_vars => ScopeInv'
PROOF
<1> SUFFICES ASSUME ScopesApart, ScopeInv, [Next]_vars PROVE ScopeInv'
  OBVIOUS
<1>0. /\ AccessInv /\ UnscopedHaveNone /\ (\A c \in Clients : ScopeCheckHolds(c))
      /\ request \in [Clients -> Request \cup {None}]
  BY DEF ScopeInv, AccessInv, TypeOK
<1>1. AccessInv'
  BY <1>0, AccessNext
<1>2. ASSUME NEW c \in Clients, Reading(c) PROVE ScopeInv'
  <2>1. UNCHANGED <<status, role, assigned>>
    BY <1>0, <1>2, ReadingHolds DEF rows
  <2>2. PICK q \in Request \cup {None} :
           /\ Hold(c, q)
           /\ q # None =>
                 Checked(q) \/ (q.op = "replace" /\ Doing(c, "assign")
                                /\ q.user = request[c].user)
    BY <1>0, <1>2, ReadingHolds
  <2>3. /\ request'[c] = q
        /\ \A d \in Clients \ {c} : request'[d] = request[d]
    BY <1>0, <2>2 DEF Hold
  <2>4. ScopeCheckHolds(c)'
    <3>1. CASE q = None
      BY <2>3, <3>1 DEF ScopeCheckHolds, Doing
    <3>2. CASE q # None /\ q.op = "replace" /\ Doing(c, "assign") /\ q.user = request[c].user
      BY <1>0, <2>1, <2>3, <3>2 DEF ScopeCheckHolds, Doing
    <3>3. CASE q # None /\ Checked(q)
      BY <2>1, <2>3, <3>3 DEF ScopeCheckHolds, Doing, Checked
    <3> QED
      BY <2>2, <3>1, <3>2, <3>3
  <2>5. \A d \in Clients \ {c} : ScopeCheckHolds(d)'
    BY <1>0, <2>1, <2>3 DEF ScopeCheckHolds, Doing
  <2>6. UnscopedHaveNone'
    BY <1>0, <2>1 DEF UnscopedHaveNone
  <2> QED
    BY <1>1, <2>4, <2>5, <2>6 DEF ScopeInv
<1>3. ASSUME NEW c \in Clients, Writing(c) PROVE ScopeInv'
  <2>1. /\ request'[c] = None
        /\ \A d \in Clients \ {c} : request'[d] = request[d]
    BY <1>0, <1>3, WritingFinishes
  <2>2. ScopeCheckHolds(c)'
    BY <2>1 DEF ScopeCheckHolds, Doing
  <2>3. \A d \in Clients \ {c} : ScopeCheckHolds(d)'
    BY <1>0, <1>3, <2>1, WritingKeepsScope
  <2>4. UnscopedHaveNone'
    BY <1>0, <1>3, WritingScopes
  <2> QED
    BY <1>1, <2>2, <2>3, <2>4 DEF ScopeInv
<1>4. ASSUME NEW u \in Users, Expire(u) \/ ReadForAccept(u) \/ CommitAccept(u)
      PROVE  ScopeInv'
  <2>1. /\ UNCHANGED <<role, assigned, request>>
        /\ \A v \in Users : ~Exists(v) => status'[v] = status[v]
    <3>1. CASE CommitAccept(u)
      BY <1>0, <3>1, AcceptEffect
    <3>2. CASE Expire(u) \/ ReadForAccept(u)
      BY <3>2 DEF Expire, ReadForAccept, rows
    <3> QED
      BY <1>4, <3>1, <3>2
  <2>2. UnscopedHaveNone'
    BY <1>0, <2>1 DEF UnscopedHaveNone
  <2>3. ASSUME NEW d \in Clients PROVE ScopeCheckHolds(d)'
    <3>1. ScopeCheckHolds(d)
      BY <1>0
    <3>2. request[d] # None => request[d] \in Request
      BY <1>0
    <3> QED
      BY <2>1, <3>1, <3>2, RequestFields DEF ScopeCheckHolds, Doing, Exists
  <2> QED
    BY <1>1, <2>2, <2>3 DEF ScopeInv
<1>5. CASE UNCHANGED vars
  BY <1>0, <1>1, <1>5 DEF vars, rows, ScopeInv, UnscopedHaveNone, ScopeCheckHolds, Doing
<1> QED
  BY <1>2, <1>3, <1>4, <1>5 DEF Next, ClientStep, Reading, Writing

\* Whoever's properties are being replaced is restricted by them, or gone, up
\* to the write, as long as nobody changes their role meanwhile.
THEOREM ScopesKept == Spec /\ []ScopesApart => []ScopeInv
PROOF
<1>1. Init => ScopeInv
  <2>1. Init => UnscopedHaveNone /\ \A c \in Clients : ScopeCheckHolds(c)
    BY StaffConstants DEF Init, UnscopedHaveNone, ScopeCheckHolds, Doing
  <2> QED
    BY <2>1, AccessInit DEF ScopeInv
<1>2. ScopesApart /\ ScopeInv /\ [Next]_vars => ScopeInv'
  BY ScopeNext
<1> QED
  BY <1>1, <1>2, PTL DEF Spec

\* Then nobody who sees every property keeps an assignment: whoever is promoted
\* out of a scoped role loses theirs in the same write, and neither an
\* invitation nor an assignment that was checked before can add one after.
THEOREM PromotionClearsAssignments == Spec /\ []ScopesApart => []UnscopedHaveNone
PROOF
<1>1. ScopeInv => UnscopedHaveNone
  BY DEF ScopeInv
<1> QED
  BY <1>1, ScopesKept, PTL
=============================================================================
