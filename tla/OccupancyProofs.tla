--------------------------- MODULE OccupancyProofs ---------------------------
(***************************************************************************)
(* What holds of Occupancy, of its LettingBook and of the OccupancyFigures *)
(* over it, for every number of clients, units, leases and days.           *)
(***************************************************************************)
EXTENDS OccupancyFigures, FiniteSums

-----------------------------------------------------------------------------
(* Requests.                                                               *)

\* Each kind of request carries the fields its handler writes.
LEMMA RequestFields ==
    ASSUME NEW r \in Request
    PROVE  /\ r.op = "create" => r.unit \in Units /\ r.end \in EndDates \cup {None}
           /\ r.op \in {"update", "renew"} => r.lease \in Leases /\ r.end \in EndDates
           /\ r.op = "terminate" => /\ r.lease \in Leases
                                    /\ r.status \in {"VACANT", "MAINTENANCE"}
           /\ r.op = "setStatus" => r.unit \in Units /\ r.status \in Manual
           /\ r.op = "remove" => r.unit \in Units
BY DEF Request

\* A signed lease is a row, and the absent lease is not one.
LEMMA SignedRow ==
    ASSUME TypeOK, NEW l \in Signed
    PROVE  /\ l \in Leases
           /\ lease[l] \in LeaseRow
           /\ lease[l].unit \in Units
           /\ lease[l].end \in EndDates \cup {None}
           /\ lease[l].status \in LeaseStatus
BY DEF TypeOK, Signed, LeaseRow

\* A request in hand is one of the five kinds.
LEMMA RequestInHand ==
    ASSUME TypeOK, NEW c \in Clients, request[c] # None
    PROVE  request[c] \in Request
BY DEF TypeOK

\* Asking and finishing keep the requests' type.
LEMMA AskTyped ==
    ASSUME TypeOK, NEW c \in Clients, NEW r \in Request \cup {None},
           request' = [request EXCEPT ![c] = r]
    PROVE  request' \in [Clients -> Request \cup {None}]
BY DEF TypeOK

-----------------------------------------------------------------------------
(* The steps, by what they do to leases and units.                         *)

\* The steps that write neither a lease nor a unit.
Reading(c) ==
    \/ ReadForCreate(c) \/ ReadForUpdate(c) \/ ReadForRenew(c)
    \/ ReadForTerminate(c) \/ ReadForStatus(c) \/ ReadForRemove(c) \/ Abort(c)

\* A read puts a request in the client's hands whose lease is signed.
LEMMA ReadingKeeps ==
    ASSUME OccupancyInv, NEW c \in Clients, Reading(c)
    PROVE  /\ UNCHANGED <<today, unit, lease, job, jobDay>>
           /\ \E r \in Request \cup {None} :
                 /\ request' = [request EXCEPT ![c] = r]
                 /\ r # None /\ r.op \in {"update", "renew", "terminate"}
                       => r.lease \in Signed
PROOF
<1>1. CASE ReadForCreate(c)
  BY <1>1 DEF ReadForCreate, Ask, Request
<1>2. CASE ReadForUpdate(c)
  BY <1>2 DEF ReadForUpdate, Ask, Request, Signed
<1>3. CASE ReadForRenew(c)
  BY <1>3 DEF ReadForRenew, Ask, Request, Signed
<1>4. CASE ReadForTerminate(c)
  BY <1>4 DEF ReadForTerminate, Ask, Request, Signed
<1>5. CASE ReadForStatus(c)
  BY <1>5 DEF ReadForStatus, Ask, Request
<1>6. CASE ReadForRemove(c)
  BY <1>6 DEF ReadForRemove, Ask, Request
<1>7. CASE Abort(c)
  BY <1>7 DEF Abort, Finish
<1> QED
  BY <1>1, <1>2, <1>3, <1>4, <1>5, <1>6, <1>7 DEF Reading

\* A status the nightly job or a request writes leaves every row a row, on the
\* same unit, and signs no lease.
LEMMA StatusTyped ==
    ASSUME TypeOK, NEW S \in SUBSET Signed, NEW st \in LeaseStatus,
           SetStatus(S, st)
    PROVE  /\ lease' \in [Leases -> LeaseRow \cup {None}]
           /\ \A l \in Leases : lease'[l] = None <=> lease[l] = None
           /\ \A l \in Signed : /\ lease'[l].unit = lease[l].unit
                                /\ lease'[l].end = lease[l].end
                                /\ lease'[l].status =
                                      IF l \in S THEN st ELSE lease[l].status
PROOF
<1>1. ASSUME NEW l \in Leases PROVE lease'[l] \in LeaseRow \cup {None}
  BY <1>1 DEF SetStatus, TypeOK, Signed, LeaseRow
<1>2. ASSUME NEW l \in Leases PROVE lease'[l] = None <=> lease[l] = None
  <2>1. CASE l \in S
    <3>1. lease[l] \in LeaseRow /\ lease[l] # None
      BY <2>1, SignedRow DEF Signed
    <3>2. lease'[l] \in LeaseRow
      BY <2>1, <3>1 DEF SetStatus, LeaseRow
    <3> QED
      BY <3>1, <3>2, OccupancyConstants
  <2>2. CASE l \notin S
    BY <2>2 DEF SetStatus
  <2> QED
    BY <2>1, <2>2
<1>3. ASSUME NEW l \in Signed
      PROVE  /\ lease'[l].unit = lease[l].unit
             /\ lease'[l].end = lease[l].end
             /\ lease'[l].status = IF l \in S THEN st ELSE lease[l].status
  <2>1. l \in Leases /\ lease[l] \in LeaseRow
    BY SignedRow
  <2> QED
    BY <2>1 DEF SetStatus, LeaseRow
<1>4. DOMAIN lease' = Leases /\ lease' = [l \in Leases |-> lease'[l]]
  BY DEF SetStatus
<1> QED
  BY <1>1, <1>2, <1>3, <1>4

-----------------------------------------------------------------------------
(* OccupancyInv is inductive.                                              *)

LEMMA InitOccupancy == Init => OccupancyInv
BY OccupancyConstants DEF Init, OccupancyInv, TypeOK, UnitStatus, SignedInv,
   Doing, OneActiveLease, LeasesHaveUnits, Signed

\* Leases in the requests' hands stay signed while leases are only added.
LEMMA RequestsKept ==
    ASSUME OccupancyInv, NEW c \in Clients, NEW r \in Request \cup {None},
           request' = [request EXCEPT ![c] = r],
           r # None /\ r.op \in {"update", "renew", "terminate"} => r.lease \in Signed,
           \A l \in Signed : l \in Signed'
    PROVE  \A d \in Clients : SignedInv(d)'
PROOF
<1> SUFFICES ASSUME NEW d \in Clients, NEW op \in {"update", "renew", "terminate"},
                    Doing(d, op)'
             PROVE  request'[d].lease \in Signed'
  BY DEF SignedInv
<1>1. request \in [Clients -> Request \cup {None}]
  BY DEF OccupancyInv, TypeOK
<1>2. CASE d = c
  BY <1>1, <1>2 DEF Doing
<1>3. CASE d # c
  <2>1. request'[d] = request[d]
    BY <1>1, <1>3
  <2>2. Doing(d, op)
    BY <2>1 DEF Doing
  <2> QED
    BY <2>1, <2>2 DEF OccupancyInv, SignedInv
<1> QED
  BY <1>2, <1>3

LEMMA ReadingPreserves ==
    ASSUME OccupancyInv, NEW c \in Clients, Reading(c)
    PROVE  OccupancyInv'
PROOF
<1>1. PICK r \in Request \cup {None} :
         /\ request' = [request EXCEPT ![c] = r]
         /\ r # None /\ r.op \in {"update", "renew", "terminate"} => r.lease \in Signed
  BY ReadingKeeps
<1>2. UNCHANGED <<today, unit, lease, job, jobDay>>
  BY ReadingKeeps
<1>3. TypeOK'
  BY <1>1, <1>2, AskTyped DEF OccupancyInv, TypeOK
<1>4. \A d \in Clients : SignedInv(d)'
  BY <1>1, <1>2, RequestsKept DEF Signed
<1> QED
  BY <1>2, <1>3, <1>4 DEF OccupancyInv, OneActiveLease, LeasesHaveUnits, Signed

\* A write that ends a request, by what it does to the two tables.
LEMMA WritePreserves ==
    ASSUME OccupancyInv, NEW c \in Clients, Finish(c),
           UNCHANGED <<today, job, jobDay>>,
           lease' \in [Leases -> LeaseRow \cup {None}],
           unit' \in [Units -> UnitStatus \cup {"DELETED"}],
           \A l \in Signed : lease'[l] # None,
           OneActiveLease', LeasesHaveUnits'
    PROVE  OccupancyInv'
PROOF
<1>1. request' = [request EXCEPT ![c] = None] /\ None \in Request \cup {None}
  BY DEF Finish
<1>2. TypeOK'
  BY <1>1, AskTyped DEF OccupancyInv, TypeOK
<1>3. \A d \in Clients : SignedInv(d)'
  BY <1>1, RequestsKept DEF Signed
<1> QED
  BY <1>2, <1>3 DEF OccupancyInv

\* One lease given a new row, on a unit where it may be ACTIVE.
LEMMA OneRowWritten ==
    ASSUME OccupancyInv, NEW l \in Leases, NEW row \in LeaseRow,
           lease' = [lease EXCEPT ![l] = row],
           row.status = "ACTIVE" => \/ IndexAllows(l, row.unit)
                                    \/ /\ l \in Signed
                                       /\ lease[l].unit = row.unit
                                       /\ lease[l].status = "ACTIVE"
    PROVE  /\ lease' \in [Leases -> LeaseRow \cup {None}]
           /\ \A k \in Signed : lease'[k] # None
           /\ Signed' = Signed \cup {l}
           /\ OneActiveLease'
PROOF
<1>1. lease \in [Leases -> LeaseRow \cup {None}]
  BY DEF OccupancyInv, TypeOK
<1>2. lease' \in [Leases -> LeaseRow \cup {None}]
  BY <1>1
<1>3. row # None
  BY OccupancyConstants
<1>4. lease'[l] = row /\ \A k \in Leases \ {l} : lease'[k] = lease[k]
  BY <1>1
<1>5. Signed' = Signed \cup {l} /\ \A k \in Signed : lease'[k] # None
  BY <1>3, <1>4 DEF Signed
<1>6. ASSUME NEW k \in Signed, k # l, row.status = "ACTIVE",
             lease[k].status = "ACTIVE", lease[k].unit = row.unit
      PROVE  FALSE
  <2>1. CASE IndexAllows(l, row.unit)
    BY <1>6, <2>1 DEF IndexAllows, ActiveOn
  <2>2. CASE l \in Signed /\ lease[l].unit = row.unit /\ lease[l].status = "ACTIVE"
    BY <1>6, <2>2 DEF OccupancyInv, OneActiveLease
  <2> QED
    BY <1>6, <2>1, <2>2
<1>7. OneActiveLease'
  <2> SUFFICES ASSUME NEW j \in Signed', NEW k \in Signed',
                      lease'[j].status = "ACTIVE", lease'[k].status = "ACTIVE",
                      lease'[j].unit = lease'[k].unit, j # k
               PROVE  FALSE
    BY DEF OneActiveLease
  <2>1. CASE j = l
    <3>1. k \in Signed /\ lease'[k] = lease[k]
      BY <1>4, <1>5, <2>1 DEF Signed
    <3> QED
      BY <1>4, <1>6, <2>1, <3>1
  <2>2. CASE k = l
    <3>1. j \in Signed /\ lease'[j] = lease[j]
      BY <1>4, <1>5, <2>2 DEF Signed
    <3> QED
      BY <1>4, <1>6, <2>2, <3>1
  <2>3. CASE j # l /\ k # l
    <3>1. /\ j \in Signed /\ lease'[j] = lease[j]
          /\ k \in Signed /\ lease'[k] = lease[k]
      BY <1>4, <1>5, <2>3 DEF Signed
    <3> QED
      BY <3>1 DEF OccupancyInv, OneActiveLease
  <2> QED
    BY <2>1, <2>2, <2>3
<1> QED
  BY <1>2, <1>5, <1>7

\* Doing an operation: the request in hand has its fields, and its lease is signed.
LEMMA InHand ==
    ASSUME OccupancyInv, NEW c \in Clients, NEW op, Doing(c, op)
    PROVE  /\ request[c] \in Request
           /\ request[c].op = op
           /\ op \in {"update", "renew", "terminate"} =>
                 /\ request[c].lease \in Signed
                 /\ request[c].lease \in Leases
BY RequestInHand DEF OccupancyInv, Doing, SignedInv, Signed

LEMMA CreatePreserves ==
    ASSUME OccupancyInv, NEW c \in Clients, CommitCreate(c)
    PROVE  OccupancyInv'
PROOF
<1> DEFINE r == request[c]
           row == [unit |-> r.unit, end |-> r.end, status |-> "ACTIVE"]
<1>1. PICK l \in Leases \ Signed :
         /\ Doing(c, "create")
         /\ unit[r.unit] # "DELETED"
         /\ IndexAllows(l, r.unit)
         /\ lease' = [lease EXCEPT ![l] = row]
         /\ Occupy(r.unit)
         /\ Finish(c)
         /\ UNCHANGED <<today, job, jobDay>>
  BY DEF CommitCreate
<1>2. r.unit \in Units /\ r.end \in EndDates \cup {None}
  BY <1>1, InHand, RequestFields
<1>3. row \in LeaseRow /\ row.unit = r.unit
  BY <1>2 DEF LeaseRow, LeaseStatus
<1> HIDE DEF row
<1>4. /\ lease' \in [Leases -> LeaseRow \cup {None}]
      /\ \A k \in Signed : lease'[k] # None
      /\ Signed' = Signed \cup {l}
      /\ OneActiveLease'
  BY <1>1, <1>3, OneRowWritten
<1>5. /\ unit' = [unit EXCEPT ![r.unit] = "OCCUPIED"]
      /\ unit \in [Units -> UnitStatus \cup {"DELETED"}]
      /\ unit' \in [Units -> UnitStatus \cup {"DELETED"}]
  BY <1>1 DEF Occupy, OccupancyInv, TypeOK, UnitStatus
<1>6. LeasesHaveUnits'
  <2> SUFFICES ASSUME NEW k \in Signed' PROVE unit'[lease'[k].unit] # "DELETED"
    BY DEF LeasesHaveUnits
  <2>0. lease \in [Leases -> LeaseRow \cup {None}]
    BY DEF OccupancyInv, TypeOK
  <2>1. CASE k = l
    <3>1. lease'[k] = row
      BY <1>1, <2>0, <2>1
    <3> QED
      BY <1>2, <1>3, <1>5, <3>1
  <2>2. CASE k # l
    <3>1. k \in Signed /\ lease'[k] = lease[k]
      BY <1>1, <1>4, <2>0, <2>2
    <3>2. lease[k].unit \in Units /\ unit[lease[k].unit] # "DELETED"
      BY <3>1, SignedRow DEF OccupancyInv, LeasesHaveUnits
    <3> QED
      BY <1>5, <3>1, <3>2
  <2> QED
    BY <2>1, <2>2
<1> QED
  BY <1>1, <1>4, <1>5, <1>6, WritePreserves

\* A signed lease changed in place, on the same unit, with the units given.
LEMMA RewritePreserves ==
    ASSUME OccupancyInv, NEW c \in Clients, Finish(c),
           UNCHANGED <<today, job, jobDay>>,
           NEW l \in Signed, NEW row \in LeaseRow, row.unit = lease[l].unit,
           lease' = [lease EXCEPT ![l] = row],
           row.status = "ACTIVE" => \/ IndexAllows(l, row.unit)
                                    \/ lease[l].status = "ACTIVE",
           unit' \in [Units -> UnitStatus \cup {"DELETED"}],
           \A u \in Units : unit[u] # "DELETED" => unit'[u] # "DELETED"
    PROVE  OccupancyInv'
PROOF
<1>1. l \in Leases
  BY DEF Signed
<1>2. /\ lease' \in [Leases -> LeaseRow \cup {None}]
      /\ \A k \in Signed : lease'[k] # None
      /\ Signed' = Signed \cup {l}
      /\ OneActiveLease'
  BY <1>1, OneRowWritten
<1>3. LeasesHaveUnits'
  <2> SUFFICES ASSUME NEW k \in Signed' PROVE unit'[lease'[k].unit] # "DELETED"
    BY DEF LeasesHaveUnits
  <2>1. k \in Signed
    BY <1>2
  <2>2. lease[k].unit \in Units /\ unit[lease[k].unit] # "DELETED"
    BY <2>1, SignedRow DEF OccupancyInv, LeasesHaveUnits
  <2>3. lease'[k].unit = lease[k].unit
    <3>1. lease \in [Leases -> LeaseRow \cup {None}] /\ k \in Leases
      BY <2>1 DEF OccupancyInv, TypeOK, Signed
    <3> QED
      BY <3>1
  <2> QED
    BY <2>2, <2>3
<1> QED
  BY <1>2, <1>3, WritePreserves

LEMMA UpdatePreserves ==
    ASSUME OccupancyInv, NEW c \in Clients, CommitUpdate(c)
    PROVE  OccupancyInv'
PROOF
<1> DEFINE l == request[c].lease
           row == [lease[l] EXCEPT !.end = request[c].end]
<1>1. l \in Signed /\ l \in Leases /\ request[c].end \in EndDates
  BY InHand, RequestFields DEF CommitUpdate
<1>2. lease[l] \in LeaseRow
  BY <1>1, SignedRow DEF OccupancyInv
<1>3. /\ row \in LeaseRow
      /\ row.unit = lease[l].unit
      /\ row.status = lease[l].status
  BY <1>1, <1>2 DEF LeaseRow
<1>4. lease' = [lease EXCEPT ![l] = row]
  BY DEF CommitUpdate
<1>5. unit' = unit /\ unit \in [Units -> UnitStatus \cup {"DELETED"}]
  BY DEF CommitUpdate, OccupancyInv, TypeOK
<1>6. Finish(c) /\ UNCHANGED <<today, job, jobDay>>
  BY DEF CommitUpdate
<1> HIDE DEF row, l
<1> QED
  BY <1>1, <1>3, <1>4, <1>5, <1>6, RewritePreserves

LEMMA RenewPreserves ==
    ASSUME OccupancyInv, NEW c \in Clients, CommitRenew(c)
    PROVE  OccupancyInv'
PROOF
<1> DEFINE l == request[c].lease
           row == [lease[l] EXCEPT !.end = request[c].end, !.status = "ACTIVE"]
<1>1. l \in Signed /\ l \in Leases /\ request[c].end \in EndDates
  BY InHand, RequestFields DEF CommitRenew
<1>2. lease[l] \in LeaseRow
  BY <1>1, SignedRow DEF OccupancyInv
<1>3. row \in LeaseRow /\ row.unit = lease[l].unit
  BY <1>1, <1>2 DEF LeaseRow, LeaseStatus
<1>4. lease' = [lease EXCEPT ![l] = row] /\ IndexAllows(l, lease[l].unit)
  BY <1>2 DEF CommitRenew, LeaseRow
<1>5. unit' = unit /\ unit \in [Units -> UnitStatus \cup {"DELETED"}]
  BY DEF CommitRenew, OccupancyInv, TypeOK
<1>6. Finish(c) /\ UNCHANGED <<today, job, jobDay>>
  BY DEF CommitRenew
<1> HIDE DEF row, l
<1> QED
  BY <1>1, <1>3, <1>4, <1>5, <1>6, RewritePreserves

LEMMA TerminatePreserves ==
    ASSUME OccupancyInv, NEW c \in Clients, CommitTerminate(c)
    PROVE  OccupancyInv'
PROOF
<1> DEFINE l == request[c].lease
           row == [lease[l] EXCEPT !.status = "TERMINATED"]
<1>1. l \in Signed /\ l \in Leases
      /\ request[c].status \in {"VACANT", "MAINTENANCE"}
  BY InHand, RequestFields DEF CommitTerminate
<1>2. lease[l] \in LeaseRow
  BY <1>1, SignedRow DEF OccupancyInv
<1>3. row \in LeaseRow /\ row.unit = lease[l].unit /\ row.status = "TERMINATED"
  BY <1>1, <1>2 DEF LeaseRow, LeaseStatus
<1>4. lease' = [lease EXCEPT ![l] = row]
  BY DEF CommitTerminate
<1>5. unit' = [unit EXCEPT ![lease[l].unit] = request[c].status]
  BY DEF CommitTerminate
<1>6. unit \in [Units -> UnitStatus \cup {"DELETED"}]
  BY DEF OccupancyInv, TypeOK
<1>7. /\ unit' \in [Units -> UnitStatus \cup {"DELETED"}]
      /\ \A u \in Units : unit[u] # "DELETED" => unit'[u] # "DELETED"
  BY <1>1, <1>5, <1>6 DEF UnitStatus
<1>8. Finish(c) /\ UNCHANGED <<today, job, jobDay>>
  BY DEF CommitTerminate
<1> HIDE DEF row, l
<1> QED
  BY <1>1, <1>3, <1>4, <1>7, <1>8, RewritePreserves

\* The two writers of a unit that leave the leases alone.
LEMMA UnitWritePreserves ==
    ASSUME OccupancyInv, NEW c \in Clients, CommitStatus(c) \/ CommitRemove(c)
    PROVE  OccupancyInv'
PROOF
<1>1. unit \in [Units -> UnitStatus \cup {"DELETED"}]
  BY DEF OccupancyInv, TypeOK
<1>2. /\ lease' = lease /\ lease \in [Leases -> LeaseRow \cup {None}]
      /\ Finish(c) /\ UNCHANGED <<today, job, jobDay>>
  BY DEF CommitStatus, CommitRemove, OccupancyInv, TypeOK
<1>3. OneActiveLease' /\ \A l \in Signed : lease'[l] # None
  BY <1>2 DEF OccupancyInv, OneActiveLease, Signed
<1>4. /\ unit' \in [Units -> UnitStatus \cup {"DELETED"}]
      /\ LeasesHaveUnits'
  <2>1. CASE CommitStatus(c)
    <3>1. request[c].unit \in Units /\ request[c].status \in Manual
      BY <2>1, InHand, RequestFields DEF CommitStatus
    <3>2. request[c].status \in UnitStatus /\ request[c].status # "DELETED"
      BY <3>1, OccupancyConstants DEF UnitStatus
    <3> QED
      BY <1>1, <1>2, <2>1, <3>1, <3>2
         DEF CommitStatus, OccupancyInv, LeasesHaveUnits, Signed
  <2>2. CASE CommitRemove(c)
    <3>1. request[c].unit \in Units
      BY <2>2, InHand, RequestFields DEF CommitRemove
    <3>2. \A l \in Signed : lease[l].unit # request[c].unit
      BY <2>2 DEF CommitRemove, NoLeaseOf
    <3> QED
      BY <1>1, <1>2, <2>2, <3>1, <3>2
         DEF CommitRemove, OccupancyInv, LeasesHaveUnits, Signed
  <2> QED
    BY <2>1, <2>2
<1> QED
  BY <1>2, <1>3, <1>4, WritePreserves

\* The requests do not notice a step of the job or of the calendar.
LEMMA RequestsUntouched ==
    ASSUME OccupancyInv, request' = request,
           \A l \in Leases : lease'[l] = None <=> lease[l] = None
    PROVE  \A d \in Clients : SignedInv(d)'
PROOF
<1>1. Signed' = Signed
  BY DEF Signed
<1> QED
  BY <1>1 DEF OccupancyInv, SignedInv, Doing

\* One statement of the job, by the rows it changes.
LEMMA StatementPreserves ==
    ASSUME OccupancyInv, NEW S \in SUBSET Signed, NEW st \in LeaseStatus,
           SetStatus(S, st), UNCHANGED <<today, unit, request, jobDay>>,
           job' \in {"idle", "expire", "flag", "clear"},
           st = "ACTIVE" => \A l \in S :
               /\ IndexAllows(l, lease[l].unit)
               /\ \A k \in S : lease[k].unit = lease[l].unit => k = l
    PROVE  OccupancyInv'
PROOF
<1>0. TypeOK
  BY DEF OccupancyInv
<1>1. /\ lease' \in [Leases -> LeaseRow \cup {None}]
      /\ \A l \in Leases : lease'[l] = None <=> lease[l] = None
      /\ \A l \in Signed : /\ lease'[l].unit = lease[l].unit
                           /\ lease'[l].end = lease[l].end
                           /\ lease'[l].status =
                                 IF l \in S THEN st ELSE lease[l].status
  BY <1>0, StatusTyped
<1>2. TypeOK'
  BY <1>0, <1>1 DEF TypeOK
<1>3. \A d \in Clients : SignedInv(d)'
  BY <1>1, RequestsUntouched
<1>4. Signed' = Signed
  BY <1>1 DEF Signed
<1>5. LeasesHaveUnits'
  BY <1>1, <1>4 DEF OccupancyInv, LeasesHaveUnits
<1>6. OneActiveLease'
  <2> SUFFICES ASSUME NEW j \in Signed, NEW k \in Signed, j # k,
                      lease'[j].status = "ACTIVE", lease'[k].status = "ACTIVE",
                      lease[j].unit = lease[k].unit
               PROVE  FALSE
    BY <1>1, <1>4 DEF OneActiveLease
  <2>1. CASE j \in S /\ k \in S
    BY <1>1, <2>1
  <2>2. CASE j \in S /\ k \notin S
    <3>1. st = "ACTIVE" /\ lease[k].status = "ACTIVE"
      BY <1>1, <2>2
    <3>2. k \in ActiveOn(lease[j].unit)
      BY <3>1 DEF ActiveOn
    <3> QED
      BY <2>2, <3>1, <3>2 DEF IndexAllows
  <2>3. CASE j \notin S /\ k \in S
    <3>1. st = "ACTIVE" /\ lease[j].status = "ACTIVE"
      BY <1>1, <2>3
    <3>2. j \in ActiveOn(lease[k].unit)
      BY <3>1 DEF ActiveOn
    <3> QED
      BY <2>3, <3>1, <3>2 DEF IndexAllows
  <2>4. CASE j \notin S /\ k \notin S
    BY <1>1, <2>4 DEF OccupancyInv, OneActiveLease
  <2> QED
    BY <2>1, <2>2, <2>3, <2>4
<1> QED
  BY <1>2, <1>3, <1>5, <1>6 DEF OccupancyInv

\* The job's sets hold signed leases.
LEMMA JobSets ==
    Lapsed \subseteq Signed /\ Expiring \subseteq Signed /\ DealtWith \subseteq Signed
BY DEF Lapsed, Expiring, DealtWith

LEMMA JobPreserves ==
    ASSUME OccupancyInv, JobStep
    PROVE  OccupancyInv'
PROOF
<1>1. CASE ExpireLapsed
  BY <1>1, JobSets, StatementPreserves DEF ExpireLapsed, LeaseStatus
<1>2. CASE FlagExpiring
  BY <1>2, JobSets, StatementPreserves DEF FlagExpiring, LeaseStatus
<1>3. CASE ClearFlags
  BY <1>3, JobSets, StatementPreserves DEF ClearFlags, ClearAllowed, LeaseStatus
<1>4. CASE JobStart \/ ClearRefused \/ JobAbort
  <2>1. UNCHANGED <<today, unit, lease, request>>
    BY <1>4 DEF JobStart, ClearRefused, JobAbort, JobEnds
  <2>2. job' \in {"idle", "expire", "flag", "clear"} /\ jobDay' \in 0..today'
    BY <1>4, OccupancyConstants
       DEF JobStart, ClearRefused, JobAbort, JobEnds, OccupancyInv, TypeOK
  <2>3. TypeOK'
    BY <2>1, <2>2 DEF OccupancyInv, TypeOK
  <2>4. \A d \in Clients : SignedInv(d)'
    BY <2>1, RequestsUntouched
  <2> QED
    BY <2>1, <2>3, <2>4 DEF OccupancyInv, OneActiveLease, LeasesHaveUnits, Signed
<1> QED
  BY <1>1, <1>2, <1>3, <1>4 DEF JobStep

LEMMA TickPreserves ==
    ASSUME OccupancyInv, Tick \/ UNCHANGED vars
    PROVE  OccupancyInv'
PROOF
<1>1. UNCHANGED <<unit, lease, request, job, jobDay>>
  BY DEF Tick, vars
<1>2. today' \in 0..LastDay /\ jobDay' \in 0..today'
  BY <1>1, OccupancyConstants DEF Tick, vars, OccupancyInv, TypeOK
<1>3. TypeOK'
  BY <1>1, <1>2 DEF OccupancyInv, TypeOK
<1>4. \A d \in Clients : SignedInv(d)'
  BY <1>1, RequestsUntouched
<1> QED
  BY <1>1, <1>3, <1>4 DEF OccupancyInv, OneActiveLease, LeasesHaveUnits, Signed

LEMMA StepPreserves ==
    ASSUME OccupancyInv, [Next]_vars
    PROVE  OccupancyInv'
PROOF
<1>1. ASSUME NEW c \in Clients, ClientStep(c) PROVE OccupancyInv'
  BY <1>1, ReadingPreserves, CreatePreserves, UpdatePreserves, RenewPreserves,
     TerminatePreserves, UnitWritePreserves DEF ClientStep, Reading
<1> QED
  BY <1>1, JobPreserves, TickPreserves DEF Next

\* However clients and the nightly job interleave: types, one ACTIVE lease per
\* unit, and no lease on a deleted unit.
THEOREM OccupancySafe == Spec => []OccupancyInv
PROOF
<1>1. Init => OccupancyInv
  BY InitOccupancy
<1>2. OccupancyInv /\ [Next]_vars => OccupancyInv'
  BY StepPreserves
<1> QED
  BY <1>1, <1>2, PTL DEF Spec

\* In particular the partial unique index is never got around: no two ACTIVE
\* leases share a unit.
THEOREM OneActive == Spec => []OneActiveLease
PROOF
<1>1. OccupancyInv => OneActiveLease
  BY DEF OccupancyInv
<1> QED
  BY <1>1, OccupancySafe, PTL

-----------------------------------------------------------------------------
(* Terminated leases.                                                      *)

\* No step loses a signed lease, moves it, or reopens it.
LEMMA StepKeepsTerminated ==
    ASSUME OccupancyInv, [Next]_vars, NEW l \in Signed
    PROVE  /\ lease'[l] # None
           /\ lease'[l].unit = lease[l].unit
           /\ Closed(l) => lease'[l].status = "TERMINATED"
PROOF
<1>0. /\ TypeOK
      /\ l \in Leases /\ lease[l] \in LeaseRow /\ lease[l] # None
      /\ lease \in [Leases -> LeaseRow \cup {None}]
  BY SignedRow DEF OccupancyInv, Signed, TypeOK
<1>1. ASSUME lease' = lease
      PROVE  /\ lease'[l] # None
             /\ lease'[l].unit = lease[l].unit
             /\ Closed(l) => lease'[l].status = "TERMINATED"
  BY <1>0, <1>1 DEF Closed
<1>2. ASSUME NEW c \in Clients, ClientStep(c)
      PROVE  /\ lease'[l] # None
             /\ lease'[l].unit = lease[l].unit
             /\ Closed(l) => lease'[l].status = "TERMINATED"
  <2>1. CASE Reading(c)
    BY <2>1, <1>1, ReadingKeeps
  <2>2. CASE CommitStatus(c) \/ CommitRemove(c)
    BY <2>2, <1>1 DEF CommitStatus, CommitRemove
  <2>3. CASE CommitCreate(c)
    <3>1. PICK k \in Leases \ Signed :
             lease' = [lease EXCEPT ![k] = [unit |-> request[c].unit,
                          end |-> request[c].end, status |-> "ACTIVE"]]
      BY <2>3 DEF CommitCreate
    <3>2. lease'[l] = lease[l]
      BY <1>0, <3>1
    <3> QED
      BY <1>0, <3>2 DEF Closed
  <2>4. CASE CommitUpdate(c)
    <3>1. lease' = [lease EXCEPT ![request[c].lease].end = request[c].end]
      BY <2>4 DEF CommitUpdate
    <3>2. request[c].end \in EndDates
      BY <2>4, InHand, RequestFields DEF CommitUpdate
    <3>3. /\ lease'[l] \in LeaseRow
          /\ lease'[l].unit = lease[l].unit
          /\ lease'[l].status = lease[l].status
      BY <1>0, <3>1, <3>2 DEF LeaseRow
    <3> QED
      BY <3>3, OccupancyConstants DEF Closed
  <2>5. CASE CommitRenew(c)
    <3>1. /\ lease' = [lease EXCEPT ![request[c].lease].end = request[c].end,
                                    ![request[c].lease].status = "ACTIVE"]
          /\ ~Closed(request[c].lease)
      BY <2>5 DEF CommitRenew, CheckAllowsLive
    <3>2. request[c].end \in EndDates /\ request[c].lease \in Leases
      BY <2>5, InHand, RequestFields DEF CommitRenew
    <3>3. CASE l = request[c].lease
      <4>1. lease'[l] \in LeaseRow /\ lease'[l].unit = lease[l].unit
        BY <1>0, <3>1, <3>2, <3>3 DEF LeaseRow, LeaseStatus
      <4> QED
        BY <3>1, <3>3, <4>1, OccupancyConstants
    <3>4. CASE l # request[c].lease
      <4>1. lease'[l] = lease[l]
        BY <1>0, <3>1, <3>2, <3>4
      <4> QED
        BY <1>0, <4>1 DEF Closed
    <3> QED
      BY <3>3, <3>4
  <2>6. CASE CommitTerminate(c)
    <3>1. lease' = [lease EXCEPT ![request[c].lease].status = "TERMINATED"]
      BY <2>6 DEF CommitTerminate
    <3>2. /\ lease'[l] \in LeaseRow
          /\ lease'[l].unit = lease[l].unit
          /\ lease'[l].status \in {lease[l].status, "TERMINATED"}
      BY <1>0, <3>1 DEF LeaseRow, LeaseStatus
    <3> QED
      BY <3>2, OccupancyConstants DEF Closed
  <2> QED
    BY <1>2, <2>1, <2>2, <2>3, <2>4, <2>5, <2>6 DEF ClientStep, Reading
<1>3. ASSUME NEW S \in SUBSET Signed, NEW st \in LeaseStatus, SetStatus(S, st),
             \A k \in S : ~Closed(k)
      PROVE  /\ lease'[l] # None
             /\ lease'[l].unit = lease[l].unit
             /\ Closed(l) => lease'[l].status = "TERMINATED"
  BY <1>0, <1>3, StatusTyped DEF Closed
<1>4. CASE JobStep
  <2>1. CASE ExpireLapsed
    BY <2>1, <1>3, JobSets DEF ExpireLapsed, Lapsed, Live, Closed, LeaseStatus
  <2>2. CASE FlagExpiring
    BY <2>2, <1>3, JobSets DEF FlagExpiring, Expiring, Closed, LeaseStatus
  <2>3. CASE ClearFlags
    BY <2>3, <1>3, JobSets DEF ClearFlags, DealtWith, Closed, LeaseStatus
  <2>4. CASE JobStart \/ ClearRefused \/ JobAbort
    BY <2>4, <1>1 DEF JobStart, ClearRefused, JobAbort, JobEnds
  <2> QED
    BY <1>4, <2>1, <2>2, <2>3, <2>4 DEF JobStep
<1>5. CASE Tick \/ UNCHANGED vars
  BY <1>1, <1>5 DEF Tick, vars
<1> QED
  BY <1>2, <1>4, <1>5 DEF Next

\* A stale read never reopens a terminated lease: the CHECK on the row stops a
\* renewal that was decided before the termination.
THEOREM TerminationIsFinal == Spec => TerminatedForever
PROOF
<1>1. OccupancyInv /\ [Next]_vars => [KeepsTerminated]_vars
  BY StepKeepsTerminated DEF KeepsTerminated
<1> QED
  BY <1>1, OccupancySafe, PTL DEF Spec, TerminatedForever

-----------------------------------------------------------------------------
(* Moves apart: units follow leases.                                       *)

\* Held units are decided by which leases are signed, where and if closed.
LEMMA HeldUnchanged ==
    ASSUME Signed' = Signed,
           \A l \in Signed : /\ lease'[l].unit = lease[l].unit
                             /\ Closed(l)' <=> Closed(l)
    PROVE  /\ \A u \in Units : HeldOn(u)' = HeldOn(u)
           /\ OneTenantPerUnit => OneTenantPerUnit'
PROOF
<1>1. ASSUME NEW u \in Units PROVE HeldOn(u)' = HeldOn(u)
  BY DEF HeldOn
<1>2. OneTenantPerUnit => OneTenantPerUnit'
  BY DEF OneTenantPerUnit
<1> QED
  BY <1>1, <1>2

\* The steps that neither sign nor close a lease, nor touch a unit.
NobodyMoves ==
    /\ unit' = unit
    /\ Signed' = Signed
    /\ \A l \in Signed : /\ lease'[l].unit = lease[l].unit
                         /\ Closed(l)' <=> Closed(l)

\* The job and the calendar are of that kind.
LEMMA JobMovesNobody ==
    ASSUME OccupancyInv, JobStep \/ Tick \/ UNCHANGED vars
    PROVE  NobodyMoves /\ request' = request
PROOF
<1>0. TypeOK
  BY DEF OccupancyInv
<1>1. unit' = unit /\ request' = request
  BY DEF JobStep, JobStart, ExpireLapsed, FlagExpiring, ClearFlags, ClearRefused,
         JobAbort, JobEnds, Tick, vars
<1>2. ASSUME NEW S \in SUBSET Signed, NEW st \in LeaseStatus, SetStatus(S, st),
             st # "TERMINATED", \A k \in S : ~Closed(k)
      PROVE  NobodyMoves
  BY <1>0, <1>1, <1>2, StatusTyped DEF NobodyMoves, Signed, Closed
<1>3. CASE ExpireLapsed
  BY <1>2, <1>3, JobSets DEF ExpireLapsed, Lapsed, Live, Closed, LeaseStatus
<1>4. CASE FlagExpiring
  BY <1>2, <1>4, JobSets DEF FlagExpiring, Expiring, Closed, LeaseStatus
<1>5. CASE ClearFlags
  BY <1>2, <1>5, JobSets DEF ClearFlags, DealtWith, Closed, LeaseStatus
<1>6. CASE JobStart \/ ClearRefused \/ JobAbort \/ Tick \/ UNCHANGED vars
  BY <1>1, <1>6 DEF NobodyMoves, JobStart, ClearRefused, JobAbort, JobEnds, Tick, vars,
                    Signed, Closed
<1> QED
  BY <1>1, <1>3, <1>4, <1>5, <1>6 DEF JobStep

\* So are edits and renewals.
LEMMA TermsMoveNobody ==
    ASSUME OccupancyInv, NEW c \in Clients, CommitUpdate(c) \/ CommitRenew(c)
    PROVE  NobodyMoves
PROOF
<1> DEFINE l == request[c].lease
<1>1. TypeOK /\ l \in Signed /\ l \in Leases /\ request[c].end \in EndDates
  BY InHand, RequestFields DEF CommitUpdate, CommitRenew, OccupancyInv
<1>2. lease[l] \in LeaseRow /\ lease \in [Leases -> LeaseRow \cup {None}]
  BY <1>1, SignedRow DEF TypeOK
<1>3. /\ lease'[l] \in LeaseRow
      /\ lease'[l].unit = lease[l].unit
      /\ lease'[l].status = "TERMINATED" <=> lease[l].status = "TERMINATED"
  <2>1. CASE CommitUpdate(c)
    <3>1. lease' = [lease EXCEPT ![l].end = request[c].end]
      BY <2>1 DEF CommitUpdate
    <3> QED
      BY <1>1, <1>2, <3>1 DEF LeaseRow
  <2>2. CASE CommitRenew(c)
    <3>1. /\ lease' = [lease EXCEPT ![l].end = request[c].end, ![l].status = "ACTIVE"]
          /\ lease[l].status # "TERMINATED"
      BY <2>2 DEF CommitRenew, CheckAllowsLive, Closed
    <3> QED
      BY <1>1, <1>2, <3>1 DEF LeaseRow, LeaseStatus
  <2> QED
    BY <2>1, <2>2
<1>4. unit' = unit /\ \A k \in Leases \ {l} : lease'[k] = lease[k]
  BY <1>2 DEF CommitUpdate, CommitRenew
<1> QED
  BY <1>1, <1>2, <1>3, <1>4, OccupancyConstants DEF NobodyMoves, Signed, Closed

\* The job and the calendar close nothing and touch no unit.
LEMMA ClerkJob ==
    ASSUME ClerkInv, JobStep \/ Tick \/ UNCHANGED vars
    PROVE  ClerkInv'
PROOF
<1>0. OccupancyInv /\ TypeOK
  BY DEF ClerkInv, OccupancyInv
<1>1. OccupancyInv'
  BY <1>0, JobPreserves, TickPreserves
<1>2. unit' = unit /\ request' = request
  BY <1>0, JobMovesNobody DEF NobodyMoves
<1>3. /\ Signed' = Signed
      /\ \A l \in Signed : /\ lease'[l].unit = lease[l].unit
                           /\ Closed(l)' <=> Closed(l)
  BY <1>0, JobMovesNobody DEF NobodyMoves
<1>4. /\ \A u \in Units : HeldOn(u)' = HeldOn(u)
      /\ OneTenantPerUnit'
  BY <1>3, HeldUnchanged DEF ClerkInv
<1>5. UnitFollowsLease'
  BY <1>2, <1>4 DEF ClerkInv, UnitFollowsLease
<1>6. ASSUME NEW c \in Clients PROVE ReadStillHolds(c)'
  <2>1. Doing(c, "create")' => unit'[request'[c].unit] \in Leasable \cup {"DELETED"}
    BY <1>2 DEF ClerkInv, ReadStillHolds, Doing
  <2>2. Doing(c, "setStatus")' => unit'[request'[c].unit] # "OCCUPIED"
    BY <1>2 DEF ClerkInv, ReadStillHolds, Doing
  <2>3. Doing(c, "terminate")' => ~Closed(request[c].lease)'
    <3> SUFFICES ASSUME Doing(c, "terminate") PROVE ~Closed(request[c].lease)'
      BY <1>2 DEF Doing
    <3>1. request[c].lease \in Signed
      BY <1>0, InHand
    <3> QED
      BY <1>2, <1>3, <3>1 DEF ClerkInv, ReadStillHolds, Closed
  <2> QED
    BY <2>1, <2>2, <2>3 DEF ReadStillHolds
<1> QED
  BY <1>1, <1>4, <1>5, <1>6 DEF ClerkInv

\* What a client reads is so when it has read it, and others' reads stay.
LEMMA ClerkReads ==
    ASSUME ClerkInv, NEW c \in Clients, Reading(c)
    PROVE  ClerkInv'
PROOF
<1>0. OccupancyInv /\ TypeOK /\ OccupancyInv'
  BY ReadingPreserves DEF ClerkInv, OccupancyInv
<1>1. UNCHANGED <<unit, lease>>
  BY <1>0, ReadingKeeps
<1>2. /\ UnitFollowsLease' /\ OneTenantPerUnit'
      /\ \A u \in Units : HeldOn(u)' = HeldOn(u)
  BY <1>1 DEF ClerkInv, UnitFollowsLease, OneTenantPerUnit, HeldOn, Signed, Closed
<1>3. /\ request \in [Clients -> Request \cup {None}]
      /\ \A d \in Clients \ {c} : request'[d] = request[d]
  <2>1. PICK r \in Request \cup {None} : request' = [request EXCEPT ![c] = r]
    BY <1>0, ReadingKeeps
  <2> QED
    BY <1>0, <2>1 DEF TypeOK
<1>4. ReadStillHolds(c)'
  <2>1. CASE ReadForCreate(c)
    <3>1. PICK u \in Units, e \in EndDates \cup {None} :
             /\ unit[u] \in Leasable
             /\ request' = [request EXCEPT ![c] = [op |-> "create", unit |-> u, end |-> e]]
      BY <2>1 DEF ReadForCreate, Ask
    <3>2. request'[c] = [op |-> "create", unit |-> u, end |-> e]
      BY <1>3, <3>1
    <3> QED
      BY <1>1, <3>1, <3>2 DEF ReadStillHolds, Doing
  <2>2. CASE ReadForStatus(c)
    <3>1. PICK u \in Units, s \in Manual :
             /\ Idle(u)
             /\ request' = [request EXCEPT ![c] = [op |-> "setStatus", unit |-> u, status |-> s]]
      BY <2>2 DEF ReadForStatus, Ask
    <3>2. request'[c] = [op |-> "setStatus", unit |-> u, status |-> s]
      BY <1>3, <3>1
    <3> QED
      BY <1>1, <3>1, <3>2 DEF ReadStillHolds, Doing, Idle
  <2>3. CASE ReadForTerminate(c)
    <3>1. PICK l \in Signed, s \in {"VACANT", "MAINTENANCE"} :
             /\ ~Closed(l)
             /\ request' = [request EXCEPT ![c] = [op |-> "terminate", lease |-> l, status |-> s]]
      BY <2>3 DEF ReadForTerminate, Ask
    <3>2. request'[c] = [op |-> "terminate", lease |-> l, status |-> s]
      BY <1>3, <3>1
    <3> QED
      BY <1>1, <3>1, <3>2 DEF ReadStillHolds, Doing, Closed
  <2>4. CASE ReadForUpdate(c) \/ ReadForRenew(c) \/ ReadForRemove(c) \/ Abort(c)
    <3>1. ~Doing(c, "create")' /\ ~Doing(c, "setStatus")' /\ ~Doing(c, "terminate")'
      BY <1>3, <2>4 DEF ReadForUpdate, ReadForRenew, ReadForRemove, Abort, Ask,
                        Finish, Doing
    <3> QED
      BY <3>1 DEF ReadStillHolds
  <2> QED
    BY <2>1, <2>2, <2>3, <2>4 DEF Reading
<1>5. ASSUME NEW d \in Clients \ {c} PROVE ReadStillHolds(d)'
  <2>1. ReadStillHolds(d) /\ request'[d] = request[d]
    BY <1>3 DEF ClerkInv
  <2> QED
    BY <1>1, <2>1 DEF ReadStillHolds, Doing, Closed
<1> QED
  BY <1>0, <1>2, <1>4, <1>5 DEF ClerkInv

\* After a write the client has nothing in hand, and what the others read stays
\* if the write's units are not theirs.
LEMMA ClerkDone ==
    ASSUME ClerkInv, NEW c \in Clients, Finish(c), NEW V \in SUBSET Units,
           \A d \in Clients \ {c} : Moving(d) => UnitOf(request[d]) \notin V,
           \A u \in Units \ V : unit'[u] \in {unit[u], "DELETED"},
           \A l \in Signed : lease[l].unit \notin V => (Closed(l)' <=> Closed(l))
    PROVE  \A d \in Clients : ReadStillHolds(d)'
PROOF
<1>0. OccupancyInv /\ TypeOK
  BY DEF ClerkInv, OccupancyInv
<1>1. request'[c] = None /\ \A d \in Clients \ {c} : request'[d] = request[d]
  BY <1>0 DEF Finish, TypeOK
<1>2. ASSUME NEW d \in Clients \ {c} PROVE ReadStillHolds(d)'
  <2> DEFINE r == request[d]
  <2>1. /\ request'[d] = r /\ ReadStillHolds(d)
        /\ \A op : Doing(d, op)' <=> Doing(d, op)
    BY <1>1 DEF ClerkInv, Doing
  <2>2. CASE Doing(d, "create") \/ Doing(d, "setStatus")
    <3>1. r.unit \in Units /\ r.op # "terminate" /\ Moving(d)
      BY <1>0, <2>2, InHand, RequestFields DEF Moving, Doing
    <3>2. unit'[r.unit] \in {unit[r.unit], "DELETED"}
      BY <3>1 DEF UnitOf
    <3>3. ~Doing(d, "terminate")
      BY <3>1 DEF Doing
    <3> QED
      BY <2>1, <3>2, <3>3 DEF ReadStillHolds
  <2>3. CASE Doing(d, "terminate")
    <3>1. r.lease \in Signed /\ r.op = "terminate" /\ Moving(d)
      BY <1>0, <2>3, InHand DEF Moving
    <3>2. lease[r.lease].unit \notin V
      BY <3>1 DEF UnitOf
    <3>3. ~Doing(d, "create") /\ ~Doing(d, "setStatus")
      BY <3>1 DEF Doing
    <3>4. ~Closed(r.lease)'
      BY <2>1, <2>3, <3>1, <3>2 DEF ReadStillHolds, Closed
    <3> QED
      BY <2>1, <3>3, <3>4 DEF ReadStillHolds, Closed
  <2>4. CASE ~Doing(d, "create") /\ ~Doing(d, "setStatus") /\ ~Doing(d, "terminate")
    BY <2>1, <2>4 DEF ReadStillHolds
  <2> QED
    BY <2>2, <2>3, <2>4
<1> QED
  BY <1>1, <1>2 DEF ReadStillHolds, Doing

\* If the write moves nobody, the others need not be elsewhere.
LEMMA NobodyMoved ==
    ASSUME ClerkInv, NEW c \in Clients, Finish(c),
           \A u \in Units : unit'[u] \in {unit[u], "DELETED"},
           \A l \in Signed : Closed(l)' <=> Closed(l)
    PROVE  \A d \in Clients : ReadStillHolds(d)'
PROOF
<1> DEFINE V == {}
<1>1. /\ V \in SUBSET Units
      /\ \A d \in Clients \ {c} : Moving(d) => UnitOf(request[d]) \notin V
      /\ \A u \in Units \ V : unit'[u] \in {unit[u], "DELETED"}
      /\ \A l \in Signed : lease[l].unit \notin V => (Closed(l)' <=> Closed(l))
  BY DEF Closed
<1> HIDE DEF V
<1> QED
  BY <1>1, ClerkDone

\* With the moves apart, nobody else is moving in or out of a mover's unit.
LEMMA OthersElsewhere ==
    ASSUME MovesApart, NEW c \in Clients, Moving(c), NEW u, UnitOf(request[c]) = u
    PROVE  \A d \in Clients \ {c} : Moving(d) => UnitOf(request[d]) \notin {u}
BY DEF MovesApart

LEMMA ClerkCreates ==
    ASSUME ClerkInv, MovesApart, NEW c \in Clients, CommitCreate(c)
    PROVE  ClerkInv'
PROOF
<1> DEFINE r == request[c]
           row == [unit |-> r.unit, end |-> r.end, status |-> "ACTIVE"]
<1>0. OccupancyInv /\ TypeOK /\ OccupancyInv'
  BY CreatePreserves DEF ClerkInv, OccupancyInv
<1>1. PICK l \in Leases \ Signed :
         /\ Doing(c, "create")
         /\ unit[r.unit] # "DELETED"
         /\ lease' = [lease EXCEPT ![l] = row]
         /\ Occupy(r.unit)
         /\ Finish(c)
  BY DEF CommitCreate
<1>2. r.unit \in Units /\ r.end \in EndDates \cup {None}
  BY <1>0, <1>1, InHand, RequestFields
<1>3. row \in LeaseRow /\ row.unit = r.unit /\ row.status = "ACTIVE"
  BY <1>2 DEF LeaseRow, LeaseStatus
<1>4. HeldOn(r.unit) = {}
  BY <1>1, <1>2 DEF ClerkInv, ReadStillHolds, UnitFollowsLease, Leasable
<1> HIDE DEF row
<1>5. /\ lease'[l] = row
      /\ Signed' = Signed \cup {l}
      /\ \A k \in Signed : lease'[k] = lease[k] /\ k # l
  BY <1>0, <1>1, <1>3, OccupancyConstants DEF TypeOK, Signed
<1>6. ASSUME NEW u \in Units PROVE HeldOn(u)' = HeldOn(u) \cup (IF u = r.unit THEN {l} ELSE {})
  BY <1>3, <1>5 DEF HeldOn, Closed
<1>7. unit' = [unit EXCEPT ![r.unit] = "OCCUPIED"]
      /\ unit \in [Units -> UnitStatus \cup {"DELETED"}]
  BY <1>0, <1>1 DEF Occupy, TypeOK
<1>8. UnitFollowsLease'
  BY <1>2, <1>6, <1>7 DEF ClerkInv, UnitFollowsLease
<1>9. OneTenantPerUnit'
  <2> SUFFICES ASSUME NEW j \in Signed', NEW k \in Signed', j # k,
                      lease'[j].status # "TERMINATED", lease'[k].status # "TERMINATED",
                      lease'[j].unit = lease'[k].unit
               PROVE  FALSE
    BY DEF OneTenantPerUnit, Closed
  <2>1. CASE j # l /\ k # l
    BY <1>5, <2>1 DEF ClerkInv, OneTenantPerUnit, Closed
  <2>2. CASE j = l
    <3>1. k \in Signed /\ lease'[k] = lease[k] /\ lease[k].unit = r.unit
      BY <1>3, <1>5, <2>2
    <3> QED
      BY <1>4, <3>1 DEF HeldOn, Closed
  <2>3. CASE k = l
    <3>1. j \in Signed /\ lease'[j] = lease[j] /\ lease[j].unit = r.unit
      BY <1>3, <1>5, <2>3
    <3> QED
      BY <1>4, <3>1 DEF HeldOn, Closed
  <2> QED
    BY <2>1, <2>2, <2>3
<1>10. \A d \in Clients : ReadStillHolds(d)'
  <2> DEFINE v == r.unit
  <2>1. Moving(c) /\ UnitOf(request[c]) = v
    BY <1>1 DEF Moving, UnitOf, Doing
  <2>2. \A d \in Clients \ {c} : Moving(d) => UnitOf(request[d]) \notin {v}
    BY <2>1, OthersElsewhere
  <2>3. \A u \in Units \ {v} : unit'[u] \in {unit[u], "DELETED"}
    BY <1>7
  <2>4. \A k \in Signed : lease[k].unit \notin {v} => (Closed(k)' <=> Closed(k))
    BY <1>5 DEF Closed
  <2>5. v \in Units
    BY <1>2
  <2> HIDE DEF v
  <2> QED
    BY <1>1, <2>2, <2>3, <2>4, <2>5, ClerkDone
<1> QED
  BY <1>0, <1>8, <1>9, <1>10 DEF ClerkInv

\* Terms are changed, or a lease is renewed: who holds what stays.
LEMMA ClerkChangesTerms ==
    ASSUME ClerkInv, NEW c \in Clients, CommitUpdate(c) \/ CommitRenew(c)
    PROVE  ClerkInv'
PROOF
<1>0. OccupancyInv /\ TypeOK /\ OccupancyInv'
  BY UpdatePreserves, RenewPreserves DEF ClerkInv, OccupancyInv
<1>1. /\ Signed' = Signed
      /\ \A k \in Signed : /\ lease'[k].unit = lease[k].unit
                           /\ Closed(k)' <=> Closed(k)
  BY <1>0, TermsMoveNobody DEF NobodyMoves
<1>2. (\A u \in Units : HeldOn(u)' = HeldOn(u)) /\ OneTenantPerUnit'
  BY <1>1, HeldUnchanged DEF ClerkInv
<1>3. unit' = unit /\ Finish(c)
  BY DEF CommitUpdate, CommitRenew
<1>4. UnitFollowsLease'
  BY <1>2, <1>3 DEF ClerkInv, UnitFollowsLease
<1>5. \A d \in Clients : ReadStillHolds(d)'
  BY <1>1, <1>3, NobodyMoved
<1> QED
  BY <1>0, <1>2, <1>4, <1>5 DEF ClerkInv

LEMMA ClerkTerminates ==
    ASSUME ClerkInv, MovesApart, NEW c \in Clients, CommitTerminate(c)
    PROVE  ClerkInv'
PROOF
<1> DEFINE l == request[c].lease
<1>0. OccupancyInv /\ TypeOK /\ OccupancyInv'
  BY TerminatePreserves DEF ClerkInv, OccupancyInv
<1>1. /\ l \in Signed /\ l \in Leases
      /\ request[c].status \in {"VACANT", "MAINTENANCE"}
      /\ ~Closed(l)
  BY <1>0, InHand, RequestFields DEF CommitTerminate, ClerkInv, ReadStillHolds
<1>2. /\ lease[l] \in LeaseRow /\ lease[l].unit \in Units
      /\ lease \in [Leases -> LeaseRow \cup {None}]
      /\ unit \in [Units -> UnitStatus \cup {"DELETED"}]
  BY <1>0, <1>1, SignedRow DEF TypeOK
<1>3. /\ lease' = [lease EXCEPT ![l].status = "TERMINATED"]
      /\ unit' = [unit EXCEPT ![lease[l].unit] = request[c].status]
      /\ Finish(c)
  BY DEF CommitTerminate
<1>4. /\ lease'[l] \in LeaseRow
      /\ lease'[l].unit = lease[l].unit
      /\ lease'[l].status = "TERMINATED"
      /\ \A k \in Leases \ {l} : lease'[k] = lease[k]
  BY <1>1, <1>2, <1>3 DEF LeaseRow, LeaseStatus
<1>5. Signed' = Signed
  BY <1>1, <1>4, OccupancyConstants DEF Signed
<1>6. ASSUME NEW u \in Units PROVE HeldOn(u)' = HeldOn(u) \ {l}
  BY <1>4, <1>5 DEF HeldOn, Closed, Signed
<1>7. HeldOn(lease[l].unit) \ {l} = {}
  BY <1>1 DEF ClerkInv, OneTenantPerUnit, HeldOn
<1>8. UnitFollowsLease'
  <2> SUFFICES ASSUME NEW u \in Units
               PROVE  unit'[u] = "OCCUPIED" <=> HeldOn(u)' # {}
    BY DEF UnitFollowsLease
  <2>1. CASE u = lease[l].unit
    BY <1>1, <1>2, <1>3, <1>6, <1>7, <2>1
  <2>2. CASE u # lease[l].unit
    <3>1. l \notin HeldOn(u) /\ unit'[u] = unit[u]
      BY <1>2, <1>3, <2>2 DEF HeldOn
    <3> QED
      BY <1>6, <3>1 DEF ClerkInv, UnitFollowsLease
  <2> QED
    BY <2>1, <2>2
<1>9. OneTenantPerUnit'
  <2> SUFFICES ASSUME NEW j \in Signed, NEW k \in Signed, j # k,
                      lease'[j].status # "TERMINATED", lease'[k].status # "TERMINATED",
                      lease'[j].unit = lease'[k].unit
               PROVE  FALSE
    BY <1>5 DEF OneTenantPerUnit, Closed
  <2>1. j # l /\ k # l /\ j \in Leases /\ k \in Leases
    BY <1>4 DEF Signed
  <2> QED
    BY <1>4, <2>1 DEF ClerkInv, OneTenantPerUnit, Closed
<1>10. \A d \in Clients : ReadStillHolds(d)'
  <2> DEFINE v == lease[l].unit
  <2>1. Moving(c) /\ UnitOf(request[c]) = v
    BY DEF CommitTerminate, Moving, UnitOf, Doing
  <2>2. \A d \in Clients \ {c} : Moving(d) => UnitOf(request[d]) \notin {v}
    BY <2>1, OthersElsewhere
  <2>3. \A u \in Units \ {v} : unit'[u] \in {unit[u], "DELETED"}
    BY <1>2, <1>3
  <2>4. \A k \in Signed : lease[k].unit \notin {v} => (Closed(k)' <=> Closed(k))
    BY <1>4 DEF Closed, Signed
  <2>5. v \in Units
    BY <1>2
  <2> HIDE DEF v
  <2> QED
    BY <1>3, <2>2, <2>3, <2>4, <2>5, ClerkDone
<1> QED
  BY <1>0, <1>8, <1>9, <1>10 DEF ClerkInv

LEMMA ClerkWritesUnit ==
    ASSUME ClerkInv, MovesApart, NEW c \in Clients, CommitStatus(c) \/ CommitRemove(c)
    PROVE  ClerkInv'
PROOF
<1>0. OccupancyInv /\ TypeOK /\ OccupancyInv'
  BY UnitWritePreserves DEF ClerkInv, OccupancyInv
<1>1. lease' = lease /\ Finish(c) /\ unit \in [Units -> UnitStatus \cup {"DELETED"}]
  BY <1>0 DEF CommitStatus, CommitRemove, TypeOK
<1>2. (\A u \in Units : HeldOn(u)' = HeldOn(u)) /\ OneTenantPerUnit'
  BY <1>1 DEF ClerkInv, OneTenantPerUnit, HeldOn, Signed, Closed
<1>3. UnitFollowsLease'
  <2>1. CASE CommitStatus(c)
    <3>1. /\ request[c].unit \in Units
          /\ request[c].status # "OCCUPIED"
          /\ unit[request[c].unit] # "OCCUPIED"
          /\ unit' = [unit EXCEPT ![request[c].unit] = request[c].status]
      BY <1>0, <2>1, InHand, RequestFields, OccupancyConstants
         DEF CommitStatus, ClerkInv, ReadStillHolds
    <3> QED
      BY <1>1, <1>2, <3>1 DEF ClerkInv, UnitFollowsLease
  <2>2. CASE CommitRemove(c)
    <3>1. /\ request[c].unit \in Units
          /\ unit' = [unit EXCEPT ![request[c].unit] = "DELETED"]
          /\ HeldOn(request[c].unit) = {}
      BY <1>0, <2>2, InHand, RequestFields DEF CommitRemove, NoLeaseOf, HeldOn
    <3> QED
      BY <1>1, <1>2, <3>1 DEF ClerkInv, UnitFollowsLease
  <2> QED
    BY <2>1, <2>2
<1>4. \A d \in Clients : ReadStillHolds(d)'
  <2>1. \A k \in Signed : Closed(k)' <=> Closed(k)
    BY <1>1 DEF Closed
  <2>2. CASE CommitStatus(c)
    <3> DEFINE v == request[c].unit
    <3>1. v \in Units /\ Moving(c) /\ UnitOf(request[c]) = v
      BY <1>0, <2>2, InHand, RequestFields DEF CommitStatus, Moving, UnitOf, Doing
    <3>2. \A d \in Clients \ {c} : Moving(d) => UnitOf(request[d]) \notin {v}
      BY <3>1, OthersElsewhere
    <3>3. \A u \in Units \ {v} : unit'[u] \in {unit[u], "DELETED"}
      BY <1>1, <2>2 DEF CommitStatus
    <3> HIDE DEF v
    <3> QED
      BY <1>1, <2>1, <3>1, <3>2, <3>3, ClerkDone
  <2>3. CASE CommitRemove(c)
    <3>1. \A u \in Units : unit'[u] \in {unit[u], "DELETED"}
      BY <1>1, <2>3 DEF CommitRemove
    <3> QED
      BY <1>1, <2>1, <3>1, NobodyMoved
  <2> QED
    BY <2>2, <2>3
<1> QED
  BY <1>0, <1>2, <1>3, <1>4 DEF ClerkInv

\* As long as no two moves are under way on one unit, with everything else and
\* the job running beside them, what a handler of the leases or of the units read
\* still holds when it writes.
THEOREM ClerkSafe == Spec /\ []MovesApart => []ClerkInv
PROOF
<1>1. Init => ClerkInv
  <2>1. Init => OccupancyInv
    BY InitOccupancy
  <2>2. Init => /\ \A c \in Clients : ReadStillHolds(c)
                /\ UnitFollowsLease
                /\ OneTenantPerUnit
    BY DEF Init, ReadStillHolds, Doing, UnitFollowsLease, OneTenantPerUnit, HeldOn, Signed
  <2> QED
    BY <2>1, <2>2 DEF ClerkInv
<1>2. ClerkInv /\ MovesApart /\ [Next]_vars => ClerkInv'
  <2>1. ASSUME ClerkInv, MovesApart, NEW c \in Clients, ClientStep(c) PROVE ClerkInv'
    BY <2>1, ClerkReads, ClerkCreates, ClerkChangesTerms, ClerkTerminates,
       ClerkWritesUnit DEF ClientStep, Reading
  <2> QED
    BY <2>1, ClerkJob DEF Next
<1> QED
  BY <1>1, <1>2, PTL DEF Spec

\* Then a unit is OCCUPIED exactly while a lease holds it.
THEOREM ClerkKeepsUnits == Spec /\ []MovesApart => []UnitFollowsLease
PROOF
<1>1. ClerkInv => UnitFollowsLease
  BY DEF ClerkInv
<1> QED
  BY <1>1, ClerkSafe, PTL

\* And a unit never holds two tenants, nor one beside another who stays past the
\* end of a lease the job has marked EXPIRED: the unit is still OCCUPIED then, and
\* the create handler refuses it.
THEOREM ClerkKeepsTenantsApart == Spec /\ []MovesApart => []OneTenantPerUnit
PROOF
<1>1. ClerkInv => OneTenantPerUnit
  BY DEF ClerkInv
<1> QED
  BY <1>1, ClerkSafe, PTL

-----------------------------------------------------------------------------
(* The letting book.                                                       *)

LEMMA OnlyOne == ASSUME NEW x PROVE AnyOf({x}) = x
BY DEF AnyOf

\* One entry of the book.
LEMMA BookEntries ==
    /\ \A l \in Leases : Homes[l] = IF l \in Signed THEN lease[l].unit ELSE None
    /\ \A u \in Units : Tenants[u] = IF HeldOn(u) = {} THEN None ELSE AnyOf(HeldOn(u))
    /\ \A u \in Units : Market[u] = MarketOf(unit[u])
    /\ Homes = [l \in Leases |-> Homes[l]]
    /\ Tenants = [u \in Units |-> Tenants[u]]
    /\ Market = [u \in Units |-> Market[u]]
BY DEF Homes, Tenants, Market

LEMMA StandStill == ASSUME NobodyMoves PROVE UNCHANGED <<Homes, Tenants, Market>>
PROOF
<1>1. \A u \in Units : HeldOn(u)' = HeldOn(u)
  BY HeldUnchanged DEF NobodyMoves
<1>2. Homes' = Homes
  BY DEF Homes, NobodyMoves
<1>3. Tenants' = Tenants
  BY <1>1 DEF Tenants
<1>4. Market' = Market
  BY DEF Market, NobodyMoves
<1> QED
  BY <1>2, <1>3, <1>4

\* A unit written, and no lease.
LEMMA UnitWritten ==
    ASSUME TypeOK, lease' = lease, NEW u \in Units, NEW st,
           unit' = [unit EXCEPT ![u] = st]
    PROVE  /\ UNCHANGED <<Homes, Tenants>>
           /\ Market' = [Market EXCEPT ![u] = MarketOf(st)]
PROOF
<1>1. Homes' = Homes /\ Tenants' = Tenants
  BY DEF Homes, Tenants, HeldOn, Signed, Closed
<1>2. ASSUME NEW v \in Units
      PROVE  Market'[v] = IF v = u THEN MarketOf(st) ELSE Market[v]
  <2>1. unit'[v] = IF v = u THEN st ELSE unit[v]
    BY DEF TypeOK
  <2> QED
    BY <2>1 DEF Market
<1>3. Market' = [v \in Units |-> Market'[v]] /\ Market = [v \in Units |-> Market[v]]
  BY DEF Market
<1> HIDE DEF Market
<1>4. Market' = [Market EXCEPT ![u] = MarketOf(st)]
  BY <1>2, <1>3
<1> QED
  BY <1>1, <1>4

LEMMA MarketCases ==
    /\ MarketOf("OCCUPIED") = "let" /\ MarketOf("DELETED") = "gone"
    /\ \A st \in UnitStatus \ {"OCCUPIED"} : MarketOf(st) \in Letting!Empty
    /\ \A st \in UnitStatus \cup {"DELETED"} : MarketOf(st) = "gone" <=> st = "DELETED"
    /\ \A st \in Leasable : MarketOf(st) = "free"
BY DEF MarketOf, Leasable, UnitStatus, Letting!Empty

LEMMA CreateIsMoveIn ==
    ASSUME ClerkInv, NEW c \in Clients, CommitCreate(c)
    PROVE  \E l \in Leases, u \in Units : Letting!MoveIn(l, u)
PROOF
<1> DEFINE r == request[c]
<1>0. OccupancyInv /\ TypeOK /\ Doing(c, "create")
  BY DEF ClerkInv, OccupancyInv, CommitCreate
<1>1. PICK u \in Units, e \in EndDates \cup {None} : u = r.unit /\ e = r.end
  BY <1>0, InHand, RequestFields
<1> DEFINE row == [unit |-> u, end |-> e, status |-> "ACTIVE"]
<1>2. PICK l \in Leases \ Signed :
         /\ unit[u] # "DELETED"
         /\ lease' = [lease EXCEPT ![l] = row]
         /\ unit' = [unit EXCEPT ![u] = "OCCUPIED"]
  BY <1>1 DEF CommitCreate, Occupy
<1>3. unit[u] \in Leasable
  BY <1>0, <1>1, <1>2 DEF ClerkInv, ReadStillHolds
<1>4. HeldOn(u) = {} /\ \A k \in Signed : lease[k].unit = u => Closed(k)
  BY <1>3 DEF ClerkInv, UnitFollowsLease, Leasable, HeldOn
<1>5. row \in LeaseRow /\ row.unit = u /\ row.status = "ACTIVE"
  BY DEF LeaseRow, LeaseStatus
<1> HIDE DEF row
<1>6. /\ lease'[l] = row
      /\ Signed' = Signed \cup {l}
      /\ \A k \in Signed : lease'[k] = lease[k] /\ k # l
      /\ \A k \in Leases \ {l} : k \in Signed' <=> k \in Signed
  BY <1>0, <1>2, <1>5, OccupancyConstants DEF TypeOK, Signed
<1>7. \A v \in Units : HeldOn(v)' = IF v = u THEN {l} ELSE HeldOn(v)
  BY <1>4, <1>5, <1>6 DEF HeldOn, Closed
<1>8. Homes[l] = None /\ Homes' = [Homes EXCEPT ![l] = u]
  BY <1>5, <1>6 DEF Homes
<1>9. Market[u] = "free" /\ Market' = [Market EXCEPT ![u] = "let"]
  <2>1. \A v \in Units : unit'[v] = IF v = u THEN "OCCUPIED" ELSE unit[v]
    BY <1>0, <1>2 DEF TypeOK
  <2> QED
    BY <1>3, <2>1, MarketCases DEF Market
<1>10. Tenants' = [Tenants EXCEPT ![u] = l]
  <2>1. \A v \in Units : Tenants'[v] = IF v = u THEN l ELSE Tenants[v]
    BY <1>7, OnlyOne DEF Tenants
  <2>2. Tenants' = [v \in Units |-> Tenants'[v]] /\ Tenants = [v \in Units |-> Tenants[v]]
    BY DEF Tenants
  <2> QED
    BY <2>1, <2>2
<1> QED
  BY <1>8, <1>9, <1>10 DEF Letting!MoveIn

LEMMA TerminateIsMoveOut ==
    ASSUME ClerkInv, NEW c \in Clients, CommitTerminate(c)
    PROVE  \E l \in Leases : Letting!MoveOut(l)
PROOF
<1>0. OccupancyInv /\ TypeOK
  BY DEF ClerkInv, OccupancyInv
<1>1. PICK l \in Signed, st \in {"VACANT", "MAINTENANCE"} :
         /\ l = request[c].lease /\ st = request[c].status
         /\ l \in Leases /\ ~Closed(l)
  BY <1>0, InHand, RequestFields DEF CommitTerminate, ClerkInv, ReadStillHolds
<1>2. PICK u \in Units :
         /\ u = lease[l].unit /\ u # None /\ lease[l] \in LeaseRow
         /\ lease \in [Leases -> LeaseRow \cup {None}]
         /\ unit \in [Units -> UnitStatus \cup {"DELETED"}]
  BY <1>0, <1>1, SignedRow, OccupancyConstants DEF TypeOK
<1>3. /\ lease' = [lease EXCEPT ![l].status = "TERMINATED"]
      /\ unit' = [unit EXCEPT ![u] = st]
  BY <1>1, <1>2 DEF CommitTerminate
<1>4. /\ lease'[l] \in LeaseRow
      /\ lease'[l].unit = u
      /\ lease'[l].status = "TERMINATED"
      /\ \A k \in Leases \ {l} : lease'[k] = lease[k]
  BY <1>1, <1>2, <1>3 DEF LeaseRow, LeaseStatus
<1>5. Signed' = Signed
  BY <1>1, <1>4, OccupancyConstants DEF Signed
<1>6. HeldOn(u) = {l}
  BY <1>1, <1>2 DEF ClerkInv, OneTenantPerUnit, HeldOn
<1>7. \A v \in Units : HeldOn(v)' = IF v = u THEN {} ELSE HeldOn(v)
  <2>1. \A v \in Units : HeldOn(v)' = HeldOn(v) \ {l}
    BY <1>4, <1>5 DEF HeldOn, Closed, Signed
  <2>2. \A v \in Units \ {u} : l \notin HeldOn(v)
    BY <1>2 DEF HeldOn
  <2>3. ASSUME NEW v \in Units PROVE HeldOn(v) \ {l} = IF v = u THEN {} ELSE HeldOn(v)
    BY <1>6, <2>2
  <2> QED
    BY <2>1, <2>3
<1>8. Homes[l] = u /\ Homes' = Homes
  <2>1. \A k \in Signed : lease'[k].unit = lease[k].unit
    BY <1>2, <1>4 DEF Signed
  <2>2. Homes[l] = u
    BY <1>1, <1>2 DEF Homes
  <2> QED
    BY <1>5, <2>1, <2>2 DEF Homes
<1>9. Tenants[u] = l /\ Tenants' = [Tenants EXCEPT ![u] = None]
  <2>1. \A v \in Units : Tenants'[v] = IF v = u THEN None ELSE Tenants[v]
    BY <1>7 DEF Tenants
  <2>2. Tenants' = [v \in Units |-> Tenants'[v]] /\ Tenants = [v \in Units |-> Tenants[v]]
    BY DEF Tenants
  <2>3. Tenants[u] = l
    BY <1>6, OnlyOne DEF Tenants
  <2> QED
    BY <2>1, <2>2, <2>3
<1>10. \E m \in Letting!Empty : Market' = [Market EXCEPT ![u] = m]
  <2> DEFINE m == MarketOf(st)
  <2>1. m \in Letting!Empty
    BY <1>1, MarketCases DEF UnitStatus
  <2>2. \A v \in Units : unit'[v] = IF v = u THEN st ELSE unit[v]
    BY <1>2, <1>3
  <2>3. Market' = [Market EXCEPT ![u] = m]
    BY <2>2 DEF Market
  <2> QED
    BY <2>1, <2>3
<1> QED
  BY <1>1, <1>2, <1>8, <1>9, <1>10 DEF Letting!MoveOut

LEMMA StatusIsSetAside ==
    ASSUME ClerkInv, NEW c \in Clients, CommitStatus(c)
    PROVE  \E u \in Units : Letting!SetAside(u)
PROOF
<1> DEFINE u == request[c].unit
           st == request[c].status
<1>1. /\ OccupancyInv /\ TypeOK /\ Doing(c, "setStatus")
      /\ unit[u] # "DELETED" /\ lease' = lease /\ unit' = [unit EXCEPT ![u] = st]
  BY DEF ClerkInv, OccupancyInv, CommitStatus
<1>2. u \in Units /\ st \in UnitStatus \ {"OCCUPIED"} /\ unit[u] # "OCCUPIED"
  BY <1>1, InHand, RequestFields, OccupancyConstants DEF ClerkInv, ReadStillHolds
<1>3. unit[u] \in UnitStatus \ {"OCCUPIED"}
  BY <1>1, <1>2 DEF TypeOK
<1> HIDE DEF u, st
<1>4. UNCHANGED <<Homes, Tenants>> /\ Market' = [Market EXCEPT ![u] = MarketOf(st)]
  BY <1>1, <1>2, UnitWritten
<1>5. Market[u] \in Letting!Empty /\ MarketOf(st) \in Letting!Empty
  BY <1>2, <1>3, MarketCases, BookEntries
<1> QED
  BY <1>2, <1>4, <1>5 DEF Letting!SetAside

LEMMA RemoveIsRemove ==
    ASSUME ClerkInv, NEW c \in Clients, CommitRemove(c)
    PROVE  (\E u \in Units : Letting!Remove(u)) \/ UNCHANGED <<Homes, Tenants, Market>>
PROOF
<1> DEFINE u == request[c].unit
<1>1. /\ OccupancyInv /\ TypeOK /\ Doing(c, "remove") /\ NoLeaseOf(u)
      /\ lease' = lease /\ unit' = [unit EXCEPT ![u] = "DELETED"]
  BY DEF ClerkInv, OccupancyInv, CommitRemove
<1>2. u \in Units
  BY <1>1, InHand, RequestFields
<1>3. HeldOn(u) = {} /\ unit[u] \in UnitStatus \cup {"DELETED"} /\ unit[u] # "OCCUPIED"
  BY <1>1, <1>2 DEF NoLeaseOf, HeldOn, ClerkInv, UnitFollowsLease, TypeOK
<1> HIDE DEF u
<1>4. UNCHANGED <<Homes, Tenants>> /\ Market' = [Market EXCEPT ![u] = "gone"]
  BY <1>1, <1>2, UnitWritten, MarketCases
<1>5. \A l \in Leases : Homes[l] # u
  BY <1>1, <1>2, OccupancyConstants DEF Homes, NoLeaseOf
<1>6. CASE unit[u] = "DELETED"
  <2>1. Market[u] = "gone"
    BY <1>2, <1>6, MarketCases, BookEntries
  <2>2. Market' = Market
    BY <1>4, <2>1 DEF Market
  <2> QED
    BY <1>4, <2>2
<1>7. CASE unit[u] # "DELETED"
  <2>1. Market[u] \in Letting!Empty
    BY <1>2, <1>3, <1>7, MarketCases, BookEntries
  <2> QED
    BY <1>2, <1>4, <1>5, <2>1 DEF Letting!Remove
<1> QED
  BY <1>6, <1>7

LEMMA StepIsLetting ==
    ASSUME ClerkInv, [Next]_vars
    PROVE  [Letting!Next]_(Letting!bookVars)
PROOF
<1>0. OccupancyInv
  BY DEF ClerkInv
<1>1. ASSUME NobodyMoves PROVE UNCHANGED Letting!bookVars
  BY <1>1, StandStill DEF Letting!bookVars
<1>2. ASSUME NEW c \in Clients, ClientStep(c) PROVE [Letting!Next]_(Letting!bookVars)
  <2>1. CASE Reading(c)
    <3>1. UNCHANGED <<unit, lease>>
      BY <1>0, <2>1, ReadingKeeps
    <3>2. NobodyMoves
      BY <3>1 DEF NobodyMoves, Signed, Closed
    <3> QED
      BY <1>1, <3>2
  <2>2. CASE CommitCreate(c)
    BY <2>2, CreateIsMoveIn DEF Letting!Next
  <2>3. CASE CommitUpdate(c) \/ CommitRenew(c)
    BY <1>0, <1>1, <2>3, TermsMoveNobody
  <2>4. CASE CommitTerminate(c)
    BY <2>4, TerminateIsMoveOut DEF Letting!Next
  <2>5. CASE CommitStatus(c)
    BY <2>5, StatusIsSetAside DEF Letting!Next
  <2>6. CASE CommitRemove(c)
    BY <2>6, RemoveIsRemove DEF Letting!Next, Letting!bookVars
  <2> QED
    BY <1>2, <2>1, <2>2, <2>3, <2>4, <2>5, <2>6 DEF ClientStep, Reading
<1>3. CASE JobStep \/ Tick \/ UNCHANGED vars
  BY <1>0, <1>1, <1>3, JobMovesNobody
<1> QED
  BY <1>2, <1>3 DEF Next

\* As long as no two moves are under way on one unit, every commit of a move-in, a
\* move-out, a status or a removal is one step of the letting book, and nothing
\* else is any: not an edit or a renewal, however stale what it read, and not the
\* nightly job, wherever it stops.
THEOREM OccupancyImplementsBook == Spec /\ []MovesApart => ImplementsLetting
PROOF
<1>1. Init => Letting!Init
  BY MarketCases DEF Init, Letting!Init, Homes, Tenants, Market, HeldOn, Signed, Leasable
<1>2. ClerkInv /\ [Next]_vars => [Letting!Next]_(Letting!bookVars)
  BY StepIsLetting
<1> QED
  BY <1>1, <1>2, ClerkSafe, PTL DEF Spec, ImplementsLetting, Letting!Spec

-----------------------------------------------------------------------------
(* What the screens say.                                                   *)

\* The writers of a status or of an end leave no EXPIRED lease without an end.
LEMMA ExpiredStep ==
    ASSUME OccupancyInv, ExpiredHasEnd, [Next]_vars
    PROVE  ExpiredHasEnd'
PROOF
<1>0. TypeOK /\ lease \in [Leases -> LeaseRow \cup {None}]
  BY DEF OccupancyInv, TypeOK
<1>1. ASSUME lease' = lease PROVE ExpiredHasEnd'
  BY <1>1 DEF ExpiredHasEnd, Signed
<1>2. ASSUME NEW l \in Leases, NEW row,
             row.status = "EXPIRED" => row.end # None,
             lease' = [lease EXCEPT ![l] = row]
      PROVE  ExpiredHasEnd'
  <2>1. lease'[l] = row /\ \A k \in Leases \ {l} : lease'[k] = lease[k]
    BY <1>0, <1>2
  <2> QED
    BY <1>2, <2>1 DEF ExpiredHasEnd, Signed
<1>3. ASSUME NEW c \in Clients, ClientStep(c) PROVE ExpiredHasEnd'
  <2> DEFINE r == request[c]
  <2>1. CASE Reading(c)
    BY <2>1, <1>1, ReadingKeeps
  <2>2. CASE CommitStatus(c) \/ CommitRemove(c)
    BY <2>2, <1>1 DEF CommitStatus, CommitRemove
  <2>3. CASE CommitCreate(c)
    <3> DEFINE row == [unit |-> r.unit, end |-> r.end, status |-> "ACTIVE"]
    <3>1. PICK l \in Leases : lease' = [lease EXCEPT ![l] = row]
      BY <2>3 DEF CommitCreate
    <3>2. row.status # "EXPIRED"
      OBVIOUS
    <3> QED
      BY <1>2, <3>1, <3>2
  <2>4. CASE CommitUpdate(c)
    <3> DEFINE row == [lease[r.lease] EXCEPT !.end = r.end]
    <3>1. r.lease \in Signed /\ r.lease \in Leases /\ r.end \in EndDates
      BY <2>4, InHand, RequestFields DEF CommitUpdate
    <3>2. lease[r.lease] \in LeaseRow
      BY <1>0, <3>1, SignedRow
    <3>3. row.end # None
      BY <3>1, <3>2, OccupancyConstants DEF LeaseRow
    <3>4. lease' = [lease EXCEPT ![r.lease] = row]
      BY <2>4 DEF CommitUpdate
    <3> HIDE DEF row
    <3> QED
      BY <1>2, <3>1, <3>3, <3>4
  <2>5. CASE CommitRenew(c)
    <3> DEFINE row == [lease[r.lease] EXCEPT !.end = r.end, !.status = "ACTIVE"]
    <3>1. r.lease \in Signed /\ r.lease \in Leases
      BY <2>5, InHand DEF CommitRenew
    <3>2. lease[r.lease] \in LeaseRow
      BY <1>0, <3>1, SignedRow
    <3>3. row.status = "ACTIVE"
      BY <3>2 DEF LeaseRow
    <3>4. lease' = [lease EXCEPT ![r.lease] = row]
      BY <2>5, <3>2 DEF CommitRenew, LeaseRow
    <3> HIDE DEF row
    <3> QED
      BY <1>2, <3>1, <3>3, <3>4
  <2>6. CASE CommitTerminate(c)
    <3> DEFINE row == [lease[r.lease] EXCEPT !.status = "TERMINATED"]
    <3>1. r.lease \in Signed /\ r.lease \in Leases
      BY <2>6, InHand DEF CommitTerminate
    <3>2. lease[r.lease] \in LeaseRow
      BY <1>0, <3>1, SignedRow
    <3>3. row.status = "TERMINATED"
      BY <3>2 DEF LeaseRow
    <3>4. lease' = [lease EXCEPT ![r.lease] = row]
      BY <2>6 DEF CommitTerminate
    <3> HIDE DEF row
    <3> QED
      BY <1>2, <3>1, <3>3, <3>4
  <2> QED
    BY <1>3, <2>1, <2>2, <2>3, <2>4, <2>5, <2>6 DEF ClientStep, Reading
<1>4. ASSUME NEW S \in SUBSET Signed, NEW st \in LeaseStatus, SetStatus(S, st),
             st = "EXPIRED" => \A l \in S : lease[l].end # None
      PROVE  ExpiredHasEnd'
  <2>1. Signed' = Signed
    BY <1>0, <1>4, StatusTyped DEF Signed
  <2>2. \A l \in Signed : /\ lease'[l].end = lease[l].end
                          /\ lease'[l].status = IF l \in S THEN st ELSE lease[l].status
    BY <1>0, <1>4, StatusTyped
  <2> QED
    BY <1>4, <2>1, <2>2 DEF ExpiredHasEnd
<1>5. CASE JobStep
  <2>1. CASE ExpireLapsed
    BY <2>1, <1>4, JobSets DEF ExpireLapsed, Lapsed, LeaseStatus
  <2>2. CASE FlagExpiring
    BY <2>2, <1>4, JobSets DEF FlagExpiring, LeaseStatus
  <2>3. CASE ClearFlags
    BY <2>3, <1>4, JobSets DEF ClearFlags, LeaseStatus
  <2>4. CASE JobStart \/ ClearRefused \/ JobAbort
    BY <2>4, <1>1 DEF JobStart, ClearRefused, JobAbort, JobEnds
  <2> QED
    BY <1>5, <2>1, <2>2, <2>3, <2>4 DEF JobStep
<1>6. CASE Tick \/ UNCHANGED vars
  BY <1>1, <1>6 DEF Tick, vars
<1> QED
  BY <1>3, <1>5, <1>6 DEF Next

\* The units there are, and the statuses and properties they are counted by.
Standing == {u \in Units : unit[u] # "DELETED"}
OccupiedUnits == {u \in Standing : unit[u] = "OCCUPIED"}

LEMMA CountedBy ==
    /\ IsFiniteSet(UnitStatus) /\ IsFiniteSet(Properties) /\ IsFiniteSet(Standing)
    /\ \A u \in Standing : PropertyOf[u] \in Properties
    /\ UnitsIn(Properties) = Standing
PROOF
<1>1. IsFiniteSet(Standing)
  <2>1. Standing \in SUBSET Units
    BY DEF Standing
  <2> QED
    BY <2>1, FS_Subset, FigureConstants
<1>2. IsFiniteSet(Properties)
  <2> DEFINE f == [u \in Units |-> PropertyOf[u]]
  <2>1. f \in Surjection(Units, Properties)
    BY DEF Surjection, Properties
  <2> HIDE DEF f
  <2> QED
    BY <2>1, FS_Surjection, FigureConstants
<1>3. IsFiniteSet(UnitStatus)
  <2>1. IsFiniteSet({"VACANT"} \cup {"RESERVED"})
    BY FS_Singleton, FS_Union
  <2>2. IsFiniteSet(({"VACANT"} \cup {"RESERVED"}) \cup {"OCCUPIED"})
    BY <2>1, FS_Singleton, FS_Union
  <2>3. IsFiniteSet({"MAINTENANCE"} \cup {"UNAVAILABLE"})
    BY FS_Singleton, FS_Union
  <2>4. IsFiniteSet((({"VACANT"} \cup {"RESERVED"}) \cup {"OCCUPIED"})
                     \cup ({"MAINTENANCE"} \cup {"UNAVAILABLE"}))
    BY <2>2, <2>3, FS_Union
  <2>5. UnitStatus = (({"VACANT"} \cup {"RESERVED"}) \cup {"OCCUPIED"})
                     \cup ({"MAINTENANCE"} \cup {"UNAVAILABLE"})
    BY DEF UnitStatus
  <2> QED
    BY <2>4, <2>5
<1> QED
  BY <1>1, <1>2, <1>3 DEF Standing, UnitsIn, Properties

\* The counts by status add up to the units counted.
LEMMA TotalIsAll ==
    ASSUME TypeOK, NEW ps
    PROVE  /\ IsFiniteSet(UnitsIn(ps))
           /\ TotalOf(Counts(ps)) = Cardinality(UnitsIn(ps))
PROOF
<1> DEFINE S == UnitsIn(ps)
           part == [s \in UnitStatus |-> {u \in S : unit[u] = s}]
           sizes == Counts(ps)
<1>1. S \in SUBSET Units /\ \A u \in S : unit[u] \in UnitStatus
  BY DEF UnitsIn, TypeOK
<1>2. IsFiniteSet(S)
  BY <1>1, FS_Subset, FigureConstants
<1>3. \A s \in UnitStatus : /\ part[s] = {u \in S : unit[u] = s}
                            /\ sizes[s] = Cardinality(part[s])
  BY DEF Counts
<1>4. DOMAIN sizes = UnitStatus
  BY DEF Counts
<1> HIDE DEF S, part, sizes
<1>5. SumFunctionOnSet(sizes, UnitStatus) = Cardinality(S)
  BY <1>1, <1>2, <1>3, CountedBy, CountByGroup
<1> QED
  BY <1>2, <1>4, <1>5 DEF TotalOf, SumFunction, S, sizes

\* The occupied units of some properties, and the leases not moved out of there.
OccupiedIn(ps) == {u \in UnitsIn(ps) : unit[u] = "OCCUPIED"}
HeldIn(ps) == {l \in Signed : ~Closed(l) /\ PropertyOf[lease[l].unit] \in ps}

\* The rows of the report add up to the units of the properties shown.
LEMMA RowsAddUp ==
    ASSUME TypeOK, NEW archived
    PROVE  LET report == OccupancyReport(archived)  shown == Properties \ archived IN
           /\ report.total = Cardinality(UnitsIn(shown))
           /\ report.occupied = Cardinality(OccupiedIn(shown))
           /\ report.vacant = Cardinality(UnitsIn(shown)) - Cardinality(OccupiedIn(shown))
           /\ \A p \in shown : report.rows[p].counts["OCCUPIED"] = Cardinality(OccupiedIn({p}))
PROOF
<1> DEFINE shown == Properties \ archived
           all == UnitsIn(shown)
           let == OccupiedIn(shown)
           propertyOf == [u \in all |-> PropertyOf[u]]
           totals == [p \in shown |-> TotalOf(Counts({p}))]
           filled == [p \in shown |-> Counts({p})["OCCUPIED"]]
           allIn == [p \in shown |-> {u \in all : propertyOf[u] = p}]
           letIn == [p \in shown |-> {u \in let : propertyOf[u] = p}]
<1>1. IsFiniteSet(shown) /\ IsFiniteSet(all) /\ IsFiniteSet(let) /\ let \subseteq all
  <2>1. shown \in SUBSET Properties /\ all \in SUBSET Units /\ let \in SUBSET Units
    BY DEF UnitsIn, OccupiedIn
  <2> QED
    BY <2>1, FS_Subset, CountedBy, FigureConstants DEF OccupiedIn
<1>2. \A u \in all : propertyOf[u] \in shown
  BY DEF UnitsIn
<1>3. \A p \in shown : /\ allIn[p] = {u \in all : propertyOf[u] = p}
                       /\ totals[p] = Cardinality(allIn[p])
  <2> SUFFICES ASSUME NEW p \in shown
               PROVE  TotalOf(Counts({p})) = Cardinality({u \in all : propertyOf[u] = p})
    OBVIOUS
  <2>1. UnitsIn({p}) = {u \in all : propertyOf[u] = p}
    BY DEF UnitsIn
  <2> QED
    BY <2>1, TotalIsAll
<1>4. \A p \in shown : /\ letIn[p] = {u \in let : propertyOf[u] = p}
                       /\ filled[p] = Cardinality(letIn[p])
                       /\ filled[p] = Cardinality(OccupiedIn({p}))
  <2> SUFFICES ASSUME NEW p \in shown
               PROVE  /\ Counts({p})["OCCUPIED"] = Cardinality({u \in let : propertyOf[u] = p})
                      /\ Counts({p})["OCCUPIED"] = Cardinality(OccupiedIn({p}))
    OBVIOUS
  <2>1. OccupiedIn({p}) = {u \in let : propertyOf[u] = p}
    BY DEF UnitsIn, OccupiedIn
  <2> QED
    BY <2>1 DEF Counts, UnitStatus, OccupiedIn
<1>5. DOMAIN totals = shown /\ DOMAIN filled = shown
  OBVIOUS
<1>6. LET report == OccupancyReport(archived) IN
      /\ report.total = SumFunction(totals)
      /\ report.occupied = SumFunction(filled)
      /\ report.vacant = SumFunction(totals) - SumFunction(filled)
      /\ \A p \in shown : report.rows[p].counts["OCCUPIED"] = filled[p]
  BY DEF OccupancyReport
<1> HIDE DEF totals, filled, allIn, letIn, all, let, shown, propertyOf
<1>7. SumFunctionOnSet(totals, shown) = Cardinality(all)
  BY <1>1, <1>2, <1>3, CountByGroup
<1>8. SumFunctionOnSet(filled, shown) = Cardinality(let)
  <2>1. \A u \in let : propertyOf[u] \in shown
    BY <1>1, <1>2
  <2>2. /\ \A p \in shown : letIn[p] = {u \in let : propertyOf[u] = p}
        /\ \A p \in shown : filled[p] = Cardinality(letIn[p])
    BY <1>4
  <2> QED
    BY <1>1, <2>1, <2>2, CountByGroup
<1> QED
  BY <1>4, <1>5, <1>6, <1>7, <1>8 DEF SumFunction, shown, all, let

\* The leases not moved out of, each on an occupied unit of its own, and every
\* occupied unit behind one: in any choice of properties.
LEMMA TenantsAndUnits ==
    ASSUME ClerkInv, ExpiredHasEnd, NEW ps \in SUBSET Properties
    PROVE  /\ TenantsIn(ps) = HeldIn(ps)
           /\ IsFiniteSet(HeldIn(ps))
           /\ Cardinality(HeldIn(ps)) = Cardinality(OccupiedIn(ps))
PROOF
<1> DEFINE held == HeldIn(ps)
           home == [l \in held |-> lease[l].unit]
<1>0. TypeOK /\ IsFiniteSet(OccupiedIn(ps))
  <2>1. OccupiedIn(ps) \in SUBSET Units
    BY DEF OccupiedIn, UnitsIn
  <2> QED
    BY <2>1, FS_Subset, FigureConstants DEF ClerkInv, OccupancyInv
<1>1. TenantsIn(ps) = held
  <2>1. \A l \in Signed : lease[l].status \in LeaseStatus
    BY <1>0, SignedRow
  <2> QED
    BY <2>1 DEF TenantsIn, HeldIn, Housed, LeaseExpiryReport, Live, LeaseStatus, Closed,
        ExpiredHasEnd
<1>2. \A l \in held : lease[l].unit \in OccupiedIn(ps)
  <2> SUFFICES ASSUME NEW l \in held PROVE lease[l].unit \in OccupiedIn(ps)
    OBVIOUS
  <2>1. lease[l].unit \in Units /\ PropertyOf[lease[l].unit] \in ps
    BY <1>0, SignedRow DEF HeldIn
  <2>2. unit[lease[l].unit] = "OCCUPIED"
    BY <2>1 DEF ClerkInv, UnitFollowsLease, HeldOn, HeldIn
  <2> QED
    BY <2>1, <2>2 DEF OccupiedIn, UnitsIn
<1>3. \A u \in OccupiedIn(ps) : \E l \in held : lease[l].unit = u
  BY DEF ClerkInv, UnitFollowsLease, HeldOn, HeldIn, OccupiedIn, UnitsIn
<1>4. \A l, k \in held : lease[l].unit = lease[k].unit => l = k
  BY DEF ClerkInv, OneTenantPerUnit, HeldIn
<1>5. home \in Injection(held, OccupiedIn(ps)) /\ home \in Surjection(held, OccupiedIn(ps))
  BY <1>2, <1>3, <1>4 DEF Injection, IsInjective, Surjection
<1> HIDE DEF home, held
<1>6. IsFiniteSet(held) /\ Cardinality(held) = Cardinality(OccupiedIn(ps))
  BY <1>0, <1>5, FS_Injection
<1> QED
  BY <1>1, <1>6 DEF held

\* What two disjoint choices of units come to together.
LEMMA TwoParts ==
    ASSUME NEW S, IsFiniteSet(S), NEW P \in SUBSET S, NEW Q \in SUBSET S, P \cap Q = {}
    PROVE  /\ Cardinality(P \cup Q) = Cardinality(P) + Cardinality(Q)
           /\ Cardinality(P) + Cardinality(Q) <= Cardinality(S)
           /\ Cardinality(P) \in Nat /\ Cardinality(Q) \in Nat /\ Cardinality(S) \in Nat
PROOF
<1>1. IsFiniteSet(P) /\ IsFiniteSet(Q) /\ P \cup Q \in SUBSET S
  BY FS_Subset
<1>2. Cardinality(P) \in Nat /\ Cardinality(Q) \in Nat /\ Cardinality(S) \in Nat
  BY <1>1, FS_CardinalityType
<1>3. Cardinality(P \cup Q) = Cardinality(P) + Cardinality(Q) - Cardinality(P \cap Q)
  BY <1>1, FS_Union
<1>4. Cardinality(P \cap Q) = 0
  BY FS_EmptySet
<1>5. Cardinality(P \cup Q) <= Cardinality(S)
  BY <1>1, FS_Subset
<1> QED
  BY <1>2, <1>3, <1>4, <1>5

\* Housed tenants of a property are behind occupied units of it.
LEMMA HousedFit ==
    ASSUME ClerkInv, ExpiredHasEnd, NEW p \in Properties
    PROVE  Cardinality({l \in Housed : PropertyOf[lease[l].unit] = p})
               <= Cardinality(OccupiedIn({p}))
PROOF
<1> DEFINE housed == {l \in Housed : PropertyOf[lease[l].unit] = p}
<1>1. {p} \in SUBSET Properties /\ housed \subseteq TenantsIn({p})
  BY DEF TenantsIn
<1>2. /\ TenantsIn({p}) = HeldIn({p}) /\ IsFiniteSet(HeldIn({p}))
      /\ Cardinality(HeldIn({p})) = Cardinality(OccupiedIn({p}))
  BY <1>1, TenantsAndUnits
<1> HIDE DEF housed
<1>3. Cardinality(housed) <= Cardinality(HeldIn({p}))
  BY <1>1, <1>2, FS_Subset
<1> QED
  BY <1>2, <1>3 DEF housed

LEMMA FiguresTold ==
    ASSUME ClerkInv, ExpiredHasEnd
    PROVE  OccupancyTold
PROOF
<1>0. TypeOK /\ IsFiniteSet(Standing)
  BY CountedBy DEF ClerkInv, OccupancyInv
<1>1. ASSUME NEW archived \in SUBSET Properties
      PROVE  LET units == DashboardUnits
                 report == OccupancyReport(archived)
                 hidden == Counts(archived)
                 shown == Properties \ archived
             IN
             /\ units.total = report.total + TotalOf(hidden)
             /\ units.counts["OCCUPIED"] = report.occupied + hidden["OCCUPIED"]
             /\ report.vacant >= Counts(shown)["VACANT"]
             /\ report.occupied = Cardinality(TenantsIn(shown))
             /\ \A p \in shown : Cardinality({l \in Housed : PropertyOf[lease[l].unit] = p})
                                    <= report.rows[p].counts["OCCUPIED"]
  <2> DEFINE shown == Properties \ archived
             report == OccupancyReport(archived)
             vacant == {u \in UnitsIn(shown) : unit[u] = "VACANT"}
  <2>1. /\ DashboardUnits.total = Cardinality(Standing)
        /\ DashboardUnits.counts["OCCUPIED"] = Cardinality(OccupiedUnits)
        /\ TotalOf(Counts(archived)) = Cardinality(UnitsIn(archived))
        /\ Counts(archived)["OCCUPIED"] = Cardinality(OccupiedIn(archived))
        /\ Counts(shown)["VACANT"] = Cardinality(vacant)
    BY <1>0, TotalIsAll, CountedBy DEF DashboardUnits, Counts, OccupiedUnits, OccupiedIn, UnitStatus
  <2>2. /\ report.total = Cardinality(UnitsIn(shown))
        /\ report.occupied = Cardinality(OccupiedIn(shown))
        /\ report.vacant = Cardinality(UnitsIn(shown)) - Cardinality(OccupiedIn(shown))
        /\ \A p \in shown : report.rows[p].counts["OCCUPIED"] = Cardinality(OccupiedIn({p}))
    BY <1>0, RowsAddUp
  <2>3. /\ Standing = UnitsIn(shown) \cup UnitsIn(archived)
        /\ UnitsIn(shown) \cap UnitsIn(archived) = {}
        /\ UnitsIn(shown) \in SUBSET Standing /\ UnitsIn(archived) \in SUBSET Standing
    BY DEF Standing, UnitsIn, Properties
  <2>4. /\ OccupiedUnits = OccupiedIn(shown) \cup OccupiedIn(archived)
        /\ OccupiedIn(shown) \cap OccupiedIn(archived) = {}
        /\ OccupiedIn(shown) \in SUBSET Standing /\ OccupiedIn(archived) \in SUBSET Standing
    BY DEF OccupiedUnits, OccupiedIn, Standing, UnitsIn, Properties
  <2>5. /\ Cardinality(Standing) = Cardinality(UnitsIn(shown)) + Cardinality(UnitsIn(archived))
        /\ Cardinality(OccupiedUnits)
              = Cardinality(OccupiedIn(shown)) + Cardinality(OccupiedIn(archived))
    <3> HIDE DEF shown
    <3>1. Cardinality(Standing) = Cardinality(UnitsIn(shown)) + Cardinality(UnitsIn(archived))
      BY <1>0, <2>3, TwoParts
    <3>2. Cardinality(OccupiedUnits)
              = Cardinality(OccupiedIn(shown)) + Cardinality(OccupiedIn(archived))
      BY <1>0, <2>4, TwoParts
    <3> QED
      BY <3>1, <3>2
  <2>6. Cardinality(UnitsIn(shown)) - Cardinality(OccupiedIn(shown)) >= Cardinality(vacant)
    <3>1. /\ IsFiniteSet(UnitsIn(shown))
          /\ vacant \in SUBSET UnitsIn(shown) /\ OccupiedIn(shown) \in SUBSET UnitsIn(shown)
          /\ OccupiedIn(shown) \cap vacant = {}
      BY <1>0, TotalIsAll DEF OccupiedIn
    <3> HIDE DEF vacant, shown
    <3>2. /\ Cardinality(OccupiedIn(shown)) + Cardinality(vacant) <= Cardinality(UnitsIn(shown))
          /\ Cardinality(OccupiedIn(shown)) \in Nat /\ Cardinality(vacant) \in Nat
          /\ Cardinality(UnitsIn(shown)) \in Nat
      BY <3>1, TwoParts
    <3> QED
      BY <3>2
  <2>7. Cardinality(OccupiedIn(shown)) = Cardinality(TenantsIn(shown))
    BY TenantsAndUnits
  <2> HIDE DEF report, vacant
  <2>8. \A p \in shown : Cardinality({l \in Housed : PropertyOf[lease[l].unit] = p})
                            <= report.rows[p].counts["OCCUPIED"]
    BY <2>2, HousedFit
  <2> QED
    BY <2>1, <2>2, <2>5, <2>6, <2>7, <2>8 DEF report
<1>2. ExpiringLeases \subseteq LeaseExpiryReport
  BY DEF ExpiringLeases, LeaseExpiryReport, Housed, Live
<1> QED
  BY <1>1, <1>2 DEF OccupancyTold

\* As long as no two moves are under way on one unit, for any portfolio, any
\* archive and any number of colleagues: the dashboard counts the units of the
\* occupancy report and those of the archived properties, each occupied unit is
\* behind one tenant on the tenant report or the renewals list, and no property
\* shows more tenants than occupied units.
THEOREM ScreensTellOccupancy == Spec /\ []MovesApart => []OccupancyTold
PROOF
<1>1. Init => ExpiredHasEnd
  BY DEF Init, ExpiredHasEnd, Signed
<1>2. ClerkInv /\ ExpiredHasEnd /\ [Next]_vars => ExpiredHasEnd'
  BY ExpiredStep DEF ClerkInv
<1>3. ClerkInv /\ ExpiredHasEnd => OccupancyTold
  BY FiguresTold
<1> QED
  BY <1>1, <1>2, <1>3, ClerkSafe, PTL DEF Spec
=============================================================================
