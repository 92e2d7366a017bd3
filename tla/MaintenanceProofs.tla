-------------------------- MODULE MaintenanceProofs --------------------------
(***************************************************************************)
(* What holds of Maintenance for every number of clients, colleagues and   *)
(* timeline entries.                                                       *)
(***************************************************************************)
EXTENDS Maintenance, TLAPS

-----------------------------------------------------------------------------
(* Requests and entries.                                                   *)

\* Each kind of request carries the fields its handler writes.
LEMMA RequestFields ==
    ASSUME NEW r \in Request
    PROVE  /\ r.op = "raise" => r.to \in JobStatus
           /\ r.op = "update" => r.cost \in Costs
           /\ r.op = "assign" => r.from \in JobStatus /\ r.staff \in Staff \cup {None}
           /\ r.op = "status" => /\ r.from \in JobStatus
                                 /\ r.to \in JobStatus
                                 /\ r.cost \in Costs \cup {None}
           /\ r.op \in {"assign", "status"} => r.since \in Nat
BY DEF Request

\* A handler under way holds a request.
LEMMA InHand ==
    ASSUME TypeOK, NEW c \in Clients, NEW op, Doing(c, op)
    PROVE  request[c] \in Request /\ request[c].op = op
BY DEF TypeOK, Doing

\* What one more entry does to the timeline.
LEMMA Written ==
    ASSUME timeline \in Seq(Entry),
           NEW from \in JobStatus \cup {None}, NEW to \in JobStatus \cup {None},
           NEW since \in Nat, Write(from, to, since)
    PROVE  /\ timeline' \in Seq(Entry)
           /\ Len(timeline) \in Nat
           /\ Len(timeline') = Len(timeline) + 1
           /\ \A i \in 1..Len(timeline) : timeline'[i] = timeline[i]
           /\ timeline'[Len(timeline) + 1] = [from |-> from, to |-> to, since |-> since]
BY DEF Write, Entry

\* The timeline only grows.
LEMMA Longer ==
    ASSUME timeline \in Seq(Entry),
           NEW from \in JobStatus \cup {None}, NEW to \in JobStatus \cup {None},
           NEW since \in Nat, Write(from, to, since)
    PROVE  Len(timeline) \in Nat /\ Len(timeline') \in Nat /\ Len(timeline) <= Len(timeline')
PROOF
<1>1. Len(timeline) \in Nat /\ Len(timeline') = Len(timeline) + 1
  BY Written
<1> QED
  BY <1>1

\* No entry is ever lost, and a move is visible in the timeline.
LEMMA VisitedGrows ==
    ASSUME timeline \in Seq(Entry),
           NEW from \in JobStatus \cup {None}, NEW to \in JobStatus \cup {None},
           NEW since \in Nat, Write(from, to, since)
    PROVE  /\ Visited("IN_PROGRESS") => Visited("IN_PROGRESS")'
           /\ to = "IN_PROGRESS" => Visited("IN_PROGRESS")'
PROOF
<1>1. /\ Len(timeline) \in Nat
      /\ Len(timeline') = Len(timeline) + 1
      /\ \A i \in 1..Len(timeline) : timeline'[i] = timeline[i]
      /\ timeline'[Len(timeline) + 1] = [from |-> from, to |-> to, since |-> since]
  BY Written
<1>2. 1..Len(timeline) \subseteq 1..Len(timeline')
  BY <1>1
<1>3. Len(timeline) + 1 \in 1..Len(timeline')
  BY <1>1
<1> QED
  BY <1>1, <1>2, <1>3 DEF Visited

\* The first entries tell what they told.
LEMMA ToldStays ==
    ASSUME timeline \in Seq(Entry),
           NEW from \in JobStatus \cup {None}, NEW to \in JobStatus \cup {None},
           NEW since \in Nat, Write(from, to, since),
           NEW n \in Nat, n <= Len(timeline), NEW status \in JobStatus \cup {None},
           ToldBy(n, status)
    PROVE  ToldBy(n, status)'
PROOF
<1>1. /\ Len(timeline) \in Nat
      /\ Len(timeline') = Len(timeline) + 1
      /\ \A i \in 1..Len(timeline) : timeline'[i] = timeline[i]
  BY Written
<1>2. \A i \in 1..Len(timeline) : i \in Moves' <=> i \in Moves
  BY <1>1 DEF Moves
<1>3. Moves \subseteq 1..Len(timeline) /\ Moves' \subseteq 1..Len(timeline')
  BY DEF Moves
<1> SUFFICES ASSUME NEW i \in Moves', i <= n, \A j \in Moves' : j <= n => j <= i
             PROVE  timeline'[i].to = status
  BY DEF ToldBy
<1>4. i \in 1..Len(timeline) /\ i \in Moves
  BY <1>1, <1>2, <1>3
<1>5. \A j \in Moves : j <= n => j <= i
  BY <1>2, <1>3
<1> QED
  BY <1>1, <1>4, <1>5 DEF ToldBy

\* A note leaves the last move where it was; a move that starts where its handler
\* found the job becomes the last one.
LEMMA EntryCommits ==
    ASSUME timeline \in Seq(Entry), CommitsChain, LastCommitDecides,
           NEW from \in JobStatus \cup {None}, NEW to \in JobStatus \cup {None},
           NEW since \in Nat, Write(from, to, since), since <= Len(timeline),
           job.status \in JobStatus,
           \/ from = None /\ job'.status = job.status
           \/ from # None /\ ToldBy(since, from) /\ job'.status = to
    PROVE  CommitsChain' /\ LastCommitDecides'
PROOF
<1>1. /\ Len(timeline) \in Nat
      /\ Len(timeline') = Len(timeline) + 1
      /\ \A i \in 1..Len(timeline) : timeline'[i] = timeline[i]
      /\ timeline'[Len(timeline) + 1] = [from |-> from, to |-> to, since |-> since]
  BY Written
<1>2. \A i \in 1..Len(timeline) : i \in Moves' <=> i \in Moves
  BY <1>1 DEF Moves
<1>3. Len(timeline) + 1 \in Moves' <=> from # None
  BY <1>1 DEF Moves
<1>4. Moves \subseteq 1..Len(timeline) /\ Moves' \subseteq 1..Len(timeline')
  BY DEF Moves
<1>5. CommitsChain'
  <2> SUFFICES ASSUME NEW i \in 1..Len(timeline')
               PROVE  /\ timeline'[i].since < i
                      /\ i \in Moves' => ToldBy(timeline[i].since, timeline[i].from)'
    BY DEF CommitsChain
  <2>1. CASE i \in 1..Len(timeline)
    <3>1. timeline[i] \in Entry /\ timeline'[i] = timeline[i]
      BY <1>1, <2>1
    <3>2. timeline[i].since \in Nat /\ timeline[i].from \in JobStatus \cup {None}
      BY <3>1 DEF Entry
    <3>3. /\ timeline[i].since < i
          /\ i \in Moves => ToldBy(timeline[i].since, timeline[i].from)
      BY <2>1 DEF CommitsChain
    <3> DEFINE n == timeline[i].since
               f == timeline[i].from
    <3>4. i \in Moves' => ToldBy(n, f)
      BY <1>2, <2>1, <3>3
    <3>5. n <= Len(timeline)
      BY <1>1, <2>1, <3>2, <3>3
    <3>6. PICK m \in Nat, g \in JobStatus \cup {None} : m = n /\ g = f
      BY <3>2
    <3>7. i \in Moves' => ToldBy(m, g)'
      BY <3>4, <3>5, <3>6, ToldStays
    <3>8. n' = m /\ f' = g
      BY <3>1, <3>6
    <3> QED
      BY <3>1, <3>3, <3>7, <3>8 DEF ToldBy
  <2>2. CASE i = Len(timeline) + 1
    <3>1. timeline'[i].since = since /\ timeline'[i].from = from
      BY <1>1, <2>2
    <3>2. ASSUME from # None PROVE ToldBy(since, from)'
      BY <3>2, ToldStays
    <3>3. i \in Moves' => ToldBy(timeline[i].since, timeline[i].from)'
      BY <1>3, <2>2, <3>1, <3>2 DEF ToldBy
    <3> QED
      BY <1>1, <2>2, <3>1, <3>3
  <2> QED
    BY <1>1, <2>1, <2>2
<1>6. LastCommitDecides'
  <2> SUFFICES ASSUME NEW i \in Moves', \A j \in Moves' : j <= Len(timeline') => j <= i
               PROVE  timeline'[i].to = job'.status
    BY DEF LastCommitDecides, ToldBy
  <2>1. CASE from = None
    <3>1. i \in Moves
      BY <1>1, <1>2, <1>3, <1>4, <2>1
    <3>2. \A j \in Moves : j <= Len(timeline) => j <= i
      BY <1>1, <1>2, <1>4
    <3> QED
      BY <1>1, <1>4, <2>1, <3>1, <3>2 DEF LastCommitDecides, ToldBy
  <2>2. CASE from # None
    <3>1. i = Len(timeline) + 1
      BY <1>1, <1>3, <1>4, <2>2
    <3> QED
      BY <1>1, <2>2, <3>1
  <2> QED
    BY <2>1, <2>2
<1> QED
  BY <1>5, <1>6

-----------------------------------------------------------------------------
(* The steps, by what they do.                                             *)

\* A refused or lost write, and every read: nothing but the request changes.
Reading(c) ==
    ReadForUpdate(c) \/ ReadForAssign(c) \/ ReadForStatus(c) \/ Abort(c)

\* What a read puts in the client's hands was true of the job.
LEMMA ReadingCarries ==
    ASSUME MaintenanceInv, NEW c \in Clients, Reading(c)
    PROVE  /\ UNCHANGED <<job, timeline, staff>>
           /\ request' \in [Clients -> Request \cup {None}]
           /\ \A d \in Clients \ {c} : request'[d] = request[d]
           /\ CarriedInv(c)'
PROOF
<1> USE MaintenanceConstants
<1>0. /\ request \in [Clients -> Request \cup {None}]
      /\ job \in Job \cup {None}
      /\ Len(timeline) \in Nat
  BY DEF MaintenanceInv, TypeOK
<1>1. CASE ReadForUpdate(c)
  <2>1. PICK x \in Costs : ~Closed /\ Ask(c, [op |-> "update", cost |-> x])
    BY <1>1 DEF ReadForUpdate
  <2>2. [op |-> "update", cost |-> x] \in Request
    BY DEF Request
  <2> QED
    BY <1>0, <2>1, <2>2 DEF Ask, CarriedInv, Doing
<1>2. CASE ReadForAssign(c)
  <2>1. PICK s \in staff \cup {None} :
           ~Closed /\ Ask(c, [op |-> "assign", from |-> job.status, staff |-> s,
                   since |-> Len(timeline)])
    BY <1>2 DEF ReadForAssign
  <2>2. job # None /\ job.status \in JobStatus \ Terminal
    BY <1>0, <2>1 DEF Ask, Job, Closed
  <2>3. [op |-> "assign", from |-> job.status, staff |-> s,
         since |-> Len(timeline)] \in Request
    BY <1>0, <2>2 DEF Request, MaintenanceInv, TypeOK
  <2>4. /\ job.status = "IN_PROGRESS" => Visited("IN_PROGRESS")
        /\ ToldBy(Len(timeline), job.status)
    BY <2>2 DEF MaintenanceInv, WorkIsVisible, LastCommitDecides
  <2>5. /\ UNCHANGED <<job, timeline, staff>>
        /\ request' \in [Clients -> Request \cup {None}]
        /\ \A d \in Clients \ {c} : request'[d] = request[d]
        /\ request'[c] = [op |-> "assign", from |-> job.status, staff |-> s,
                         since |-> Len(timeline)]
    BY <1>0, <2>1, <2>3 DEF Ask
  <2>6. /\ Doing(c, "assign")' /\ ~Doing(c, "status")'
        /\ request'[c].from = job.status /\ request'[c].since = Len(timeline)
    BY <2>3, <2>5 DEF Doing
  <2>7. /\ job.status = "IN_PROGRESS" => Visited("IN_PROGRESS")'
        /\ ToldBy(request[c].since, request[c].from)'
    BY <2>4, <2>5, <2>6 DEF Visited, ToldBy, Moves
  <2> QED
    BY <1>0, <2>2, <2>5, <2>6, <2>7 DEF CarriedInv
<1>3. CASE ReadForStatus(c)
  <2>1. PICK to \in JobStatus, x \in Costs \cup {None} :
           /\ <<job.status, to>> \in Transitions
           /\ Ask(c, [op |-> "status", from |-> job.status, to |-> to, cost |-> x,
                      since |-> Len(timeline)])
    BY <1>3 DEF ReadForStatus
  <2>2. job # None /\ job.status \in JobStatus
    BY <1>0, <2>1 DEF Ask, Job
  <2>3. [op |-> "status", from |-> job.status, to |-> to, cost |-> x,
         since |-> Len(timeline)] \in Request
    BY <1>0, <2>2 DEF Request
  <2>4. /\ job.status = "IN_PROGRESS" => Visited("IN_PROGRESS")
        /\ ToldBy(Len(timeline), job.status)
    BY <2>2 DEF MaintenanceInv, WorkIsVisible, LastCommitDecides
  <2>5. /\ UNCHANGED <<job, timeline, staff>>
        /\ request' \in [Clients -> Request \cup {None}]
        /\ \A d \in Clients \ {c} : request'[d] = request[d]
        /\ request'[c] = [op |-> "status", from |-> job.status, to |-> to, cost |-> x,
                         since |-> Len(timeline)]
    BY <1>0, <2>1, <2>3 DEF Ask
  <2>6. /\ Doing(c, "status")' /\ ~Doing(c, "assign")'
        /\ request'[c].from = job.status /\ request'[c].to = to
        /\ request'[c].since = Len(timeline)
    BY <2>3, <2>5 DEF Doing
  <2>7. /\ job.status = "IN_PROGRESS" => Visited("IN_PROGRESS")'
        /\ ToldBy(request[c].since, request[c].from)'
    BY <2>4, <2>5, <2>6 DEF Visited, ToldBy, Moves
  <2> QED
    BY <1>0, <2>1, <2>2, <2>5, <2>6, <2>7 DEF CarriedInv
<1>4. CASE Abort(c)
  BY <1>0, <1>4 DEF Abort, Finish, CarriedInv, Doing
<1> QED
  BY <1>1, <1>2, <1>3, <1>4 DEF Reading

\* What the other clients carry stays true while the timeline grows and the
\* job stays.
LEMMA CarriedKept ==
    ASSUME MaintenanceInv, NEW c \in Clients,
           \A d \in Clients \ {c} : request'[d] = request[d],
           request'[c] = None,
           job' # None,
           Visited("IN_PROGRESS") => Visited("IN_PROGRESS")',
           Len(timeline) \in Nat, Len(timeline') \in Nat, Len(timeline) <= Len(timeline'),
           \A n \in 0..Len(timeline), status \in JobStatus :
               ToldBy(n, status) => ToldBy(n, status)'
    PROVE  \A d \in Clients : CarriedInv(d)'
PROOF
<1> SUFFICES ASSUME NEW d \in Clients PROVE CarriedInv(d)'
  OBVIOUS
<1>1. CASE d = c
  BY <1>1 DEF CarriedInv, Doing
<1>2. CASE d # c
  <2>1. CarriedInv(d) /\ request'[d] = request[d]
    BY <1>2 DEF MaintenanceInv
  <2>2. CASE Doing(d, "assign") \/ Doing(d, "status")
    <3>1. PICK n \in 0..Len(timeline), f \in JobStatus :
             n = request[d].since /\ f = request[d].from /\ ToldBy(n, f)
      BY <2>1, <2>2, InHand, RequestFields DEF CarriedInv, MaintenanceInv
    <3>2. ToldBy(n, f)'
      BY <3>1
    <3>3. ToldBy(request[d].since, request[d].from)'
      BY <2>1, <3>1, <3>2 DEF ToldBy
    <3> QED
      BY <2>1, <3>1, <3>3 DEF CarriedInv, Doing
  <2>3. CASE ~(Doing(d, "assign") \/ Doing(d, "status"))
    BY <2>1, <2>3 DEF CarriedInv, Doing
  <2> QED
    BY <2>2, <2>3
<1> QED
  BY <1>1, <1>2

\* Reads and lost writes.
LEMMA ReadingStep ==
    ASSUME MaintenanceInv, NEW c \in Clients, Reading(c)
    PROVE  MaintenanceInv'
PROOF
<1>1. /\ UNCHANGED <<job, timeline, staff>>
      /\ request' \in [Clients -> Request \cup {None}]
      /\ \A d \in Clients \ {c} : request'[d] = request[d]
      /\ CarriedInv(c)'
  BY ReadingCarries
<1>2. \A d \in Clients : CarriedInv(d)'
  <2> SUFFICES ASSUME NEW d \in Clients, d # c PROVE CarriedInv(d)'
    BY <1>1
  <2>1. CarriedInv(d) /\ request'[d] = request[d]
    BY <1>1 DEF MaintenanceInv
  <2> QED
    BY <1>1, <2>1 DEF CarriedInv, Doing, Visited, ToldBy, Moves
<1>3. TypeOK'
  BY <1>1 DEF MaintenanceInv, TypeOK
<1> QED
  BY <1>1, <1>2, <1>3 DEF MaintenanceInv, WorkIsVisible, CompletedWasWorked,
       CommitsChain, LastCommitDecides, ToldBy, Moves, CompletedHasDate, AssigneeExists,
       Visited

\* A new job has no history and no one else has read it.
LEMMA CreateStep ==
    ASSUME MaintenanceInv, NEW c \in Clients, Create(c)
    PROVE  MaintenanceInv'
PROOF
<1> USE MaintenanceConstants
<1>1. PICK s \in staff \cup {None} :
         /\ job = None
         /\ request[c] = None
         /\ job' = [status |-> IF s = None THEN "PENDING" ELSE "ASSIGNED",
                    completedAt |-> FALSE, assignedTo |-> s, cost |-> None]
         /\ request' = [request EXCEPT ![c] = [op |-> "raise", to |-> job'.status]]
         /\ UNCHANGED <<timeline, staff>>
  BY DEF Create
<1>2. TypeOK /\ timeline = <<>> /\ \A d \in Clients : request[d] = None
  BY <1>1 DEF MaintenanceInv, CarriedInv
<1>3. job' \in Job /\ job' # None /\ job'.status \in {"PENDING", "ASSIGNED"}
  <2>1. PICK status \in {"PENDING", "ASSIGNED"} :
           job' = [status |-> status, completedAt |-> FALSE, assignedTo |-> s,
                   cost |-> None]
    BY <1>1
  <2>2. s \in Staff \cup {None}
    BY <1>2 DEF TypeOK
  <2>3. job' \in Job
    BY <2>1, <2>2 DEF Job, JobStatus
  <2>4. job'.status = status
    BY <2>1
  <2> QED
    BY <2>3, <2>4
<1>4. [op |-> "raise", to |-> job'.status] \in Request
  BY <1>3 DEF Request, JobStatus
<1>5. TypeOK'
  BY <1>1, <1>2, <1>3, <1>4 DEF TypeOK
<1>6. \A d \in Clients : CarriedInv(d)'
  BY <1>1, <1>2, <1>3 DEF CarriedInv, Doing, TypeOK
<1>7. CommitsChain' /\ LastCommitDecides'
  BY <1>1, <1>2 DEF CommitsChain, LastCommitDecides, ToldBy, Moves
<1>8. WorkIsVisible' /\ CompletedWasWorked'
  BY <1>3 DEF WorkIsVisible, CompletedWasWorked
<1>9. CompletedHasDate' /\ AssigneeExists'
  BY <1>1, <1>3 DEF CompletedHasDate, AssigneeExists
<1> QED
  BY <1>3, <1>5, <1>6, <1>7, <1>8, <1>9 DEF MaintenanceInv

\* Entries that move nothing: the first one, and a note.
LEMMA NoteStep ==
    ASSUME MaintenanceInv, NEW c \in Clients, WriteRaised(c) \/ AddUpdate(c)
    PROVE  MaintenanceInv'
PROOF
<1> USE MaintenanceConstants
<1>0. TypeOK /\ timeline \in Seq(Entry)
  BY DEF MaintenanceInv, TypeOK
<1>1. PICK to \in JobStatus \cup {None} : Write(None, to, 0)
  <2>1. CASE WriteRaised(c)
    BY <1>0, <2>1, InHand, RequestFields DEF WriteRaised
  <2>2. CASE AddUpdate(c)
    BY <2>2 DEF AddUpdate
  <2> QED
    BY <2>1, <2>2
<1>2. UNCHANGED <<job, staff>> /\ job # None
  <2>1. CASE WriteRaised(c)
    BY <2>1 DEF WriteRaised, Doing, MaintenanceInv, CarriedInv
  <2>2. CASE AddUpdate(c)
    BY <2>2 DEF AddUpdate
  <2> QED
    BY <2>1, <2>2
<1>3. /\ request' \in [Clients -> Request \cup {None}]
      /\ \A d \in Clients \ {c} : request'[d] = request[d]
      /\ request'[c] = None
  BY <1>0 DEF WriteRaised, AddUpdate, Finish, TypeOK
<1>4. timeline' \in Seq(Entry)
  BY <1>0, <1>1, Written
<1>5. Visited("IN_PROGRESS") => Visited("IN_PROGRESS")'
  BY <1>0, <1>1, VisitedGrows
<1>6. CommitsChain' /\ LastCommitDecides'
  BY <1>0, <1>1, <1>2, EntryCommits DEF MaintenanceInv, TypeOK, Job
<1>7. \A d \in Clients : CarriedInv(d)'
  <2>1. \A n \in 0..Len(timeline), status \in JobStatus :
            ToldBy(n, status) => ToldBy(n, status)'
    BY <1>0, <1>1, ToldStays
  <2>2. /\ Len(timeline) \in Nat /\ Len(timeline') \in Nat
        /\ Len(timeline) <= Len(timeline')
    BY <1>0, <1>1, Longer
  <2> QED
    BY <1>2, <1>3, <1>5, <2>1, <2>2, CarriedKept
<1> QED
  BY <1>0, <1>2, <1>3, <1>4, <1>5, <1>6, <1>7
  DEF MaintenanceInv, TypeOK, WorkIsVisible, CompletedWasWorked,
      CompletedHasDate, AssigneeExists

\* An edit of the fields.
LEMMA UpdateStep ==
    ASSUME MaintenanceInv, NEW c \in Clients, CommitUpdate(c)
    PROVE  MaintenanceInv'
PROOF
<1> USE MaintenanceConstants
<1>0. TypeOK /\ timeline \in Seq(Entry)
  BY DEF MaintenanceInv, TypeOK
<1>1. request[c].cost \in Costs
  BY <1>0, InHand, RequestFields DEF CommitUpdate
<1>2. /\ job \in Job
      /\ job' = [job EXCEPT !.cost = request[c].cost]
      /\ UNCHANGED <<timeline, staff>>
  BY <1>0 DEF CommitUpdate, Doing, MaintenanceInv, CarriedInv, TypeOK
<1>3. /\ job' \in Job /\ job' # None
      /\ job'.status = job.status
      /\ job'.completedAt = job.completedAt
      /\ job'.assignedTo = job.assignedTo
  BY <1>1, <1>2 DEF Job
<1>4. /\ request' \in [Clients -> Request \cup {None}]
      /\ \A d \in Clients \ {c} : request'[d] = request[d]
      /\ request'[c] = None
  BY <1>0 DEF CommitUpdate, Finish, TypeOK
<1>5. \A d \in Clients : CarriedInv(d)'
  BY <1>0, <1>2, <1>3, <1>4, CarriedKept DEF Visited, ToldBy, Moves
<1>6. job # None
  BY <1>2
<1> QED
  BY <1>0, <1>2, <1>3, <1>4, <1>5, <1>6
  DEF MaintenanceInv, TypeOK, WorkIsVisible, CompletedWasWorked, Visited,
      CommitsChain, LastCommitDecides, ToldBy, Moves, CompletedHasDate, AssigneeExists

\* An assignment never writes a terminal status, and IN_PROGRESS only if the
\* status it read was that one.
LEMMA AssignStep ==
    ASSUME MaintenanceInv, NEW c \in Clients, CommitAssign(c)
    PROVE  MaintenanceInv'
PROOF
<1> USE MaintenanceConstants
<1> DEFINE r == request[c]
           to == AssignedStatus(r.from, r.staff)
<1>0. TypeOK /\ timeline \in Seq(Entry)
  BY DEF MaintenanceInv, TypeOK
<1>1. /\ r.from \in JobStatus \ Terminal
      /\ r.from = "IN_PROGRESS" => Visited("IN_PROGRESS")
      /\ r.since \in Nat /\ r.since <= Len(timeline) /\ ToldBy(r.since, r.from)
      /\ job # None
  BY <1>0, InHand, RequestFields DEF CommitAssign, MaintenanceInv, CarriedInv, Doing
<1>2. to \in JobStatus \ Terminal /\ (to = "IN_PROGRESS" => r.from = "IN_PROGRESS")
  BY <1>1 DEF AssignedStatus, JobStatus, Terminal
<1>3. /\ r.staff \in staff \cup {None}
      /\ DateAgrees([job EXCEPT !.status = to])
      /\ job' = [job EXCEPT !.status = to, !.assignedTo = r.staff]
      /\ Write(r.from, to, r.since)
      /\ UNCHANGED staff
  BY DEF CommitAssign, WriteMove
<1>4. job \in Job /\ staff \subseteq Staff
  BY <1>0, <1>1 DEF TypeOK
<1>5. /\ job' \in Job /\ job' # None
      /\ job'.status = to
      /\ job'.completedAt = job.completedAt
      /\ job'.assignedTo = r.staff
  BY <1>2, <1>3, <1>4 DEF Job
<1>6. timeline' \in Seq(Entry)
  BY <1>0, <1>1, <1>2, <1>3, Written
<1>7. Visited("IN_PROGRESS") => Visited("IN_PROGRESS")'
  BY <1>0, <1>1, <1>2, <1>3, VisitedGrows
<1>8. CommitsChain' /\ LastCommitDecides'
  BY <1>0, <1>1, <1>2, <1>3, <1>4, <1>5, MaintenanceConstants, EntryCommits
  DEF MaintenanceInv, Job
<1>9. /\ request' \in [Clients -> Request \cup {None}]
      /\ \A d \in Clients \ {c} : request'[d] = request[d]
      /\ request'[c] = None
  BY <1>0 DEF CommitAssign, Finish, TypeOK
<1>10. \A d \in Clients : CarriedInv(d)'
  <2>1. \A n \in 0..Len(timeline), status \in JobStatus :
            ToldBy(n, status) => ToldBy(n, status)'
    BY <1>0, <1>1, <1>2, <1>3, ToldStays
  <2>2. /\ Len(timeline) \in Nat /\ Len(timeline') \in Nat
        /\ Len(timeline) <= Len(timeline')
    BY <1>0, <1>1, <1>2, <1>3, Longer
  <2> QED
    BY <1>5, <1>7, <1>9, <2>1, <2>2, CarriedKept
<1>11. TypeOK'
  BY <1>0, <1>3, <1>5, <1>6, <1>9 DEF TypeOK
<1>12. WorkIsVisible' /\ CompletedWasWorked'
  BY <1>1, <1>2, <1>5, <1>7 DEF WorkIsVisible, CompletedWasWorked, Terminal
<1>13. CompletedHasDate'
  BY <1>2, <1>3, <1>4, <1>5 DEF CompletedHasDate, DateAgrees, Job
<1>14. AssigneeExists'
  BY <1>3, <1>5 DEF AssigneeExists
<1> QED
  BY <1>5, <1>8, <1>10, <1>11, <1>12, <1>13, <1>14 DEF MaintenanceInv

\* A status change to COMPLETED left IN_PROGRESS, as the table says.
LEMMA StatusStep ==
    ASSUME MaintenanceInv, NEW c \in Clients, CommitStatus(c)
    PROVE  MaintenanceInv'
PROOF
<1> USE MaintenanceConstants
<1> DEFINE r == request[c]
<1>0. TypeOK /\ timeline \in Seq(Entry)
  BY DEF MaintenanceInv, TypeOK
<1>1. /\ r.from \in JobStatus
      /\ r.to \in JobStatus
      /\ r.cost \in Costs \cup {None}
      /\ <<r.from, r.to>> \in Transitions
      /\ r.from = "IN_PROGRESS" => Visited("IN_PROGRESS")
      /\ r.since \in Nat /\ r.since <= Len(timeline) /\ ToldBy(r.since, r.from)
      /\ job # None
  BY <1>0, InHand, RequestFields DEF CommitStatus, MaintenanceInv, CarriedInv, Doing
<1>2. r.to = "COMPLETED" => r.from = "IN_PROGRESS"
  BY <1>1 DEF Transitions
<1>3. /\ job' = [job EXCEPT !.status = r.to,
                            !.completedAt = DateOf(r.to),
                            !.cost = IF r.cost = None THEN @ ELSE r.cost]
      /\ Write(r.from, r.to, r.since)
      /\ UNCHANGED staff
  BY DEF CommitStatus, WriteMove
<1>4. job \in Job
  BY <1>0, <1>1 DEF TypeOK
<1>5. /\ job' \in Job /\ job' # None
      /\ job'.status = r.to
      /\ job'.completedAt = (r.to = "COMPLETED")
      /\ job'.assignedTo = job.assignedTo
  BY <1>1, <1>3, <1>4 DEF Job, DateOf
<1>6. timeline' \in Seq(Entry)
  BY <1>0, <1>1, <1>3, Written
<1>7. /\ Visited("IN_PROGRESS") => Visited("IN_PROGRESS")'
      /\ r.to = "IN_PROGRESS" => Visited("IN_PROGRESS")'
  BY <1>0, <1>1, <1>3, VisitedGrows
<1>8. CommitsChain' /\ LastCommitDecides'
  BY <1>0, <1>1, <1>3, <1>4, <1>5, MaintenanceConstants, EntryCommits DEF MaintenanceInv, Job
<1>9. /\ request' \in [Clients -> Request \cup {None}]
      /\ \A d \in Clients \ {c} : request'[d] = request[d]
      /\ request'[c] = None
  BY <1>0 DEF CommitStatus, Finish, TypeOK
<1>10. \A d \in Clients : CarriedInv(d)'
  <2>1. \A n \in 0..Len(timeline), status \in JobStatus :
            ToldBy(n, status) => ToldBy(n, status)'
    BY <1>0, <1>1, <1>3, ToldStays
  <2>2. /\ Len(timeline) \in Nat /\ Len(timeline') \in Nat
        /\ Len(timeline) <= Len(timeline')
    BY <1>0, <1>1, <1>3, Longer
  <2> QED
    BY <1>5, <1>7, <1>9, <2>1, <2>2, CarriedKept
<1>11. TypeOK'
  BY <1>0, <1>3, <1>5, <1>6, <1>9 DEF TypeOK
<1>12. WorkIsVisible' /\ CompletedWasWorked'
  BY <1>1, <1>2, <1>5, <1>7 DEF WorkIsVisible, CompletedWasWorked
<1>13. CompletedHasDate' /\ AssigneeExists'
  BY <1>1, <1>3, <1>5 DEF CompletedHasDate, AssigneeExists, MaintenanceInv
<1> QED
  BY <1>5, <1>8, <1>10, <1>11, <1>12, <1>13 DEF MaintenanceInv

\* An account deleted takes its assignment with it.
LEMMA StaffStep ==
    ASSUME MaintenanceInv, StaffRemoved
    PROVE  MaintenanceInv'
PROOF
<1> USE MaintenanceConstants
<1>1. PICK s \in staff : /\ staff' = staff \ {s}
                         /\ job' = Unassign(s)
                         /\ UNCHANGED <<timeline, request>>
  BY DEF StaffRemoved
<1>2. TypeOK
  BY DEF MaintenanceInv
<1>3. CASE job = None
  <2>1. job' = None
    BY <1>1, <1>3 DEF Unassign
  <2> QED
    BY <1>1, <1>2, <1>3, <2>1
    DEF MaintenanceInv, TypeOK, CarriedInv, Doing, Visited, WorkIsVisible,
        CompletedWasWorked, CommitsChain, LastCommitDecides, ToldBy, Moves, CompletedHasDate,
        AssigneeExists
<1>4. CASE job # None
  <2>1. job \in Job
    BY <1>2, <1>4 DEF TypeOK
  <2>2. /\ job' \in Job /\ job' # None
        /\ job'.status = job.status
        /\ job'.completedAt = job.completedAt
        /\ job'.assignedTo \in {job.assignedTo, None} \ {s}
    BY <1>1, <1>2, <1>4, <2>1 DEF Unassign, Job, TypeOK
  <2>3. TypeOK'
    BY <1>1, <1>2, <2>2 DEF TypeOK
  <2>4. \A d \in Clients : CarriedInv(d)'
    BY <1>1, <2>2 DEF MaintenanceInv, CarriedInv, Doing, Visited, ToldBy, Moves
  <2>5. /\ WorkIsVisible' /\ CompletedWasWorked' /\ CompletedHasDate'
        /\ CommitsChain' /\ LastCommitDecides'
    BY <1>1, <1>4, <2>2 DEF MaintenanceInv, WorkIsVisible, CompletedWasWorked,
         CommitsChain, LastCommitDecides, ToldBy, Moves, CompletedHasDate, Visited
  <2>6. AssigneeExists'
    BY <1>1, <1>4, <2>2 DEF MaintenanceInv, AssigneeExists
  <2> QED
    BY <2>2, <2>3, <2>4, <2>5, <2>6 DEF MaintenanceInv
<1> QED
  BY <1>3, <1>4

-----------------------------------------------------------------------------
(* Any number of clients.                                                  *)

\* No request, no history, everybody on the staff.
LEMMA MaintenanceInit == Init => MaintenanceInv
BY MaintenanceConstants
DEF Init, MaintenanceInv, TypeOK, CarriedInv, Doing, WorkIsVisible,
    CompletedWasWorked, CommitsChain, LastCommitDecides, ToldBy, Moves, CompletedHasDate,
    AssigneeExists, Entry

\* Every step keeps the invariant.
LEMMA MaintenanceNext == MaintenanceInv /\ [Next]_vars => MaintenanceInv'
PROOF
<1> SUFFICES ASSUME MaintenanceInv, [Next]_vars PROVE MaintenanceInv'
  OBVIOUS
<1>1. CASE \E c \in Clients : ClientStep(c)
  <2> PICK c \in Clients : ClientStep(c)
    BY <1>1
  <2> QED
    BY ReadingStep, CreateStep, NoteStep, UpdateStep, AssignStep, StatusStep
    DEF ClientStep, Reading
<1>2. CASE StaffRemoved
  BY <1>2, StaffStep
<1>3. CASE UNCHANGED vars
  BY <1>3 DEF vars, MaintenanceInv, TypeOK, CarriedInv, Doing, Visited, WorkIsVisible,
       CompletedWasWorked, CommitsChain, LastCommitDecides, ToldBy, Moves, CompletedHasDate,
       AssigneeExists
<1> QED
  BY <1>1, <1>2, <1>3 DEF Next

\* However the clients overtake one another, the types, the date of completion,
\* the assignee and the two readings of the timeline hold.
THEOREM MaintenanceSafe == Spec => []MaintenanceInv
PROOF
<1>1. Init => MaintenanceInv
  BY MaintenanceInit
<1>2. MaintenanceInv /\ [Next]_vars => MaintenanceInv'
  BY MaintenanceNext
<1> QED
  BY <1>1, <1>2, PTL DEF Spec

\* No job is ever completed that its timeline does not show being worked on.
THEOREM CompletedWasStarted == Spec => []CompletedWasWorked
PROOF
<1>1. MaintenanceInv => CompletedWasWorked
  BY DEF MaintenanceInv
<1> QED
  BY <1>1, MaintenanceSafe, PTL

\* Moves that stand next to each other in every reading were committed one after
\* the other, and the one that stands last in every reading was committed last.
LEMMA ReadingsFollowCommits ==
    ASSUME MaintenanceInv
    PROVE  TimelineTellsStatus
PROOF
<1>0. timeline \in Seq(Entry) /\ CommitsChain
  BY DEF MaintenanceInv, TypeOK
<1>1. /\ Moves \subseteq Nat
      /\ \A i \in Moves : /\ timeline[i].since \in Nat /\ timeline[i].since < i
                          /\ ToldBy(timeline[i].since, timeline[i].from)
  <2>1. Moves \subseteq 1..Len(timeline) /\ Len(timeline) \in Nat
    BY <1>0 DEF Moves
  <2>2. \A i \in 1..Len(timeline) : timeline[i].since \in Nat
    <3>1. \A i \in 1..Len(timeline) : timeline[i] \in Entry
      BY <1>0
    <3> QED
      BY <3>1 DEF Entry
  <2>3. \A i \in 1..Len(timeline) :
            /\ timeline[i].since < i
            /\ i \in Moves => ToldBy(timeline[i].since, timeline[i].from)
    BY <1>0, Zenon DEF CommitsChain
  <2>4. ASSUME NEW i \in Moves
        PROVE  /\ timeline[i].since \in Nat /\ timeline[i].since < i
               /\ ToldBy(timeline[i].since, timeline[i].from)
    BY <2>1, <2>2, <2>3, Zenon
  <2>5. Moves \subseteq Nat
    BY <2>1
  <2> QED
    BY <2>4, <2>5, Zenon
<1>2. ASSUME NEW i \in Moves, NEW j \in Moves, ReadNext(i, j)
      PROVE  timeline[j].from = timeline[i].to
  <2>1. i <= timeline[j].since
    BY <1>2 DEF ReadNext, KnownBefore
  <2>2. ASSUME NEW k \in Moves, k <= timeline[j].since PROVE k <= i
    <3>1. CASE k \in {i, j}
      BY <1>1, <2>2, <3>1
    <3>2. CASE k <= timeline[i].since
      BY <1>1, <3>2
    <3>3. CASE j <= timeline[k].since
      BY <1>1, <2>2, <3>3
    <3> QED
      BY <1>2, <3>1, <3>2, <3>3 DEF ReadNext, KnownBefore
  <2> QED
    BY <1>1, <2>1, <2>2 DEF ToldBy
<1>3. ASSUME NEW i \in Moves, ReadLast(i) PROVE timeline[i].to = job.status
  <2>1. \A k \in Moves : k <= i
    BY <1>1, <1>3 DEF ReadLast, KnownBefore
  <2>2. i <= Len(timeline)
    BY DEF Moves
  <2> QED
    BY <2>1, <2>2 DEF MaintenanceInv, LastCommitDecides, ToldBy
<1> QED
  BY <1>2, <1>3 DEF TimelineTellsStatus

\* In whatever order createdAt puts moves that overlapped, those that did not tell
\* the job's history, and the last of all, if nothing overlapped it, its status.
THEOREM TimelineIsTrue == Spec => []TimelineTellsStatus
PROOF
<1>1. MaintenanceInv => TimelineTellsStatus
  BY ReadingsFollowCommits
<1> QED
  BY <1>1, MaintenanceSafe, PTL

-----------------------------------------------------------------------------
(* Moves apart.                                                            *)

\* What a request of this kind read of the job's status is what it still is, when
\* nothing moved the job or the only one that did has finished.
LEMMA OthersStillHold ==
    ASSUME ClerkInv, NEW c \in Clients,
           request'[c] = None,
           \A d \in Clients \ {c} : request'[d] = request[d],
           \/ job'.status = job.status /\ (UNCHANGED timeline \/ Write(None, None, 0))
           \/ Moving(c) /\ MovesApart
    PROVE  \A d \in Clients : ReadStillHolds(d)'
PROOF
<1> SUFFICES ASSUME NEW d \in Clients PROVE ReadStillHolds(d)'
  OBVIOUS
<1>1. CASE d = c
  BY <1>1 DEF ReadStillHolds, Doing
<1>2. CASE d # c /\ job'.status = job.status /\ (UNCHANGED timeline \/ Write(None, None, 0))
  <2>1. ReadStillHolds(d) /\ request'[d] = request[d]
    BY <1>2 DEF ClerkInv
  <2>2. \A i \in 1..Len(timeline') :
           timeline'[i].to # None => i \in 1..Len(timeline) /\ timeline'[i] = timeline[i]
    <3>1. CASE UNCHANGED timeline
      BY <3>1
    <3>2. CASE Write(None, None, 0)
      <4>1. timeline \in Seq(Entry)
        BY DEF ClerkInv, MaintenanceInv, TypeOK
      <4>2. /\ Len(timeline) \in Nat
            /\ Len(timeline') = Len(timeline) + 1
            /\ \A i \in 1..Len(timeline) : timeline'[i] = timeline[i]
            /\ timeline'[Len(timeline) + 1] = [from |-> None, to |-> None, since |-> 0]
        BY <3>2, <4>1 DEF Write, Entry
      <4> QED
        BY <4>2
    <3> QED
      BY <1>2, <3>1, <3>2
  <2> QED
    BY <1>2, <2>1, <2>2 DEF ReadStillHolds, Doing
<1>3. CASE d # c /\ Moving(c) /\ MovesApart
  <2>1. ~Moving(d)
    BY <1>3 DEF MovesApart
  <2> QED
    BY <1>3, <2>1 DEF Moving, ReadStillHolds, Doing
<1> QED
  BY <1>1, <1>2, <1>3

\* What a handler just read is true, whoever else is under way.
LEMMA ClerkReads ==
    ASSUME ClerkInv, NEW c \in Clients, Reading(c)
    PROVE  ClerkInv'
PROOF
<1> USE MaintenanceConstants
<1>0. MaintenanceInv /\ request \in [Clients -> Request \cup {None}]
  BY DEF ClerkInv, MaintenanceInv, TypeOK
<1>1. /\ UNCHANGED <<job, timeline, staff>>
      /\ \A d \in Clients \ {c} : request'[d] = request[d]
  BY <1>0, ReadingCarries
<1>2. ReadStillHolds(c)'
  <2>1. CASE ReadForUpdate(c)
    BY <1>0, <2>1 DEF ReadForUpdate, Ask, ReadStillHolds, Doing
  <2>2. CASE ReadForAssign(c)
    BY <1>0, <2>2 DEF ReadForAssign, Ask, ReadStillHolds, Doing
  <2>3. CASE ReadForStatus(c)
    BY <1>0, <2>3 DEF ReadForStatus, Ask, ReadStillHolds, Doing
  <2>4. CASE Abort(c)
    BY <1>0, <2>4 DEF Abort, Finish, ReadStillHolds, Doing
  <2> QED
    BY <2>1, <2>2, <2>3, <2>4 DEF Reading
<1>3. \A d \in Clients : ReadStillHolds(d)'
  BY <1>1, <1>2 DEF ClerkInv, ReadStillHolds, Doing
<1> QED
  BY <1>0, <1>1, <1>3, ReadingStep DEF ClerkInv, EndsAtStatus, TimelineIsChain, KnownBefore

\* An entry that starts at the job's status, or moves nothing, extends the chain.
LEMMA EntryChains ==
    ASSUME timeline \in Seq(Entry), EndsAtStatus, TimelineIsChain,
           NEW from \in JobStatus \cup {None}, NEW to \in JobStatus \cup {None},
           NEW since \in Nat, Write(from, to, since),
           to # None => \A i \in 1..Len(timeline) : timeline[i].to # None => i <= since,
           from # None => from = job.status,
           to = None => job'.status = job.status,
           to # None => job'.status = to
    PROVE  EndsAtStatus' /\ TimelineIsChain'
PROOF
<1>1. /\ Len(timeline) \in Nat
      /\ Len(timeline') = Len(timeline) + 1
      /\ \A i \in 1..Len(timeline) : timeline'[i] = timeline[i]
      /\ timeline'[Len(timeline) + 1] = [from |-> from, to |-> to, since |-> since]
  BY Written
<1>2. EndsAtStatus'
  <2> SUFFICES ASSUME NEW i \in 1..Len(timeline'),
                      timeline'[i].to # None,
                      \A j \in (i + 1)..Len(timeline') : timeline'[j].to = None
               PROVE  timeline'[i].to = job'.status
    BY DEF EndsAtStatus
  <2>1. CASE i = Len(timeline) + 1
    BY <1>1, <2>1
  <2>2. CASE i \in 1..Len(timeline)
    <3>1. to = None
      BY <1>1, <2>2
    <3>2. \A j \in (i + 1)..Len(timeline) : timeline[j].to = None
      BY <1>1, <2>2
    <3> QED
      BY <1>1, <2>2, <3>1, <3>2 DEF EndsAtStatus
  <2> QED
    BY <1>1, <2>1, <2>2
<1>3. TimelineIsChain'
  <2> SUFFICES ASSUME NEW i \in 1..Len(timeline'), NEW j \in 1..Len(timeline'),
                      i < j, timeline'[i].to # None
               PROVE  /\ timeline'[j].to # None => i <= timeline'[j].since
                      /\ /\ timeline'[j].from # None
                         /\ \A k \in (i + 1)..(j - 1) : timeline'[k].to = None
                         => timeline'[j].from = timeline'[i].to
    BY DEF TimelineIsChain, KnownBefore
  <2>0. i \in 1..Len(timeline) /\ timeline'[i] = timeline[i]
    BY <1>1
  <2>1. CASE j = Len(timeline) + 1
    <3>1. timeline'[j].to # None => i <= timeline'[j].since
      BY <1>1, <2>0, <2>1
    <3>2. ASSUME timeline'[j].from # None,
                 \A k \in (i + 1)..(j - 1) : timeline'[k].to = None
          PROVE  timeline'[j].from = timeline'[i].to
      <4>1. \A k \in (i + 1)..Len(timeline) : timeline[k].to = None
        BY <1>1, <2>0, <2>1, <3>2
      <4>2. timeline[i].to = job.status
        BY <1>1, <2>0, <4>1 DEF EndsAtStatus
      <4> QED
        BY <1>1, <2>0, <2>1, <3>2, <4>2
    <3> QED
      BY <3>1, <3>2
  <2>2. CASE j \in 1..Len(timeline)
    <3>1. timeline'[j] = timeline[j]
      BY <1>1, <2>2
    <3>2. (\A k \in (i + 1)..(j - 1) : timeline'[k].to = None)
             => \A k \in (i + 1)..(j - 1) : timeline[k].to = None
      BY <1>1, <2>0, <2>2
    <3> QED
      BY <2>0, <2>2, <3>1, <3>2 DEF TimelineIsChain, KnownBefore
  <2> QED
    BY <1>1, <2>1, <2>2
<1> QED
  BY <1>2, <1>3

\* What a write leaves behind, when its entry starts at the job's status.
LEMMA ClerkWrite ==
    ASSUME ClerkInv, MaintenanceInv', NEW c \in Clients,
           NEW from \in JobStatus \cup {None}, NEW to \in JobStatus \cup {None},
           NEW since \in Nat, Write(from, to, since),
           to # None => \A i \in 1..Len(timeline) : timeline[i].to # None => i <= since,
           request'[c] = None,
           \A d \in Clients \ {c} : request'[d] = request[d],
           \/ from = None /\ to = None /\ since = 0
           \/ Moving(c) /\ MovesApart,
           from # None => from = job.status,
           to = None => job'.status = job.status,
           to # None => job'.status = to
    PROVE  ClerkInv'
PROOF
<1>1. timeline \in Seq(Entry)
  BY DEF ClerkInv, MaintenanceInv, TypeOK
<1>2. EndsAtStatus' /\ TimelineIsChain'
  BY <1>1, EntryChains DEF ClerkInv
<1>3. \A d \in Clients : ReadStillHolds(d)'
  BY OthersStillHold
<1> QED
  BY <1>2, <1>3 DEF ClerkInv

\* A step of a client, whoever edits or writes a note meanwhile: it moves the job
\* from where it is, and nobody moves a job that is closed.
LEMMA ClerkClientStep ==
    ASSUME MovesApart, ClerkInv, MaintenanceInv', NEW c \in Clients, ClientStep(c)
    PROVE  ClerkInv' /\ MovesLegally
PROOF
<1> USE MaintenanceConstants
<1>0. /\ TypeOK /\ MaintenanceInv
      /\ request \in [Clients -> Request \cup {None}]
      /\ ReadStillHolds(c) /\ CarriedInv(c)
  BY DEF ClerkInv, MaintenanceInv, TypeOK
<1>1. CASE Reading(c)
  BY <1>0, <1>1, ClerkReads, ReadingCarries DEF MovesLegally
<1>2. CASE Create(c)
  <2>1. job = None /\ timeline = <<>> /\ UNCHANGED timeline
    BY <1>2 DEF Create, ClerkInv, MaintenanceInv
  <2>2. request' = [request EXCEPT ![c] = [op |-> "raise", to |-> job'.status]]
    BY <1>2 DEF Create
  <2>3. \A d \in Clients : request[d] = None
    BY <2>1 DEF ClerkInv, MaintenanceInv, CarriedInv
  <2>4. \A d \in Clients : ReadStillHolds(d)'
    BY <1>0, <2>1, <2>2, <2>3 DEF ReadStillHolds, Doing
  <2> QED
    BY <2>1, <2>4 DEF ClerkInv, EndsAtStatus, TimelineIsChain, KnownBefore, MovesLegally
<1>3. CASE WriteRaised(c)
  <2>0. Moving(c)
    BY <1>3 DEF WriteRaised, Moving
  <2>1. /\ request[c].to \in JobStatus
        /\ request[c].to = job.status
        /\ Write(None, request[c].to, 0)
        /\ \A i \in 1..Len(timeline) : timeline[i].to = None
        /\ UNCHANGED job
    BY <1>0, <1>3, InHand, RequestFields DEF WriteRaised, ReadStillHolds
  <2>2. request'[c] = None /\ \A d \in Clients \ {c} : request'[d] = request[d]
    BY <1>0, <1>3 DEF WriteRaised, Finish
  <2> QED
    BY <2>0, <2>1, <2>2, ClerkWrite DEF MovesLegally
<1>4. CASE AddUpdate(c)
  <2>1. Write(None, None, 0) /\ UNCHANGED <<job, request>> /\ request'[c] = None
    BY <1>4 DEF AddUpdate
  <2> QED
    BY <2>1, ClerkWrite DEF MovesLegally
<1>5. CASE CommitUpdate(c)
  <2>1. job # None /\ UNCHANGED timeline
    BY <1>0, <1>5 DEF CommitUpdate, CarriedInv, Doing
  <2>2. job'.status = job.status
    BY <1>0, <1>5, <2>1 DEF CommitUpdate, TypeOK, Job
  <2>3. request'[c] = None /\ \A d \in Clients \ {c} : request'[d] = request[d]
    BY <1>0, <1>5 DEF CommitUpdate, Finish
  <2>4. \A d \in Clients : ReadStillHolds(d)'
    BY <2>1, <2>2, <2>3, OthersStillHold
  <2> QED
    BY <2>1, <2>2, <2>4 DEF ClerkInv, EndsAtStatus, TimelineIsChain, KnownBefore, MovesLegally
<1>6. CASE CommitAssign(c)
  <2> DEFINE to == AssignedStatus(job.status, request[c].staff)
  <2>0. Moving(c)
    BY <1>6 DEF CommitAssign, Moving
  <2>1. /\ request[c].from = job.status
        /\ job.status \in JobStatus \ Terminal
        /\ request[c].since \in Nat
        /\ \A i \in 1..Len(timeline) : timeline[i].to # None => i <= request[c].since
    BY <1>0, <1>6, InHand, RequestFields DEF CommitAssign, ReadStillHolds, CarriedInv
  <2>2. /\ to \in JobStatus
        /\ to # job.status => <<job.status, to>> \in Transitions
    BY <2>1 DEF AssignedStatus, JobStatus, Transitions
  <2>3. /\ Write(job.status, to, request[c].since) /\ request'[c] = None
        /\ \A d \in Clients \ {c} : request'[d] = request[d]
    BY <1>0, <1>6, <2>1 DEF CommitAssign, WriteMove, Finish
  <2>4. job'.status = to
    BY <1>0, <1>6, <2>1 DEF CommitAssign, CarriedInv, Doing, TypeOK, Job
  <2>5. ClerkInv'
    BY <2>0, <2>1, <2>2, <2>3, <2>4, ClerkWrite
  <2> QED
    BY <2>2, <2>4, <2>5 DEF MovesLegally
<1>7. CASE CommitStatus(c)
  <2>0. Moving(c)
    BY <1>7 DEF CommitStatus, Moving
  <2>1. /\ request[c].from = job.status
        /\ request[c].from \in JobStatus
        /\ request[c].to \in JobStatus
        /\ request[c].since \in Nat
        /\ \A i \in 1..Len(timeline) : timeline[i].to # None => i <= request[c].since
        /\ <<job.status, request[c].to>> \in Transitions
    BY <1>0, <1>7, InHand, RequestFields DEF CommitStatus, ReadStillHolds, CarriedInv
  <2>2. /\ Write(job.status, request[c].to, request[c].since) /\ request'[c] = None
        /\ \A d \in Clients \ {c} : request'[d] = request[d]
    BY <1>0, <1>7, <2>1 DEF CommitStatus, WriteMove, Finish
  <2>3. job'.status = request[c].to
    BY <1>0, <1>7 DEF CommitStatus, CarriedInv, Doing, TypeOK, Job
  <2>4. ClerkInv'
    BY <2>0, <2>1, <2>2, <2>3, ClerkWrite
  <2> QED
    BY <2>1, <2>3, <2>4 DEF MovesLegally
<1> QED
  BY <1>1, <1>2, <1>3, <1>4, <1>5, <1>6, <1>7 DEF ClientStep, Reading

\* A colleague's removal leaves status and cost as they are.
LEMMA RemovalKeepsJob ==
    ASSUME TypeOK, StaffRemoved
    PROVE  /\ UNCHANGED <<timeline, request>>
           /\ job = None => job' = None
           /\ job # None => job' # None /\ job'.status = job.status /\ job'.cost = job.cost
PROOF
<1>1. PICK s \in staff : job' = Unassign(s) /\ UNCHANGED <<timeline, request>>
  BY DEF StaffRemoved
<1>2. CASE job = None \/ job.assignedTo # s
  BY <1>1, <1>2 DEF Unassign
<1>3. CASE job # None /\ job.assignedTo = s
  <2>1. job' = [job EXCEPT !.assignedTo = None] /\ job \in Job
    BY <1>1, <1>3 DEF Unassign, TypeOK
  <2>2. job' \in Job /\ job'.status = job.status /\ job'.cost = job.cost
    BY <2>1 DEF Job
  <2> QED
    BY <1>1, <1>3, <2>2, MaintenanceConstants
<1> QED
  BY <1>2, <1>3

\* Every step, with the moves apart.
LEMMA ClerkNext ==
    ASSUME MovesApart, ClerkInv, [Next]_vars
    PROVE  ClerkInv' /\ MovesLegally
PROOF
<1>0. MaintenanceInv' /\ TypeOK
  BY MaintenanceNext DEF ClerkInv, MaintenanceInv
<1>1. CASE \E c \in Clients : ClientStep(c)
  BY <1>0, <1>1, ClerkClientStep
<1>2. CASE StaffRemoved
  <2>1. job = None => timeline = <<>> /\ \A c \in Clients : request[c] = None
    BY DEF ClerkInv, MaintenanceInv, CarriedInv
  <2>2. /\ UNCHANGED <<timeline, request>>
        /\ job # None => job'.status = job.status
    BY <1>0, <1>2, RemovalKeepsJob
  <2> QED
    BY <1>0, <2>1, <2>2 DEF ClerkInv, ReadStillHolds, Doing, EndsAtStatus,
         TimelineIsChain, KnownBefore, MovesLegally
<1>3. CASE UNCHANGED vars
  BY <1>0, <1>3 DEF vars, ClerkInv, ReadStillHolds, Doing, EndsAtStatus,
       TimelineIsChain, KnownBefore, MovesLegally
<1> QED
  BY <1>1, <1>2, <1>3 DEF Next

LEMMA ClerkInit == Init => ClerkInv
BY MaintenanceInit
DEF Init, ClerkInv, ReadStillHolds, Doing, EndsAtStatus, TimelineIsChain

\* As long as no two requests that move a job are under way on it, whoever writes
\* notes, edits it or loses their account meanwhile, a job moves along the table
\* only, and its timeline is an unbroken chain.
THEOREM ClerkKeepsJobs == Spec /\ []MovesApart => []TimelineIsChain /\ LegalMoves
PROOF
<1>1. Init => ClerkInv
  BY ClerkInit
<1>2. MovesApart /\ ClerkInv /\ [Next]_vars => ClerkInv' /\ [MovesLegally]_vars
  BY ClerkNext
<1>3. ClerkInv => TimelineIsChain
  BY DEF ClerkInv
<1> QED
  BY <1>1, <1>2, <1>3, PTL DEF Spec, LegalMoves

-----------------------------------------------------------------------------
(* Edits apart, too.                                                       *)

\* An edit that found the job open writes to a job that is open, since nothing
\* could close it meanwhile; then nothing changes a closed job's cost either.
LEMMA EditsNext ==
    ASSUME MovesApart, EditsApart, ClerkInv, [Next]_vars,
           \A c \in Clients : EditStillOpen(c)
    PROVE  (\A c \in Clients : EditStillOpen(c)') /\ KeepsClosed
PROOF
<1> USE MaintenanceConstants
<1>0. /\ TypeOK /\ MaintenanceInv
      /\ request \in [Clients -> Request \cup {None}]
      /\ \A c \in Clients : ReadStillHolds(c) /\ CarriedInv(c)
  BY DEF ClerkInv, MaintenanceInv, TypeOK
<1>1. ASSUME NEW c \in Clients, Reading(c)
      PROVE  (\A d \in Clients : EditStillOpen(d)') /\ KeepsClosed
  <2>1. UNCHANGED job /\ \A d \in Clients \ {c} : request'[d] = request[d]
    BY <1>0, <1>1, ReadingCarries
  <2>2. EditStillOpen(c)'
    <3>1. CASE ReadForUpdate(c)
      BY <1>0, <3>1 DEF ReadForUpdate, Ask, EditStillOpen, Closed
    <3>2. CASE ReadForAssign(c)
      BY <1>0, <3>2 DEF ReadForAssign, Ask, EditStillOpen, Doing
    <3>3. CASE ReadForStatus(c)
      BY <1>0, <3>3 DEF ReadForStatus, Ask, EditStillOpen, Doing
    <3>4. CASE Abort(c)
      BY <1>0, <3>4 DEF Abort, Finish, EditStillOpen, Doing
    <3> QED
      BY <1>1, <3>1, <3>2, <3>3, <3>4 DEF Reading
  <2> QED
    BY <2>1, <2>2 DEF EditStillOpen, Doing, Closed, KeepsClosed
<1>2. ASSUME NEW c \in Clients, WriteRaised(c) \/ AddUpdate(c)
      PROVE  (\A d \in Clients : EditStillOpen(d)') /\ KeepsClosed
  BY <1>0, <1>2 DEF WriteRaised, AddUpdate, Finish, EditStillOpen, Doing, Closed, KeepsClosed
<1>3. ASSUME NEW c \in Clients, Create(c)
      PROVE  (\A d \in Clients : EditStillOpen(d)') /\ KeepsClosed
  <2>1. job = None /\ \A d \in Clients : request[d] = None
    BY <1>0, <1>3 DEF Create, CarriedInv
  <2> QED
    BY <1>0, <1>3, <2>1 DEF Create, EditStillOpen, Doing, Closed, KeepsClosed
<1>4. ASSUME NEW c \in Clients, CommitUpdate(c)
      PROVE  (\A d \in Clients : EditStillOpen(d)') /\ KeepsClosed
  <2>1. job # None /\ ~Closed
    BY <1>0, <1>4 DEF CommitUpdate, EditStillOpen, CarriedInv, Doing
  <2>2. job'.status = job.status
    BY <1>0, <1>4, <2>1 DEF CommitUpdate, TypeOK, Job
  <2> QED
    BY <1>0, <1>4, <2>1, <2>2 DEF CommitUpdate, Finish, EditStillOpen, Doing, Closed, KeepsClosed
<1>5. ASSUME NEW c \in Clients, CommitAssign(c) \/ CommitStatus(c)
      PROVE  (\A d \in Clients : EditStillOpen(d)') /\ KeepsClosed
  <2>1. Moving(c)
    BY <1>5 DEF CommitAssign, CommitStatus, Moving
  <2>2. \A d \in Clients : ~Doing(d, "update")'
    BY <1>0, <1>5, <2>1 DEF EditsApart, CommitAssign, CommitStatus, Finish, Doing
  <2>3. ~Closed
    <3>1. CASE CommitAssign(c)
      BY <1>0, <3>1 DEF CommitAssign, ReadStillHolds, CarriedInv, Closed
    <3>2. CASE CommitStatus(c)
      BY <1>0, <3>2 DEF CommitStatus, ReadStillHolds, CarriedInv, Closed, Transitions, Terminal
    <3> QED
      BY <1>5, <3>1, <3>2
  <2> QED
    BY <2>2, <2>3 DEF EditStillOpen, KeepsClosed
<1>6. CASE StaffRemoved
  <2>1. /\ UNCHANGED request
        /\ job = None => job' = None
        /\ job # None => job' # None /\ job'.status = job.status /\ job'.cost = job.cost
    BY <1>0, <1>6, RemovalKeepsJob
  <2> QED
    BY <2>1 DEF EditStillOpen, Doing, Closed, KeepsClosed
<1>7. CASE UNCHANGED vars
  BY <1>7 DEF vars, EditStillOpen, Doing, Closed, KeepsClosed
<1> QED
  BY <1>1, <1>2, <1>3, <1>4, <1>5, <1>6, <1>7 DEF Next, ClientStep, Reading

\* As long as no request that moves a job overlaps another or an edit of it, a
\* completed or cancelled job keeps its status and its cost for good.
THEOREM ClosedStaysClosed == Spec /\ []MovesApart /\ []EditsApart => ClosedIsFinal
PROOF
<1> DEFINE EditsOpen == \A c \in Clients : EditStillOpen(c)
<1>1. Init => ClerkInv /\ EditsOpen
  BY ClerkInit DEF Init, EditStillOpen, Doing
<1>2. MovesApart /\ ClerkInv /\ [Next]_vars => ClerkInv'
  BY ClerkNext
<1>3. /\ MovesApart /\ EditsApart /\ ClerkInv /\ EditsOpen /\ [Next]_vars
      => EditsOpen' /\ [KeepsClosed]_vars
  BY EditsNext
<1> QED
  BY <1>1, <1>2, <1>3, PTL DEF Spec, ClosedIsFinal
=============================================================================
