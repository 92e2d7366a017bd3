----------------------------- MODULE Maintenance -----------------------------
(***************************************************************************)
(* One maintenance request and its timeline (MaintenanceService): no       *)
(* handler touches two requests, so one stands for all.  As everywhere in  *)
(* this API a handler reads first and writes later by id, without a lock:  *)
(* Read... keeps what it will act on in `request', Commit... writes the    *)
(* job and its timeline entry in one transaction.                          *)
(*                                                                         *)
(* The timeline is read back by createdAt, which an entry gets at some     *)
(* time between its handler's read and its commit.  It stands here in the  *)
(* order of commits, and each entry says how many were there when its      *)
(* handler read (`since'): those come before it in every reading, the      *)
(* others may come before or after.                                        *)
(***************************************************************************)
EXTENDS Integers, Sequences

CONSTANTS
    Clients,     \* sessions working at the same time
    Staff,       \* user accounts that can be assigned
    Costs,       \* actual costs a body may carry; they stand for every field
                 \* that can be edited
    MaxEntries,  \* bound: the length of the timeline
    None         \* no job yet, nobody assigned, no cost, no request

JobStatus == {"PENDING", "ASSIGNED", "IN_PROGRESS", "COMPLETED", "CANCELLED"}
Job == [status : JobStatus, completedAt : BOOLEAN,
        assignedTo : Staff \cup {None}, cost : Costs \cup {None}]
\* A move has both ends, the entry of a new request only `to', a note neither.
Entry == [from : JobStatus \cup {None}, to : JobStatus \cup {None}, since : Nat]
Request ==
    [op : {"raise"}, to : JobStatus]
    \cup [op : {"update"}, cost : Costs]
    \cup [op : {"assign"}, from : JobStatus, staff : Staff \cup {None},
          since : Nat]
    \cup [op : {"status"}, from : JobStatus, to : JobStatus, cost : Costs \cup {None},
          since : Nat]

ASSUME MaintenanceConstants ==
    /\ MaxEntries \in Nat
    /\ None \notin Job \cup JobStatus \cup Staff \cup Costs \cup Request

VARIABLES
    job,        \* the MaintenanceRequest row; completedAt only as set or not
    timeline,   \* its MaintenanceUpdate rows, in the order of their commits
    staff,      \* the user accounts that exist
    request     \* what each client's handler is about to write

vars == <<job, timeline, staff, request>>

Terminal == {"COMPLETED", "CANCELLED"}
Closed == job # None /\ job.status \in Terminal

FinishAnything ==
    {<<"PENDING", "COMPLETED">>, <<"PENDING", "CANCELLED">>,
     <<"IN_PROGRESS", "COMPLETED">>, <<"PENDING", "IN_PROGRESS">>}
ReopenToo ==
    {<<"PENDING", "IN_PROGRESS">>, <<"IN_PROGRESS", "COMPLETED">>,
     <<"COMPLETED", "IN_PROGRESS">>}
\* STATUS_TRANSITIONS
Transitions ==
    {<<"PENDING", "ASSIGNED">>, <<"PENDING", "IN_PROGRESS">>, <<"PENDING", "CANCELLED">>,
     <<"ASSIGNED", "IN_PROGRESS">>, <<"ASSIGNED", "PENDING">>, <<"ASSIGNED", "CANCELLED">>,
     <<"IN_PROGRESS", "COMPLETED">>, <<"IN_PROGRESS", "CANCELLED">>}

Init ==
    /\ job = None
    /\ timeline = <<>>
    /\ staff = Staff
    /\ request = [c \in Clients |-> None]

Doing(c, op) == request[c] # None /\ request[c].op = op
Finish(c) == request' = [request EXCEPT ![c] = None]

Ask(c, r) ==
    /\ request[c] = None
    /\ job # None
    /\ request' = [request EXCEPT ![c] = r]
    /\ UNCHANGED <<job, timeline, staff>>

Write(from, to, since) ==
    /\ Len(timeline) < MaxEntries
    /\ timeline' = Append(timeline, [from |-> from, to |-> to, since |-> since])

-----------------------------------------------------------------------------
\* create: the row first, its "Request raised." entry in a second statement.
Create(c) ==
    \E s \in staff \cup {None} :
        /\ job = None
        /\ request[c] = None
        /\ job' = [status |-> IF s = None THEN "PENDING" ELSE "ASSIGNED",
                   completedAt |-> FALSE, assignedTo |-> s, cost |-> None]
        /\ request' = [request EXCEPT ![c] = [op |-> "raise", to |-> job'.status]]
        /\ UNCHANGED <<timeline, staff>>

WriteRaised(c) ==
    /\ Doing(c, "raise")
    /\ Write(None, request[c].to, 0)
    /\ Finish(c)
    /\ UNCHANGED <<job, staff>>

\* update: the fields of a job that is not closed.
ReadForUpdate(c) == \E x \in Costs : ~Closed /\ Ask(c, [op |-> "update", cost |-> x])

CommitUpdate(c) ==
    /\ Doing(c, "update")
    /\ job' = [job EXCEPT !.cost = request[c].cost]
    /\ Finish(c)
    /\ UNCHANGED <<timeline, staff>>

AssignClosedToo(c) ==
    \E s \in staff \cup {None} :
        Ask(c, [op |-> "assign", from |-> job.status, staff |-> s, since |-> Len(timeline)])
\* assign: the person, or nobody, for a job that is not closed.
ReadForAssign(c) ==
    \E s \in staff \cup {None} :
        /\ ~Closed
        /\ Ask(c, [op |-> "assign", from |-> job.status, staff |-> s,
                   since |-> Len(timeline)])

AlwaysAssigned(from, s) == IF s # None THEN "ASSIGNED" ELSE "PENDING"
\* Assigning moves the status from PENDING, clearing moves it back; anything
\* else writes the status that was read.
AssignedStatus(from, s) ==
    CASE from = "PENDING" /\ s # None  -> "ASSIGNED"
      [] from = "ASSIGNED" /\ s = None -> "PENDING"
      [] OTHER                         -> from

NoDateCheck(row) == TRUE
\* CHECK MaintenanceRequest_completed_has_date
DateAgrees(row) == row.completedAt <=> row.status = "COMPLETED"

WriteFromOnly(r, to) == Write(r.from, r.from, r.since)
WriteMove(r, to) == Write(r.from, to, r.since)

CommitAssign(c) ==
    LET r == request[c]
        to == AssignedStatus(r.from, r.staff)
    IN
    /\ Doing(c, "assign")
    /\ r.staff \in staff \cup {None}
    /\ DateAgrees([job EXCEPT !.status = to])
    /\ job' = [job EXCEPT !.status = to, !.assignedTo = r.staff]
    /\ WriteMove(r, to)
    /\ Finish(c)
    /\ UNCHANGED staff

\* changeStatus: the table decides, on the status that was read.
ReadForStatus(c) ==
    \E to \in JobStatus, x \in Costs \cup {None} :
        /\ job # None
        /\ <<job.status, to>> \in Transitions
        /\ Ask(c, [op |-> "status", from |-> job.status, to |-> to, cost |-> x,
                   since |-> Len(timeline)])

DateOf(to) == to = "COMPLETED"

CommitStatus(c) ==
    LET r == request[c]
        row == [job EXCEPT !.status = r.to,
                           !.completedAt = DateOf(r.to),
                           !.cost = IF r.cost = None THEN @ ELSE r.cost]
    IN
    /\ Doing(c, "status")
    /\ DateAgrees(row)
    /\ job' = row
    /\ WriteMove(r, r.to)
    /\ Finish(c)
    /\ UNCHANGED staff

\* addUpdate: a note, whatever the status; where it is read matters to nothing.
AddUpdate(c) ==
    /\ request[c] = None
    /\ job # None
    /\ Write(None, None, 0)
    /\ UNCHANGED <<job, staff, request>>

\* The write was refused by a constraint or the connection was lost; a request
\* just raised is then left without its first entry.
Abort(c) ==
    /\ request[c] # None
    /\ Finish(c)
    /\ UNCHANGED <<job, timeline, staff>>

LeaveAssigned(s) == job
Unassign(s) == IF job = None \/ job.assignedTo # s THEN job
               ELSE [job EXCEPT !.assignedTo = None]
\* A colleague's account is deleted; the foreign key is onDelete: SetNull.
StaffRemoved ==
    \E s \in staff :
        /\ staff' = staff \ {s}
        /\ job' = Unassign(s)
        /\ UNCHANGED <<timeline, request>>

ClientStep(c) ==
    \/ Create(c) \/ WriteRaised(c)
    \/ ReadForUpdate(c) \/ CommitUpdate(c)
    \/ ReadForAssign(c) \/ CommitAssign(c)
    \/ ReadForStatus(c) \/ CommitStatus(c)
    \/ AddUpdate(c)
    \/ Abort(c)

Next == (\E c \in Clients : ClientStep(c)) \/ StaffRemoved

Spec == Init /\ [][Next]_vars

-----------------------------------------------------------------------------
(* Properties.                                                             *)

\* Rows and requests have their types.
TypeOK ==
    /\ job \in Job \cup {None}
    /\ timeline \in Seq(Entry)
    /\ staff \subseteq Staff
    /\ request \in [Clients -> Request \cup {None}]

Visited(s) == \E i \in 1..Len(timeline) : timeline[i].to = s

\* No job is completed that was never worked on: its timeline shows it going
\* to IN_PROGRESS, whichever handlers overtook one another on the way.
CompletedWasWorked ==
    job # None /\ job.status = "COMPLETED" => Visited("IN_PROGRESS")

Moves == {i \in 1..Len(timeline) : timeline[i].from # None}

\* Entry i was there when the handler of entry j read: it is read back before it.
KnownBefore(i, j) == i <= timeline[j].since

\* Moves that stand next to each other, or last, in every reading.
ReadNext(i, j) ==
    /\ KnownBefore(i, j)
    /\ \A k \in Moves \ {i, j} : KnownBefore(k, i) \/ KnownBefore(j, k)
ReadLast(i) == \A k \in Moves \ {i} : KnownBefore(k, i)

\* "Who marked this done, and when" has an answer, whoever works on the job at the
\* same time: of two moves one after the other, the second starts where the first
\* ended, and the last one ends at the status the job has.  Only moves that
\* overlapped may be read back in an order that did not decide it.
TimelineTellsStatus ==
    /\ \A i, j \in Moves : ReadNext(i, j) => timeline[j].from = timeline[i].to
    /\ \A i \in Moves : ReadLast(i) => timeline[i].to = job.status

\* The board and the report agree: completed exactly when there is a date.
CompletedHasDate ==
    job # None => (job.completedAt <=> job.status = "COMPLETED")

\* The person responsible exists.
AssigneeExists == job # None => job.assignedTo \in staff \cup {None}

KeepsClosed == Closed => job'.status = job.status /\ job'.cost = job.cost
\* COMPLETED and CANCELLED are terminal: a closed job is not reopened, and its
\* cost stays what it was.
ClosedIsFinal == [][KeepsClosed]_vars

MovesLegally ==
    job # None /\ job'.status # job.status
        => <<job.status, job'.status>> \in Transitions
\* Assignment and status changes together only move a job along the table.
LegalMoves == [][MovesLegally]_vars

\* The history of a job can be read from its timeline: no two entries that tell a
\* status may change places in the reading, and every move starts where the entry
\* before it ended.
TimelineIsChain ==
    \A i, j \in 1..Len(timeline) :
        i < j /\ timeline[i].to # None =>
            /\ timeline[j].to # None => KnownBefore(i, j)
            /\ /\ timeline[j].from # None
               /\ \A k \in (i + 1)..(j - 1) : timeline[k].to = None
               => timeline[j].from = timeline[i].to

-----------------------------------------------------------------------------
(* The inductive invariants behind the safety properties.                  *)

\* The last move among the first n entries ended at this status.
ToldBy(n, status) ==
    \A i \in Moves : (i <= n /\ \A j \in Moves : j <= n => j <= i) =>
        timeline[i].to = status

\* As the moves were committed, each starts where its handler found the job.
CommitsChain ==
    \A i \in 1..Len(timeline) :
        /\ timeline[i].since < i
        /\ i \in Moves => ToldBy(timeline[i].since, timeline[i].from)

LastCommitDecides == ToldBy(Len(timeline), job.status)

\* What a handler carries between its read and its write.
CarriedInv(c) ==
    /\ request[c] # None => job # None
    /\ Doing(c, "assign") => request[c].from \notin Terminal
    /\ Doing(c, "status") => <<request[c].from, request[c].to>> \in Transitions
    /\ Doing(c, "assign") \/ Doing(c, "status")
         => /\ request[c].from = "IN_PROGRESS" => Visited("IN_PROGRESS")
            /\ request[c].since <= Len(timeline)
            /\ ToldBy(request[c].since, request[c].from)

WorkIsVisible ==
    job # None /\ job.status = "IN_PROGRESS" => Visited("IN_PROGRESS")

\* Types, and all that holds however the clients overtake one another.
MaintenanceInv ==
    /\ TypeOK
    /\ job = None => timeline = <<>>
    /\ \A c \in Clients : CarriedInv(c)
    /\ WorkIsVisible
    /\ CompletedWasWorked
    /\ CommitsChain
    /\ LastCommitDecides
    /\ CompletedHasDate
    /\ AssigneeExists

\* The requests that move the job, and what stands first in its timeline.
Moving(c) == \E op \in {"raise", "assign", "status"} : Doing(c, op)

\* No two of them are under way; notes and edits come as they like.
MovesApart == \A c, d \in Clients : Moving(c) /\ Moving(d) => c = d

\* Nor is an edit beside one of them.
EditsApart == \A c, d \in Clients : ~(Moving(c) /\ Doing(d, "update"))

\* What was read still holds when it is written, if the moves are apart.
ReadStillHolds(c) ==
    /\ Doing(c, "raise") =>
          request[c].to = job.status /\ \A i \in 1..Len(timeline) : timeline[i].to = None
    /\ Doing(c, "assign") \/ Doing(c, "status") =>
          /\ request[c].from = job.status
          /\ \A i \in 1..Len(timeline) : timeline[i].to # None => i <= request[c].since

\* And an edit is of a job that is still open, if it is apart from them.
EditStillOpen(c) == Doing(c, "update") => ~Closed

\* The timeline is read up to the status the job has now.
EndsAtStatus ==
    \A i \in 1..Len(timeline) :
        /\ timeline[i].to # None
        /\ \A j \in (i + 1)..Len(timeline) : timeline[j].to = None
        => timeline[i].to = job.status

ClerkInv ==
    /\ MaintenanceInv
    /\ \A c \in Clients : ReadStillHolds(c)
    /\ EndsAtStatus
    /\ TimelineIsChain
=============================================================================
