------------------------------- MODULE Sessions -------------------------------
(***************************************************************************)
(* The sessions of one account: signing in and the lockout, the sliding    *)
(* expiry and its ceiling, signing out here and everywhere, the password   *)
(* links, deactivation, and the nightly purge (AuthService,                *)
(* SessionService, StaffService.setActive, SessionCleanupJob).             *)
(*                                                                         *)
(* A client is one request in flight: it reads, hashes or verifies a       *)
(* password, and writes later and by id, so Read... keeps in `request'     *)
(* what the write will not look at again.  A heartbeat is written after    *)
(* the request that caused it has moved on.  Which password is the right   *)
(* one is left open.                                                       *)
(***************************************************************************)
EXTENDS Integers

CONSTANTS
    Clients,         \* requests handled at the same time
    Slots,           \* session rows that can ever be issued
    Links,           \* password links that can ever be made
    Invitation,      \* the link an invited account starts with
    Ttl,             \* SESSION_TTL_DAYS
    AbsoluteTtl,     \* SESSION_ABSOLUTE_TTL_DAYS
    TouchInterval,   \* TOUCH_INTERVAL_MS
    KeepExpired,     \* how long an expired row is kept
    MaxFailed,       \* MAX_FAILED_LOGINS
    Lockout,         \* LOCKOUT_MINUTES
    LinkTtl,         \* PASSWORD_RESET_TTL_MINUTES
    LastIssue,       \* bound: no session is issued later
    LastDay,         \* bound: the clock stops here
    MaxTries,        \* bound: failed sign-ins that are counted
    None,            \* no row yet, no lock, no request
    Gone             \* the row was purged

Status == {"INVITED", "ACTIVE", "INACTIVE"}
Instant == 0 .. LastDay + AbsoluteTtl + Lockout + LinkTtl

Session == [expires : Instant, ceiling : Instant, seen : Instant,
            revoked : BOOLEAN]
Link == [expires : Instant, used : BOOLEAN]

Request ==
    [op : {"wrong"}, seen : 0 .. MaxTries]
    \cup [op : {"right", "issue", "link"}]
    \cup [op : {"admitted", "change", "signOutOthers"}, own : Slots]
    \cup [op : {"reset"}, link : Links, activates : BOOLEAN]

Touch == [slot : Slots, seen : Instant, expires : Instant]

ASSUME SessionConstants ==
    /\ Invitation \in Links
    /\ Ttl \in Nat /\ AbsoluteTtl \in Nat /\ Ttl <= AbsoluteTtl
    /\ TouchInterval \in Nat /\ KeepExpired \in Nat
    /\ MaxFailed \in Nat \ {0} /\ MaxTries \in Nat
    /\ Lockout \in Nat /\ LinkTtl \in Nat
    /\ LastDay \in Nat /\ LastIssue \in Nat /\ LastIssue <= LastDay
    /\ None \notin Session \cup Link \cup Request \cup Touch \cup Instant
    /\ Gone \notin Session /\ Gone # None

VARIABLES
    now,        \* the clock
    user,       \* the User row: status, failedLoginCount, lockedUntil
    session,    \* the Session rows
    link,       \* the PasswordResetToken rows
    request,    \* what each client's handler is about to do
    heartbeat,  \* the detached SessionService.touch of each client
    ended       \* rows that signing out everywhere was to end (history)

vars == <<now, user, session, link, request, heartbeat, ended>>

IsRow(s) == session[s] \notin {None, Gone}

Init ==
    /\ now = 0
    /\ user = [status |-> "INVITED", failures |-> 0, lockedUntil |-> None]
    /\ session = [s \in Slots |-> None]
    /\ link = [l \in Links |-> IF l = Invitation
                                  THEN [expires |-> LinkTtl, used |-> FALSE] ELSE None]
    /\ request = [c \in Clients |-> None]
    /\ heartbeat = [c \in Clients |-> None]
    /\ ended = {}

Doing(c, op) == request[c] # None /\ request[c].op = op
Hold(c, r) == request' = [request EXCEPT ![c] = r]
Finish(c) == Hold(c, None)

-----------------------------------------------------------------------------
(* Signing in                                                              *)

Locked == user.lockedUntil # None /\ user.lockedUntil > now

ReadForLogin(c) ==
    /\ request[c] = None
    /\ ~Locked
    /\ \/ user.failures < MaxTries /\ Hold(c, [op |-> "wrong", seen |-> user.failures])
       \/ user.status = "ACTIVE" /\ Hold(c, [op |-> "right"])
    /\ UNCHANGED <<now, user, session, link, heartbeat, ended>>

\* registerFailedLogin, from the count that was read.
WriteFailure(c) ==
    LET next == request[c].seen + 1 IN
    /\ Doing(c, "wrong")
    /\ user' = [user EXCEPT
                    !.failures = next,
                    !.lockedUntil = IF next >= MaxFailed THEN now + Lockout ELSE None]
    /\ Finish(c)
    /\ UNCHANGED <<now, session, link, heartbeat, ended>>

Cleared(u) == [u EXCEPT !.failures = 0, !.lockedUntil = None]

RecordLogin(c) ==
    /\ Doing(c, "right")
    /\ user' = Cleared(user)
    /\ Hold(c, [op |-> "issue"])
    /\ UNCHANGED <<now, session, link, heartbeat, ended>>

Issue(c) ==
    \E s \in Slots :
        /\ Doing(c, "issue")
        /\ now <= LastIssue
        /\ session[s] = None
        /\ session' = [session EXCEPT ![s] =
              [expires |-> now + Ttl, ceiling |-> now + AbsoluteTtl, seen |-> now,
               revoked |-> FALSE]]
        /\ Finish(c)
        /\ UNCHANGED <<now, user, link, heartbeat, ended>>

-----------------------------------------------------------------------------
(* Using a session                                                         *)

\* resolve: what a session must be to admit a request.
Works(s) ==
    /\ IsRow(s)
    /\ ~session[s].revoked
    /\ session[s].expires > now
    /\ session[s].ceiling > now
    /\ user.status = "ACTIVE"

Unbounded(ceiling) == now + Ttl
SlidTo(ceiling) == IF now + Ttl < ceiling THEN now + Ttl ELSE ceiling

\* The guard admits the request and leaves the heartbeat behind (bound: a client
\* has one heartbeat under way).
Resolve(c) ==
    \E s \in Slots :
        /\ request[c] = None
        /\ heartbeat[c] = None
        /\ Works(s)
        /\ Hold(c, [op |-> "admitted", own |-> s])
        /\ heartbeat' =
              IF now - session[s].seen < TouchInterval THEN heartbeat
              ELSE [heartbeat EXCEPT ![c] = [slot |-> s, seen |-> now,
                                             expires |-> SlidTo(session[s].ceiling)]]
        /\ UNCHANGED <<now, user, session, link, ended>>

\* By id alone: the row may be revoked or expired by now, or gone.
WriteTouch(c) ==
    LET t == heartbeat[c] IN
    /\ t # None
    /\ session' = IF IsRow(t.slot)
                  THEN [session EXCEPT ![t.slot].seen = t.seen, ![t.slot].expires = t.expires]
                  ELSE session
    /\ heartbeat' = [heartbeat EXCEPT ![c] = None]
    /\ UNCHANGED <<now, user, link, request, ended>>

\* A heartbeat that fails is logged, never retried.
LoseTouch(c) ==
    /\ heartbeat[c] # None
    /\ heartbeat' = [heartbeat EXCEPT ![c] = None]
    /\ UNCHANGED <<now, user, session, link, request, ended>>

-----------------------------------------------------------------------------
(* Signing out                                                             *)

\* logout, and revokeSession of another of the account's sessions.
SignOut(c) ==
    \E s \in Slots :
        /\ Doing(c, "admitted")
        /\ IsRow(s)
        /\ session' = [session EXCEPT ![s].revoked = TRUE]
        /\ Finish(c)
        /\ UNCHANGED <<now, user, link, heartbeat, ended>>

StillOpen(s) == IsRow(s) /\ session[s].expires > now
\* revokeAllForUser reaches every row, the expired ones too.
Reached(s) == IsRow(s)

\* One statement.
RevokeAllBut(spared) ==
    /\ ended' = ended \cup {s \in Slots \ spared : IsRow(s)}
    /\ session' = [s \in Slots |->
          IF s \notin spared /\ Reached(s) THEN [session[s] EXCEPT !.revoked = TRUE]
          ELSE session[s]]

LogoutEverywhere(c) ==
    /\ Doing(c, "admitted")
    /\ RevokeAllBut({})
    /\ Finish(c)
    /\ UNCHANGED <<now, user, link, heartbeat>>

-----------------------------------------------------------------------------
(* Passwords                                                               *)

ForgotPassword(c) ==
    /\ request[c] = None
    /\ user.status = "ACTIVE"
    /\ Hold(c, [op |-> "link"])
    /\ UNCHANGED <<now, user, session, link, heartbeat, ended>>

CreateLink(c) ==
    \E l \in Links :
        /\ Doing(c, "link")
        /\ link[l] = None
        /\ link' = [link EXCEPT ![l] = [expires |-> now + LinkTtl, used |-> FALSE]]
        /\ Finish(c)
        /\ UNCHANGED <<now, user, session, heartbeat, ended>>

AnyStatus(status) == TRUE
Accepts(status) == status = "INVITED"

ReadForReset(c) ==
    \E l \in Links :
        /\ request[c] = None
        /\ link[l] # None
        /\ ~link[l].used
        /\ link[l].expires > now
        /\ Hold(c, [op |-> "reset", link |-> l, activates |-> Accepts(user.status)])
        /\ UNCHANGED <<now, user, session, link, heartbeat, ended>>

\* One transaction: the link, the account and every session.
CommitReset(c) ==
    LET r == request[c] IN
    /\ Doing(c, "reset")
    /\ link' = [link EXCEPT ![r.link].used = TRUE]
    /\ user' = [Cleared(user) EXCEPT !.status = IF r.activates THEN "ACTIVE" ELSE @]
    /\ RevokeAllBut({})
    /\ Finish(c)
    /\ UNCHANGED <<now, heartbeat>>

ReadForChange(c) ==
    /\ Doing(c, "admitted")
    /\ Hold(c, [request[c] EXCEPT !.op = "change"])
    /\ UNCHANGED <<now, user, session, link, heartbeat, ended>>

\* The new hash is written on its own, before the others are signed out.
WriteChange(c) ==
    /\ Doing(c, "change")
    /\ Hold(c, [request[c] EXCEPT !.op = "signOutOthers"])
    /\ UNCHANGED <<now, user, session, link, heartbeat, ended>>

RevokeOthers(c) ==
    /\ Doing(c, "signOutOthers")
    /\ RevokeAllBut({request[c].own})
    /\ Finish(c)
    /\ UNCHANGED <<now, user, link, heartbeat>>

-----------------------------------------------------------------------------
(* The office, the nightly job and the clock                               *)

\* setActive: deactivation ends the sessions in its transaction.
SetActive(active) ==
    /\ user' = [user EXCEPT !.status = IF active THEN "ACTIVE" ELSE "INACTIVE"]
    /\ IF active THEN UNCHANGED <<session, ended>> ELSE RevokeAllBut({})
    /\ UNCHANGED <<now, link, request, heartbeat>>

Purgeable(s) == session[s].expires < now - KeepExpired

Purge ==
    /\ \E s \in Slots : IsRow(s) /\ Purgeable(s)
    /\ session' = [s \in Slots |-> IF IsRow(s) /\ Purgeable(s) THEN Gone ELSE session[s]]
    /\ UNCHANGED <<now, user, link, request, heartbeat, ended>>

Tick ==
    /\ now < LastDay
    /\ now' = now + 1
    /\ UNCHANGED <<user, session, link, request, heartbeat, ended>>

\* The answer to anything that changes nothing here, a refusal, a failed
\* statement, or the process going down between two of them.
Leave(c) ==
    /\ request[c] # None
    /\ Finish(c)
    /\ UNCHANGED <<now, user, session, link, heartbeat, ended>>

ClientStep(c) ==
    \/ ReadForLogin(c) \/ WriteFailure(c) \/ RecordLogin(c) \/ Issue(c)
    \/ Resolve(c) \/ WriteTouch(c) \/ LoseTouch(c)
    \/ SignOut(c) \/ LogoutEverywhere(c)
    \/ ForgotPassword(c) \/ CreateLink(c) \/ ReadForReset(c) \/ CommitReset(c)
    \/ ReadForChange(c) \/ WriteChange(c) \/ RevokeOthers(c)
    \/ Leave(c)

Next ==
    \/ \E c \in Clients : ClientStep(c)
    \/ \E active \in BOOLEAN : SetActive(active)
    \/ Purge
    \/ Tick

Spec == Init /\ [][Next]_vars

-----------------------------------------------------------------------------
(* Properties.                                                             *)

\* Rows, requests and the clock have their types.
TypeOK ==
    /\ now \in 0 .. LastDay
    /\ user \in [status : Status, failures : Nat, lockedUntil : Instant \cup {None}]
    /\ session \in [Slots -> Session \cup {None, Gone}]
    /\ link \in [Links -> Link \cup {None}]
    /\ request \in [Clients -> Request \cup {None}]
    /\ heartbeat \in [Clients -> Touch \cup {None}]
    /\ ended \subseteq Slots

\* Sliding expiry: a session lives Ttl from when it was last seen, and never
\* past the ceiling it was issued with, whichever of several heartbeats, and
\* however late, is the last to write its row.
SlidesUnderCeiling ==
    \A s \in Slots : IsRow(s) =>
        /\ session[s].expires <= session[s].ceiling
        /\ session[s].expires \in {session[s].seen + Ttl, session[s].ceiling}

\* Signing out everywhere, a reset and a deactivation leave no session from
\* before that still admits a request, and a password change only the one it
\* was made in: not even one that had expired and that a late heartbeat slid on.
SignedOutForEver == \A s \in ended : ~Works(s)

\* An account is locked only after MaxFailed failures in a row: whatever
\* resets the count lifts the lock, and a lost count cannot leave one behind.
LockedMeansTried == user.lockedUntil # None => user.failures >= MaxFailed

\* A link that was asked for by an active account never brings it back once it
\* was deactivated: only the invitation activates, and the office.
OnlyInvitesActivate ==
    [][\A l \in Links \ {Invitation} :
          link[l] # link'[l] => user'.status = user.status]_vars

-----------------------------------------------------------------------------
(* The inductive invariant behind them.                                    *)

\* A heartbeat carries an expiry computed from its row's own ceiling.
TouchUnderCeiling ==
    \A c \in Clients :
        LET t == heartbeat[c] IN
        t # None =>
            /\ session[t.slot] # None
            /\ IsRow(t.slot) => /\ t.expires <= session[t.slot].ceiling
                                /\ t.expires \in {t.seen + Ttl, session[t.slot].ceiling}

\* Nothing takes a revocation back, whoever writes the row afterwards.
EndedIsRevoked == \A s \in ended : session[s] # None /\ (IsRow(s) => session[s].revoked)

\* A reset in hand is of a link that is there.
ResetsHaveLinks ==
    \A c \in Clients : Doing(c, "reset") => link[request[c].link] # None

SessionInv ==
    /\ TypeOK
    /\ SlidesUnderCeiling /\ TouchUnderCeiling /\ EndedIsRevoked
    /\ LockedMeansTried /\ ResetsHaveLinks

\* Until the account is active nobody can ask for a link, and a reset that will
\* activate it was read from the invitation.
InvitedInv ==
    /\ user.status = "INVITED" =>
          /\ \A l \in Links \ {Invitation} : link[l] = None
          /\ \A c \in Clients : ~Doing(c, "link")
    /\ \A c \in Clients : Doing(c, "reset") /\ request[c].activates => request[c].link = Invitation
=============================================================================
