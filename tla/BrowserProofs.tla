---------------------------- MODULE BrowserProofs -----------------------------
(***************************************************************************)
(* What holds of a signed-in browser's two sides: of Sessions, for every   *)
(* number of requests, sessions and links and every choice of lifetimes,   *)
(* and of WebClient, for every number of dialogs and mutations.            *)
(***************************************************************************)
EXTENDS Sessions, WebClient, SequenceTheorems, TLAPS

-----------------------------------------------------------------------------
(* Sessions: values.                                                       *)

\* Each kind of request carries the fields its next step uses.
LEMMA RequestFields ==
    ASSUME NEW r \in Request
    PROVE  /\ r.op = "wrong" => r.seen \in 0 .. MaxTries
           /\ r.op \in {"admitted", "change", "signOutOthers"} => r.own \in Slots
           /\ r.op = "reset" => r.link \in Links /\ r.activates \in BOOLEAN
BY DEF Request

LEMMA InHand ==
    ASSUME TypeOK, NEW c \in Clients, NEW op, Doing(c, op)
    PROVE  request[c] \in Request /\ request[c].op = op
BY DEF TypeOK, Doing

\* Every instant a handler computes is one.
LEMMA Instants ==
    ASSUME now \in 0 .. LastDay
    PROVE  /\ now \in Instant
           /\ now + Ttl \in Instant
           /\ now + AbsoluteTtl \in Instant
           /\ now + Lockout \in Instant
           /\ now + LinkTtl \in Instant
           /\ now + Ttl <= now + AbsoluteTtl
           /\ \A ceiling \in Instant : /\ SlidTo(ceiling) \in Instant
                                       /\ SlidTo(ceiling) <= ceiling
                                       /\ SlidTo(ceiling) \in {now + Ttl, ceiling}
BY SessionConstants DEF Instant, SlidTo

LEMMA RowIsSession ==
    ASSUME TypeOK, NEW s \in Slots, IsRow(s)
    PROVE  session[s] \in Session
BY DEF TypeOK, IsRow

LEMMA SessionIsRow ==
    ASSUME NEW r \in Session
    PROVE  r \notin {None, Gone}
BY SessionConstants

-----------------------------------------------------------------------------
(* Sessions: what the rows must satisfy, apart from the account.           *)

SessionsSound ==
    /\ session \in [Slots -> Session \cup {None, Gone}]
    /\ heartbeat \in [Clients -> Touch \cup {None}]
    /\ ended \subseteq Slots
    /\ SlidesUnderCeiling /\ TouchUnderCeiling /\ EndedIsRevoked

LEMMA SessionsAreSound ==
    ASSUME SessionInv
    PROVE  SessionsSound
BY DEF SessionInv, TypeOK, SessionsSound

\* A step that leaves the sessions alone leaves them sound.
LEMMA SessionsAlone ==
    ASSUME SessionInv, UNCHANGED <<session, heartbeat, ended>>
    PROVE  SessionsSound'
BY SessionsAreSound DEF SessionsSound, SlidesUnderCeiling, TouchUnderCeiling,
   EndedIsRevoked, IsRow

\* One row changes only in `revoked', and only to TRUE.
LEMMA Revoking ==
    ASSUME SessionInv, NEW S \in SUBSET Slots,
           \A s \in S : IsRow(s),
           session' = [s \in Slots |-> IF s \in S THEN [session[s] EXCEPT !.revoked = TRUE]
                                       ELSE session[s]],
           ended' \subseteq ended \cup S,
           UNCHANGED heartbeat
    PROVE  SessionsSound'
PROOF
<1>1. SessionsSound
  BY SessionsAreSound
<1>2. \A s \in S : session[s] \in Session
  BY RowIsSession DEF SessionInv
<1>3. \A s \in Slots : /\ s \in S => /\ session'[s] \in Session
                                     /\ session'[s].expires = session[s].expires
                                     /\ session'[s].ceiling = session[s].ceiling
                                     /\ session'[s].seen = session[s].seen
                                     /\ session'[s].revoked = TRUE
                       /\ s \notin S => session'[s] = session[s]
  BY <1>2 DEF Session
<1>4. \A s \in Slots : /\ IsRow(s)' <=> IsRow(s)
                       /\ session'[s] = None <=> session[s] = None
  BY <1>2, <1>3, SessionIsRow DEF IsRow
<1>5. session' \in [Slots -> Session \cup {None, Gone}]
  BY <1>1, <1>3 DEF SessionsSound
<1>6. heartbeat' \in [Clients -> Touch \cup {None}] /\ ended' \subseteq Slots
  BY <1>1 DEF SessionsSound
<1>7. SlidesUnderCeiling'
  BY <1>1, <1>3, <1>4 DEF SessionsSound, SlidesUnderCeiling
<1>8. TouchUnderCeiling'
  <2>1. \A c \in Clients : heartbeat[c] # None => heartbeat[c].slot \in Slots
    BY <1>1 DEF SessionsSound, Touch
  <2> QED
    BY <1>1, <1>3, <1>4, <2>1 DEF SessionsSound, TouchUnderCeiling
<1>9. EndedIsRevoked'
  BY <1>1, <1>3, <1>4 DEF SessionsSound, EndedIsRevoked, IsRow
<1> QED
  BY <1>5, <1>6, <1>7, <1>8, <1>9 DEF SessionsSound

\* Signing out everywhere is one such step.
LEMMA RevokeAll ==
    ASSUME SessionInv, NEW spared \in SUBSET Slots, RevokeAllBut(spared), UNCHANGED heartbeat
    PROVE  SessionsSound'
PROOF
<1> DEFINE S == {s \in Slots \ spared : IsRow(s)}
<1>1. session' = [s \in Slots |-> IF s \in S THEN [session[s] EXCEPT !.revoked = TRUE]
                                  ELSE session[s]]
  BY DEF RevokeAllBut, Reached
<1>2. ended' = ended \cup S
  BY DEF RevokeAllBut
<1>3. \A s \in S : IsRow(s)
  OBVIOUS
<1>4. S \in SUBSET Slots
  OBVIOUS
<1> HIDE DEF S
<1> QED
  BY <1>1, <1>2, <1>3, <1>4, Revoking

\* A new row, and a row that is gone.
LEMMA Issuing ==
    ASSUME SessionInv, NEW c \in Clients, Issue(c)
    PROVE  SessionsSound'
PROOF
<1>1. SessionsSound
  BY SessionsAreSound
<1>2. now \in 0 .. LastDay
  BY DEF SessionInv, TypeOK
<1> DEFINE new == [expires |-> now + Ttl, ceiling |-> now + AbsoluteTtl, seen |-> now,
                   revoked |-> FALSE]
<1>3. PICK s \in Slots : /\ session[s] = None
                         /\ session' = [session EXCEPT ![s] = new]
                         /\ UNCHANGED <<heartbeat, ended>>
  BY DEF Issue
<1>4. /\ new \in Session
      /\ new.expires <= new.ceiling
      /\ new.expires = new.seen + Ttl
  BY <1>2, Instants DEF Session
<1> HIDE DEF new
<1>5. /\ session' \in [Slots -> Session \cup {None, Gone}]
      /\ session'[s] = new
      /\ \A t \in Slots : t # s => session'[t] = session[t]
  BY <1>1, <1>3, <1>4 DEF SessionsSound
<1>6. s \notin ended /\ \A c1 \in Clients : heartbeat[c1] # None => heartbeat[c1].slot # s
  BY <1>1, <1>3 DEF SessionsSound, EndedIsRevoked, TouchUnderCeiling
<1>7. \A c1 \in Clients : heartbeat[c1] # None => heartbeat[c1].slot \in Slots
  BY <1>1 DEF SessionsSound, Touch
<1>8. SlidesUnderCeiling'
  BY <1>1, <1>4, <1>5 DEF SessionsSound, SlidesUnderCeiling, IsRow
<1>9. TouchUnderCeiling'
  BY <1>1, <1>3, <1>5, <1>6, <1>7 DEF SessionsSound, TouchUnderCeiling, IsRow
<1>10. EndedIsRevoked'
  BY <1>1, <1>3, <1>5, <1>6 DEF SessionsSound, EndedIsRevoked, IsRow
<1> QED
  BY <1>1, <1>3, <1>5, <1>8, <1>9, <1>10 DEF SessionsSound

LEMMA Purging ==
    ASSUME SessionInv, Purge
    PROVE  SessionsSound'
PROOF
<1>1. SessionsSound
  BY SessionsAreSound
<1>2. /\ session' = [s \in Slots |-> IF IsRow(s) /\ Purgeable(s) THEN Gone ELSE session[s]]
      /\ UNCHANGED <<heartbeat, ended>>
  BY DEF Purge
<1>3. \A s \in Slots : session'[s] = session[s] \/ (session'[s] = Gone /\ session[s] # None)
  BY <1>2 DEF IsRow
<1>4. /\ session' \in [Slots -> Session \cup {None, Gone}]
      /\ \A c \in Clients : heartbeat[c] # None => heartbeat[c].slot \in Slots
  BY <1>1, <1>2 DEF SessionsSound, Touch
<1>5. Gone # None
  BY SessionConstants
<1>6. SlidesUnderCeiling'
  BY <1>1, <1>3 DEF SessionsSound, SlidesUnderCeiling, IsRow
<1>7. TouchUnderCeiling'
  BY <1>1, <1>2, <1>3, <1>4, <1>5 DEF SessionsSound, TouchUnderCeiling, IsRow
<1>8. EndedIsRevoked'
  BY <1>1, <1>2, <1>3, <1>5 DEF SessionsSound, EndedIsRevoked, IsRow
<1> QED
  BY <1>1, <1>2, <1>4, <1>6, <1>7, <1>8 DEF SessionsSound

-----------------------------------------------------------------------------
(* Sessions: heartbeats.                                                   *)

\* The heartbeat the guard leaves behind stays under its row's ceiling.
LEMMA Resolving ==
    ASSUME SessionInv, NEW c \in Clients, Resolve(c)
    PROVE  SessionsSound'
PROOF
<1>1. SessionsSound /\ now \in 0 .. LastDay
  BY SessionsAreSound DEF SessionInv, TypeOK
<1>2. PICK s \in Slots :
         /\ Works(s)
         /\ heartbeat' = IF now - session[s].seen < TouchInterval THEN heartbeat
                         ELSE [heartbeat EXCEPT ![c] = [slot |-> s, seen |-> now,
                                             expires |-> SlidTo(session[s].ceiling)]]
         /\ UNCHANGED <<session, ended>>
  BY DEF Resolve
<1>3. CASE now - session[s].seen < TouchInterval
  BY <1>2, <1>3, SessionsAlone
<1>4. CASE ~(now - session[s].seen < TouchInterval)
  <2> DEFINE t == [slot |-> s, seen |-> now, expires |-> SlidTo(session[s].ceiling)]
  <2>1. session[s] \in Session
    BY <1>2, RowIsSession DEF Works, SessionInv
  <2>2. /\ t \in Touch /\ t.slot = s
        /\ t.expires <= session[s].ceiling
        /\ t.expires \in {t.seen + Ttl, session[s].ceiling}
        /\ session[s] # None
    <3>1. session[s].ceiling \in Instant
      BY <2>1 DEF Session
    <3> QED
      BY <1>1, <2>1, <3>1, Instants, SessionIsRow DEF Touch
  <2>3. heartbeat' = [heartbeat EXCEPT ![c] = t]
    BY <1>2, <1>4
  <2> HIDE DEF t
  <2>4. /\ heartbeat' \in [Clients -> Touch \cup {None}]
        /\ heartbeat'[c] = t
        /\ \A d \in Clients : d # c => heartbeat'[d] = heartbeat[d]
    BY <1>1, <2>2, <2>3 DEF SessionsSound
  <2>5. TouchUnderCeiling'
    BY <1>1, <1>2, <2>2, <2>4 DEF SessionsSound, TouchUnderCeiling, IsRow
  <2>6. SlidesUnderCeiling' /\ EndedIsRevoked'
    BY <1>1, <1>2 DEF SessionsSound, SlidesUnderCeiling, EndedIsRevoked, IsRow
  <2> QED
    BY <1>1, <1>2, <2>4, <2>5, <2>6 DEF SessionsSound
<1> QED
  BY <1>3, <1>4

\* A heartbeat slides its row only up to the ceiling, and a late one cannot
\* give a revoked session back.
LEMMA Touching ==
    ASSUME SessionInv, NEW c \in Clients, WriteTouch(c)
    PROVE  SessionsSound'
PROOF
<1> DEFINE t == heartbeat[c]
<1>1. SessionsSound
  BY SessionsAreSound
<1>2. /\ t \in Touch /\ t # None
      /\ session' = IF IsRow(t.slot)
                    THEN [session EXCEPT ![t.slot].seen = t.seen, ![t.slot].expires = t.expires]
                    ELSE session
      /\ heartbeat' = [heartbeat EXCEPT ![c] = None]
      /\ UNCHANGED ended
  BY <1>1 DEF WriteTouch, SessionsSound
<1>3. t.slot \in Slots /\ t.seen \in Instant /\ t.expires \in Instant
  BY <1>2 DEF Touch
<1>4. IsRow(t.slot) => /\ t.expires <= session[t.slot].ceiling
                       /\ t.expires \in {t.seen + Ttl, session[t.slot].ceiling}
  BY <1>1, <1>2 DEF SessionsSound, TouchUnderCeiling
<1> HIDE DEF t
<1>5. /\ heartbeat' \in [Clients -> Touch \cup {None}]
      /\ \A d \in Clients : heartbeat'[d] = None \/ heartbeat'[d] = heartbeat[d]
      /\ \A d \in Clients : heartbeat[d] # None => heartbeat[d].slot \in Slots
  BY <1>1, <1>2 DEF SessionsSound, Touch
<1>6. CASE ~IsRow(t.slot)
  <2>1. UNCHANGED <<session, ended>>
    BY <1>2, <1>6
  <2> QED
    BY <1>1, <1>5, <2>1 DEF SessionsSound, SlidesUnderCeiling, TouchUnderCeiling,
       EndedIsRevoked, IsRow
<1>7. CASE IsRow(t.slot)
  <2>1. session[t.slot] \in Session
    BY <1>3, <1>7, RowIsSession DEF SessionInv
  <2>2. session' = [session EXCEPT ![t.slot] = [session[t.slot] EXCEPT !.seen = t.seen,
                                                                 !.expires = t.expires]]
    BY <1>2, <1>7
  <2>3. /\ session'[t.slot] \in Session
        /\ session'[t.slot].ceiling = session[t.slot].ceiling
        /\ session'[t.slot].revoked = session[t.slot].revoked
        /\ session'[t.slot].expires = t.expires
        /\ session'[t.slot].seen = t.seen
        /\ \A s \in Slots : s # t.slot => session'[s] = session[s]
    BY <1>1, <1>3, <2>1, <2>2 DEF SessionsSound, Session
  <2>4. \A s \in Slots : /\ IsRow(s)' <=> IsRow(s)
                         /\ session'[s] = None <=> session[s] = None
    BY <2>1, <2>3, SessionIsRow DEF IsRow
  <2>5. \A s \in Slots : IsRow(s) => /\ session'[s].ceiling = session[s].ceiling
                                     /\ session'[s].revoked = session[s].revoked
    BY <2>3
  <2>6. session' \in [Slots -> Session \cup {None, Gone}]
    BY <1>1, <1>3, <2>2, <2>3 DEF SessionsSound
  <2>7. SlidesUnderCeiling'
    BY <1>1, <1>4, <1>7, <2>3, <2>4 DEF SessionsSound, SlidesUnderCeiling
  <2>8. TouchUnderCeiling'
    BY <1>1, <1>5, <2>4, <2>5 DEF SessionsSound, TouchUnderCeiling
  <2>9. EndedIsRevoked'
    BY <1>1, <1>2, <2>4, <2>5 DEF SessionsSound, EndedIsRevoked
  <2> QED
    BY <1>1, <1>2, <1>5, <2>6, <2>7, <2>8, <2>9 DEF SessionsSound
<1> QED
  BY <1>6, <1>7

LEMMA LosingTouch ==
    ASSUME SessionInv, NEW c \in Clients, LoseTouch(c)
    PROVE  SessionsSound'
PROOF
<1>1. SessionsSound
  BY SessionsAreSound
<1>2. heartbeat' = [heartbeat EXCEPT ![c] = None] /\ UNCHANGED <<session, ended>>
  BY DEF LoseTouch
<1>3. /\ heartbeat' \in [Clients -> Touch \cup {None}]
      /\ \A d \in Clients : heartbeat'[d] = None \/ heartbeat'[d] = heartbeat[d]
  BY <1>1, <1>2 DEF SessionsSound
<1> QED
  BY <1>1, <1>2, <1>3 DEF SessionsSound, SlidesUnderCeiling, TouchUnderCeiling,
     EndedIsRevoked, IsRow

-----------------------------------------------------------------------------
(* Sessions: the account, its links and the requests.                      *)

Account ==
    /\ now \in 0 .. LastDay
    /\ user \in [status : Status, failures : Nat, lockedUntil : Instant \cup {None}]
    /\ LockedMeansTried

Books ==
    /\ link \in [Links -> Link \cup {None}]
    /\ request \in [Clients -> Request \cup {None}]
    /\ ResetsHaveLinks

LEMMA Parts == SessionInv <=> SessionsSound /\ Account /\ Books
BY DEF SessionInv, TypeOK, SessionsSound, Account, Books

LEMMA Together ==
    ASSUME SessionsSound', Account', Books'
    PROVE  SessionInv'
BY DEF SessionInv, TypeOK, SessionsSound, Account, Books

LEMMA AccountAlone ==
    ASSUME Account, UNCHANGED <<now, user>>
    PROVE  Account'
BY DEF Account, LockedMeansTried

LEMMA ClearedAccount ==
    ASSUME Account, NEW status \in Status, user' = [Cleared(user) EXCEPT !.status = status],
           UNCHANGED now
    PROVE  Account'
BY DEF Account, LockedMeansTried, Cleared

\* No link row is taken away.
LinksKept ==
    /\ link' \in [Links -> Link \cup {None}]
    /\ \A l \in Links : link[l] # None => link'[l] # None

LEMMA LinksAlone ==
    ASSUME Books, UNCHANGED link
    PROVE  LinksKept
BY DEF Books, LinksKept

\* What a client is given to hold.
LEMMA Holding ==
    ASSUME Books, NEW c \in Clients, NEW r \in Request, Hold(c, r), LinksKept,
           r.op = "reset" => link'[r.link] # None
    PROVE  Books'
PROOF
<1>1. /\ request' \in [Clients -> Request \cup {None}]
      /\ request'[c] = r
      /\ \A d \in Clients : d # c => request'[d] = request[d]
  BY DEF Books, Hold
<1>2. \A d \in Clients : Doing(d, "reset") => request[d].link \in Links
  BY RequestFields DEF Books, Doing
<1> QED
  BY <1>1, <1>2 DEF Books, ResetsHaveLinks, Doing, LinksKept

LEMMA Finishing ==
    ASSUME Books, NEW c \in Clients, Finish(c), LinksKept
    PROVE  Books'
PROOF
<1>1. /\ request' \in [Clients -> Request \cup {None}]
      /\ \A d \in Clients : request'[d] = None \/ request'[d] = request[d]
  BY DEF Books, Finish, Hold
<1>2. \A d \in Clients : Doing(d, "reset") => request[d].link \in Links
  BY RequestFields DEF Books, Doing
<1> QED
  BY <1>1, <1>2 DEF Books, ResetsHaveLinks, Doing, LinksKept

LEMMA BooksAlone ==
    ASSUME Books, UNCHANGED <<link, request>>
    PROVE  Books'
BY DEF Books, ResetsHaveLinks, Doing

\* Signing in: what was read, what is written from it.
LEMMA SigningIn ==
    ASSUME SessionInv, NEW c \in Clients,
           ReadForLogin(c) \/ WriteFailure(c) \/ RecordLogin(c) \/ Issue(c)
    PROVE  SessionInv'
PROOF
<1>0. /\ SessionsSound /\ Account /\ Books
      /\ TypeOK
      /\ link \in [Links -> Link \cup {None}]
      /\ user.failures \in Nat
  BY Parts DEF Books, Account, SessionInv
<1>1. CASE ReadForLogin(c)
  <2>1. SessionsSound' /\ Account'
    BY <1>0, <1>1, SessionsAlone, AccountAlone DEF ReadForLogin
  <2>2. CASE user.failures < MaxTries /\ Hold(c, [op |-> "wrong", seen |-> user.failures])
    <3>1. [op |-> "wrong", seen |-> user.failures] \in Request
      BY <1>0, <2>2, SessionConstants DEF Request
    <3> QED
      BY <1>0, <1>1, <2>1, <2>2, <3>1, LinksAlone, Holding, Together DEF ReadForLogin
  <2>3. CASE Hold(c, [op |-> "right"])
    <3>1. [op |-> "right"] \in Request
      BY DEF Request
    <3> QED
      BY <1>0, <1>1, <2>1, <2>3, <3>1, LinksAlone, Holding, Together DEF ReadForLogin
  <2> QED
    BY <1>1, <2>2, <2>3 DEF ReadForLogin
<1>2. CASE WriteFailure(c)
  <2>1. request[c].seen \in 0 .. MaxTries
    BY <1>0, <1>2, InHand, RequestFields DEF WriteFailure
  <2> DEFINE next == request[c].seen + 1
             lock == IF next >= MaxFailed THEN now + Lockout ELSE None
  <2>2. next \in Nat /\ lock \in Instant \cup {None}
    BY <1>0, <2>1, Instants, SessionConstants DEF Account
  <2>3. lock # None => next >= MaxFailed
    OBVIOUS
  <2>4. user' = [user EXCEPT !.failures = next, !.lockedUntil = lock] /\ UNCHANGED now
    BY <1>2 DEF WriteFailure
  <2> HIDE DEF next, lock
  <2>5. Account'
    BY <1>0, <2>2, <2>3, <2>4 DEF Account, LockedMeansTried
  <2>6. SessionsSound' /\ Books'
    BY <1>0, <1>2, SessionsAlone, LinksAlone, Finishing DEF WriteFailure
  <2> QED
    BY <2>5, <2>6, Together
<1>3. CASE RecordLogin(c)
  <2>1. Account'
    BY <1>0, <1>3 DEF RecordLogin, Account, LockedMeansTried, Cleared
  <2>2. [op |-> "issue"] \in Request
    BY DEF Request
  <2>3. SessionsSound' /\ Books'
    BY <1>0, <1>3, <2>2, SessionsAlone, LinksAlone, Holding DEF RecordLogin
  <2> QED
    BY <2>1, <2>3, Together
<1>4. CASE Issue(c)
  <2>1. SessionsSound' /\ Account' /\ Books'
    BY <1>0, <1>4, Issuing, AccountAlone, LinksAlone, Finishing DEF Issue
  <2> QED
    BY <2>1, Together
<1> QED
  BY <1>1, <1>2, <1>3, <1>4

\* Requests on an open session, and signing out of one.
LEMMA UsingSessions ==
    ASSUME SessionInv, NEW c \in Clients,
           Resolve(c) \/ WriteTouch(c) \/ LoseTouch(c) \/ SignOut(c) \/ LogoutEverywhere(c)
    PROVE  SessionInv'
PROOF
<1>0. /\ SessionsSound /\ Account /\ Books
      /\ link \in [Links -> Link \cup {None}]
  BY Parts DEF Books
<1>1. CASE Resolve(c)
  <2>1. PICK s \in Slots : Hold(c, [op |-> "admitted", own |-> s])
    BY <1>1 DEF Resolve
  <2>2. [op |-> "admitted", own |-> s] \in Request
    BY DEF Request
  <2>3. UNCHANGED <<now, user, link>>
    BY <1>1 DEF Resolve
  <2> QED
    BY <1>0, <1>1, <2>1, <2>2, <2>3, Resolving, AccountAlone, LinksAlone, Holding, Together
<1>2. CASE WriteTouch(c)
  BY <1>0, <1>2, Touching, AccountAlone, BooksAlone, Together DEF WriteTouch
<1>3. CASE LoseTouch(c)
  BY <1>0, <1>3, LosingTouch, AccountAlone, BooksAlone, Together DEF LoseTouch
<1>4. CASE SignOut(c)
  <2>1. PICK s \in Slots : /\ IsRow(s)
                           /\ session' = [session EXCEPT ![s].revoked = TRUE]
                           /\ Finish(c)
                           /\ UNCHANGED <<now, user, link, heartbeat, ended>>
    BY <1>4 DEF SignOut
  <2>2. session' = [t \in Slots |-> IF t \in {s} THEN [session[t] EXCEPT !.revoked = TRUE]
                                    ELSE session[t]]
    BY <1>0, <2>1 DEF SessionsSound
  <2>3. SessionsSound'
    BY <2>1, <2>2, Revoking
  <2> QED
    BY <1>0, <2>1, <2>3, AccountAlone, LinksAlone, Finishing, Together
<1>5. CASE LogoutEverywhere(c)
  <2>1. SessionsSound'
    BY <1>5, RevokeAll DEF LogoutEverywhere
  <2> QED
    BY <1>0, <1>5, <2>1, AccountAlone, LinksAlone, Finishing, Together DEF LogoutEverywhere
<1> QED
  BY <1>1, <1>2, <1>3, <1>4, <1>5

\* Links and passwords.
LEMMA Passwords ==
    ASSUME SessionInv, NEW c \in Clients,
           \/ ForgotPassword(c) \/ CreateLink(c) \/ ReadForReset(c) \/ CommitReset(c)
           \/ ReadForChange(c) \/ WriteChange(c) \/ RevokeOthers(c) \/ Leave(c)
    PROVE  SessionInv'
PROOF
<1>0. /\ SessionsSound /\ Account /\ Books
      /\ TypeOK
      /\ link \in [Links -> Link \cup {None}]
      /\ now \in 0 .. LastDay
  BY Parts DEF Books, Account, SessionInv
<1>1. CASE ForgotPassword(c)
  <2>1. [op |-> "link"] \in Request
    BY DEF Request
  <2> QED
    BY <1>0, <1>1, <2>1, SessionsAlone, AccountAlone, LinksAlone, Holding, Together DEF ForgotPassword
<1>2. CASE CreateLink(c)
  <2> DEFINE new == [expires |-> now + LinkTtl, used |-> FALSE]
  <2>1. new \in Link
    BY <1>0, Instants DEF Link
  <2>2. new # None
    BY <2>1, SessionConstants
  <2>3. LinksKept
    BY <1>0, <1>2, <2>1, <2>2 DEF CreateLink, LinksKept
  <2> QED
    BY <1>0, <1>2, <2>3, SessionsAlone, AccountAlone, Finishing, Together DEF CreateLink
<1>3. CASE ReadForReset(c)
  <2>1. PICK l \in Links :
           /\ Hold(c, [op |-> "reset", link |-> l, activates |-> Accepts(user.status)])
           /\ link[l] # None
    BY <1>3 DEF ReadForReset
  <2>2. [op |-> "reset", link |-> l, activates |-> Accepts(user.status)] \in Request
    BY DEF Request, Accepts
  <2>3. UNCHANGED <<now, user, session, link, heartbeat, ended>>
    BY <1>3 DEF ReadForReset
  <2>4. Books'
    BY <1>0, <2>1, <2>2, <2>3, LinksAlone, Holding
  <2> QED
    BY <1>0, <2>3, <2>4, SessionsAlone, AccountAlone, Together
<1>4. CASE CommitReset(c)
  <2>1. LinksKept
    <3>0. request[c].link \in Links /\ link[request[c].link] \in Link
      <4>1. request[c].link \in Links
        BY <1>0, <1>4, InHand, RequestFields DEF CommitReset
      <4> QED
        BY <1>0, <1>4, <4>1 DEF CommitReset, Books, ResetsHaveLinks
    <3>1. link' = [link EXCEPT ![request[c].link].used = TRUE]
      BY <1>4 DEF CommitReset
    <3>2. /\ link'[request[c].link] \in Link
          /\ \A l \in Links : l # request[c].link => link'[l] = link[l]
      BY <1>0, <3>0, <3>1 DEF Link
    <3>3. link' \in [Links -> Link \cup {None}]
      BY <1>0, <3>0, <3>1, <3>2
    <3>4. link'[request[c].link] # None
      BY <3>2, SessionConstants
    <3> QED
      BY <1>0, <3>2, <3>3, <3>4 DEF LinksKept
  <2>2. SessionsSound'
    BY <1>4, RevokeAll DEF CommitReset
  <2>3. Account'
    <3> DEFINE status == IF request[c].activates THEN "ACTIVE" ELSE user.status
    <3>1. status \in Status
      BY <1>0 DEF Account, Status
    <3>2. user' = [Cleared(user) EXCEPT !.status = status]
      BY <1>0, <1>4 DEF CommitReset, Cleared, Account
    <3>3. UNCHANGED now
      BY <1>4 DEF CommitReset
    <3> HIDE DEF status
    <3> QED
      BY <1>0, <3>1, <3>2, <3>3, ClearedAccount
  <2> QED
    BY <1>0, <1>4, <2>1, <2>2, <2>3, Finishing, Together DEF CommitReset
<1>5. CASE ReadForChange(c)
  <2>1. request[c] \in Request /\ request[c].op = "admitted"
    BY <1>0, <1>5, InHand DEF ReadForChange
  <2> DEFINE r == [request[c] EXCEPT !.op = "change"]
  <2>2. r \in Request /\ r.op # "reset"
    BY <2>1 DEF Request
  <2>3. Hold(c, r) /\ UNCHANGED <<now, user, session, link, heartbeat, ended>>
    BY <1>5 DEF ReadForChange
  <2> HIDE DEF r
  <2>4. Books'
    BY <1>0, <2>2, <2>3, LinksAlone, Holding
  <2> QED
    BY <1>0, <2>3, <2>4, SessionsAlone, AccountAlone, Together
<1>6. CASE WriteChange(c)
  <2>1. request[c] \in Request /\ request[c].op = "change"
    BY <1>0, <1>6, InHand DEF WriteChange
  <2> DEFINE r == [request[c] EXCEPT !.op = "signOutOthers"]
  <2>2. r \in Request /\ r.op # "reset"
    BY <2>1 DEF Request
  <2>3. Hold(c, r) /\ UNCHANGED <<now, user, session, link, heartbeat, ended>>
    BY <1>6 DEF WriteChange
  <2> HIDE DEF r
  <2>4. Books'
    BY <1>0, <2>2, <2>3, LinksAlone, Holding
  <2> QED
    BY <1>0, <2>3, <2>4, SessionsAlone, AccountAlone, Together
<1>7. CASE RevokeOthers(c)
  <2>1. {request[c].own} \in SUBSET Slots
    BY <1>0, <1>7, InHand, RequestFields DEF RevokeOthers
  <2>2. SessionsSound'
    BY <1>7, <2>1, RevokeAll DEF RevokeOthers
  <2> QED
    BY <1>0, <1>7, <2>2, AccountAlone, LinksAlone, Finishing, Together DEF RevokeOthers
<1>8. CASE Leave(c)
  BY <1>0, <1>8, SessionsAlone, AccountAlone, LinksAlone, Finishing, Together DEF Leave
<1> QED
  BY <1>1, <1>2, <1>3, <1>4, <1>5, <1>6, <1>7, <1>8

\* The office, the nightly purge and the clock.
LEMMA Around ==
    ASSUME SessionInv, (\E active \in BOOLEAN : SetActive(active)) \/ Purge \/ Tick
    PROVE  SessionInv'
PROOF
<1>0. SessionsSound /\ Account /\ Books
  BY Parts
<1>1. ASSUME NEW active \in BOOLEAN, SetActive(active)
      PROVE  SessionInv'
  <2>1. SessionsSound'
    <3>1. CASE active
      BY <1>1, <3>1, SessionsAlone DEF SetActive
    <3>2. CASE ~active
      BY <1>1, <3>2, RevokeAll DEF SetActive
    <3> QED
      BY <3>1, <3>2
  <2>2. Account'
    BY <1>0, <1>1 DEF SetActive, Account, LockedMeansTried, Status
  <2> QED
    BY <1>0, <1>1, <2>1, <2>2, BooksAlone, Together DEF SetActive
<1>2. CASE Purge
  BY <1>0, <1>2, Purging, AccountAlone, BooksAlone, Together DEF Purge
<1>3. CASE Tick
  <2>1. Account'
    BY <1>0, <1>3, SessionConstants DEF Tick, Account, LockedMeansTried
  <2> QED
    BY <1>0, <1>3, <2>1, SessionsAlone, BooksAlone, Together DEF Tick
<1> QED
  BY <1>1, <1>2, <1>3

-----------------------------------------------------------------------------
(* Sessions: the theorems.                                                 *)

LEMMA SessionInit == Init => SessionInv
PROOF
<1> SUFFICES ASSUME Init PROVE SessionInv
  OBVIOUS
<1>1. [expires |-> LinkTtl, used |-> FALSE] \in Link /\ 0 \in 0 .. LastDay
  BY SessionConstants DEF Link, Instant
<1>2. TypeOK
  BY <1>1 DEF Init, TypeOK, Status
<1> QED
  BY <1>2 DEF Init, SessionInv, SlidesUnderCeiling, TouchUnderCeiling, EndedIsRevoked,
     LockedMeansTried, ResetsHaveLinks, Doing, IsRow

LEMMA SessionNext == SessionInv /\ [Next]_vars => SessionInv'
PROOF
<1> SUFFICES ASSUME SessionInv, [Next]_vars PROVE SessionInv'
  OBVIOUS
<1>1. ASSUME NEW c \in Clients, ClientStep(c) PROVE SessionInv'
  BY <1>1, SigningIn, UsingSessions, Passwords DEF ClientStep
<1>2. CASE UNCHANGED vars
  <2>1. SessionsSound /\ Account /\ Books
    BY Parts
  <2> QED
    BY <1>2, <2>1, SessionsAlone, AccountAlone, BooksAlone, Together DEF vars
<1>3. CASE \/ \E active \in BOOLEAN : SetActive(active)
           \/ Purge
           \/ Tick
  BY <1>3, Around
<1> QED
  BY <1>1, <1>2, <1>3 DEF Next

\* Types, and what every session, heartbeat and lock satisfies, hold in every
\* reachable state, however late a request or a heartbeat writes.
THEOREM SessionsSafe == Spec => []SessionInv
PROOF
<1> QED
  BY SessionInit, SessionNext, PTL DEF Spec

\* A session slides from its last use and never past the ceiling it was issued
\* with, for every choice of lifetimes and any number of heartbeats.
THEOREM SlidesSafely == Spec => []SlidesUnderCeiling
PROOF
<1>1. SessionInv => SlidesUnderCeiling
  BY DEF SessionInv
<1> QED
  BY <1>1, SessionsSafe, PTL

\* Signing out everywhere, a reset and a deactivation end every session there
\* was, for good.
THEOREM SignOutLasts == Spec => []SignedOutForEver
PROOF
<1>1. SessionInv => SignedOutForEver
  BY DEF SessionInv, EndedIsRevoked, SignedOutForEver, Works
<1> QED
  BY <1>1, SessionsSafe, PTL

\* Nobody is locked out before MaxFailed failures in a row.
THEOREM LocksAreEarned == Spec => []LockedMeansTried
PROOF
<1>1. SessionInv => LockedMeansTried
  BY DEF SessionInv
<1> QED
  BY <1>1, SessionsSafe, PTL

-----------------------------------------------------------------------------
(* Sessions: invitations.                                                  *)

\* A request held by another client, and one that is neither a link nor a reset,
\* leave InvitedInv as it was.
LEMMA OtherRequests ==
    ASSUME SessionInv, InvitedInv, NEW c \in Clients, NEW r \in Request \cup {None}, Hold(c, r),
           r # None => r.op \notin {"link", "reset"},
           UNCHANGED link,
           user'.status # user.status => user'.status # "INVITED"
    PROVE  InvitedInv'
PROOF
<1>1. /\ request'[c] = r
      /\ \A d \in Clients : d # c => request'[d] = request[d]
  BY DEF SessionInv, TypeOK, Hold
<1> QED
  BY <1>1 DEF InvitedInv, Doing

LEMMA InvitedInit == Init => InvitedInv
BY DEF Init, InvitedInv, Doing

LEMMA InvitedNext == SessionInv /\ InvitedInv /\ [Next]_vars => InvitedInv'
PROOF
<1> SUFFICES ASSUME SessionInv, InvitedInv, [Next]_vars PROVE InvitedInv'
  OBVIOUS
<1>0. TypeOK
  BY DEF SessionInv
<1>1. ASSUME NEW c \in Clients, ClientStep(c) PROVE InvitedInv'
  <2>1. CASE ReadForLogin(c)
    <3>1. [op |-> "wrong", seen |-> user.failures] \in Request \/ user.failures >= MaxTries
      BY <1>0, SessionConstants DEF Request, TypeOK
    <3>2. [op |-> "right"] \in Request
      BY DEF Request
    <3>3. PICK r \in Request : Hold(c, r) /\ r.op \notin {"link", "reset"}
      BY <1>0, <2>1, <3>1, <3>2, SessionConstants DEF ReadForLogin, TypeOK
    <3> QED
      BY <2>1, <3>3, OtherRequests DEF ReadForLogin
  <2>2. CASE WriteFailure(c)
    <3>1. Hold(c, None) /\ UNCHANGED link
      BY <2>2 DEF WriteFailure, Finish
    <3>2. user'.status = user.status
      BY <1>0, <2>2 DEF WriteFailure, TypeOK
    <3> QED
      BY <3>1, <3>2, OtherRequests
  <2>3. CASE RecordLogin(c)
    <3>1. [op |-> "issue"] \in Request
      BY DEF Request
    <3>2. Hold(c, [op |-> "issue"]) /\ UNCHANGED link
      BY <2>3 DEF RecordLogin
    <3>3. user'.status = user.status
      BY <1>0, <2>3 DEF RecordLogin, TypeOK, Cleared
    <3> QED
      BY <3>1, <3>2, <3>3, OtherRequests
  <2>4. CASE Resolve(c)
    <3>1. PICK s \in Slots : Hold(c, [op |-> "admitted", own |-> s])
      BY <2>4 DEF Resolve
    <3>2. [op |-> "admitted", own |-> s] \in Request
      BY DEF Request
    <3>3. UNCHANGED <<user, link>>
      BY <2>4 DEF Resolve
    <3> QED
      BY <3>1, <3>2, <3>3, OtherRequests
  <2>5. CASE WriteTouch(c) \/ LoseTouch(c)
    BY <2>5 DEF WriteTouch, LoseTouch, InvitedInv, Doing
  <2>6. CASE Issue(c) \/ SignOut(c) \/ LogoutEverywhere(c) \/ RevokeOthers(c) \/ Leave(c)
    <3>1. Hold(c, None) /\ UNCHANGED <<user, link>>
      BY <2>6 DEF Issue, SignOut, LogoutEverywhere, RevokeOthers, Leave, Finish
    <3> QED
      BY <3>1, OtherRequests
  <2>7. CASE ForgotPassword(c)
    BY <1>0, <2>7 DEF ForgotPassword, Hold, InvitedInv, Doing, TypeOK
  <2>8. CASE CreateLink(c)
    <3>1. /\ Doing(c, "link") /\ UNCHANGED user
          /\ request'[c] = None
          /\ \A d \in Clients : d # c => request'[d] = request[d]
      BY <1>0, <2>8 DEF CreateLink, Finish, Hold, TypeOK
    <3>2. user.status # "INVITED"
      BY <3>1 DEF InvitedInv
    <3> QED
      BY <3>1, <3>2 DEF InvitedInv, Doing
  <2>9. CASE ReadForReset(c)
    <3>1. PICK l \in Links :
             /\ Hold(c, [op |-> "reset", link |-> l, activates |-> Accepts(user.status)])
             /\ link[l] # None
             /\ UNCHANGED <<user, link>>
      BY <2>9 DEF ReadForReset
    <3>2. Accepts(user.status) => l = Invitation
      BY <3>1 DEF InvitedInv, Accepts
    <3>3. /\ request'[c] = [op |-> "reset", link |-> l, activates |-> Accepts(user.status)]
          /\ \A d \in Clients : d # c => request'[d] = request[d]
      BY <1>0, <3>1 DEF Hold, TypeOK
    <3>4. \A d \in Clients : Doing(d, "link")' => Doing(d, "link")
      BY <3>3 DEF Doing
    <3>5. \A d \in Clients : Doing(d, "reset")' /\ request'[d].activates
                                => request'[d].link = Invitation
      BY <3>2, <3>3 DEF InvitedInv, Doing
    <3> QED
      BY <3>1, <3>4, <3>5 DEF InvitedInv
  <2>10. CASE CommitReset(c)
    <3>1. /\ link' = [link EXCEPT ![request[c].link].used = TRUE]
          /\ Doing(c, "reset")
          /\ request'[c] = None
          /\ \A d \in Clients : d # c => request'[d] = request[d]
      BY <1>0, <2>10 DEF CommitReset, Finish, Hold, TypeOK
    <3>2. request[c].link \in Links /\ link[request[c].link] # None
      BY <1>0, <3>1, InHand, RequestFields DEF SessionInv, ResetsHaveLinks
    <3>3. user'.status = user.status \/ user'.status # "INVITED"
      BY <1>0, <2>10 DEF CommitReset, Cleared, TypeOK
    <3>4. user.status = "INVITED" => request[c].link = Invitation
      BY <3>2 DEF InvitedInv
    <3>5. \A l \in Links : l # request[c].link => link'[l] = link[l]
      BY <1>0, <3>1 DEF TypeOK
    <3> QED
      BY <3>1, <3>3, <3>4, <3>5 DEF InvitedInv, Doing
  <2>11. CASE ReadForChange(c) \/ WriteChange(c)
    <3>1. request[c] \in Request /\ request[c].op \in {"admitted", "change"}
      BY <1>0, <2>11, InHand DEF ReadForChange, WriteChange
    <3>2. PICK op \in {"change", "signOutOthers"} : Hold(c, [request[c] EXCEPT !.op = op])
      BY <2>11 DEF ReadForChange, WriteChange
    <3>3. [request[c] EXCEPT !.op = op] \in Request /\ [request[c] EXCEPT !.op = op].op = op
      BY <3>1, <3>2 DEF Request
    <3>4. UNCHANGED <<user, link>>
      BY <2>11 DEF ReadForChange, WriteChange
    <3> QED
      BY <3>2, <3>3, <3>4, OtherRequests
  <2> QED
    BY <1>1, <2>1, <2>2, <2>3, <2>4, <2>5, <2>6, <2>7, <2>8, <2>9, <2>10, <2>11 DEF ClientStep
<1>2. CASE \E active \in BOOLEAN : SetActive(active)
  BY <1>0, <1>2 DEF SetActive, InvitedInv, Doing, TypeOK
<1>3. CASE Purge \/ Tick \/ UNCHANGED vars
  BY <1>3 DEF Purge, Tick, vars, InvitedInv, Doing
<1> QED
  BY <1>1, <1>2, <1>3 DEF Next

\* Only the invitation activates an account: using any other link leaves its
\* status as it is, whatever happened between the read and the commit.
THEOREM OnlyTheInvitation == Spec => OnlyInvitesActivate
PROOF
<1>1. ASSUME SessionInv, InvitedInv, [Next]_vars
      PROVE  [\A l \in Links \ {Invitation} : link[l] # link'[l] => user'.status = user.status]_vars
  <2> SUFFICES ASSUME Next, NEW l \in Links \ {Invitation}, link[l] # link'[l]
               PROVE  user'.status = user.status
    BY <1>1
  <2>1. PICK c \in Clients : CreateLink(c) \/ CommitReset(c)
    BY DEF Next, ClientStep, ReadForLogin, WriteFailure, RecordLogin, Issue, Resolve, WriteTouch,
       LoseTouch, SignOut, LogoutEverywhere, ForgotPassword, ReadForReset, ReadForChange,
       WriteChange, RevokeOthers, Leave, SetActive, Purge, Tick
  <2>2. CASE CreateLink(c)
    BY <2>2 DEF CreateLink
  <2>3. CASE CommitReset(c)
    <3>1. request[c].link = l
      BY <1>1, <2>3 DEF CommitReset, SessionInv, TypeOK
    <3>2. Doing(c, "reset") /\ request[c].activates \in BOOLEAN
      BY <1>1, <2>3, InHand, RequestFields DEF CommitReset, SessionInv
    <3>3. request[c].activates = FALSE
      BY <1>1, <3>1, <3>2 DEF InvitedInv
    <3> QED
      BY <1>1, <2>3, <3>3 DEF CommitReset, Cleared, SessionInv, TypeOK
  <2> QED
    BY <2>1, <2>2, <2>3
<1>2. Spec => []InvitedInv
  BY InvitedInit, InvitedNext, SessionsSafe, PTL DEF Spec
<1> QED
  BY <1>1, <1>2, SessionsSafe, PTL DEF Spec, OnlyInvitesActivate

-----------------------------------------------------------------------------
(* WebClient: mutations on their way.                                      *)

\* Only who listens to its answer has changed of any mutation.
ButForEars(sent, then) ==
    /\ then \in Seq(Post)
    /\ DOMAIN then = DOMAIN sent
    /\ \A i \in DOMAIN sent :
          /\ then[i].dialog = sent[i].dialog /\ then[i].key = sent[i].key
          /\ then[i].served = sent[i].served /\ then[i].place = sent[i].place

LEMMA PostsIndexed ==
    ASSUME NEW sent \in Seq(Post)
    PROVE  /\ DOMAIN sent = 1 .. Len(sent) /\ Len(sent) \in Nat
           /\ \A i \in DOMAIN sent : sent[i] \in Post
BY LenProperties, ElementOfSeq

\* Whatever maps a sequence of mutations to mutations makes a sequence of them.
LEMMA PostsMapped ==
    ASSUME NEW sent \in Seq(Post), NEW then \in [DOMAIN sent -> Post]
    PROVE  then \in Seq(Post) /\ DOMAIN then = DOMAIN sent
BY PostsIndexed, SeqDef

Ears == {"dialog", "page", "cache", "none"}

\* Who listens is all that an entry's new ear changes.
LEMMA EarMoved ==
    ASSUME NEW p \in Post, NEW e \in Ears
    PROVE  LET q == [p EXCEPT !.ear = e]
           IN  /\ q \in Post /\ p.ear \in Ears
               /\ q.dialog = p.dialog /\ q.key = p.key
               /\ q.served = p.served /\ q.place = p.place
BY DEF Post, Ears

\* Each mutation is as it was, or another listens to it.
LEMMA EarsMoved ==
    ASSUME NEW sent \in Seq(Post), NEW then \in [DOMAIN sent -> Post],
           \A i \in DOMAIN sent :
              then[i] = sent[i] \/ \E e \in Ears : then[i] = [sent[i] EXCEPT !.ear = e]
    PROVE  ButForEars(sent, then)
PROOF
<1>1. ASSUME NEW i \in DOMAIN sent
      PROVE  /\ then[i].dialog = sent[i].dialog /\ then[i].key = sent[i].key
             /\ then[i].served = sent[i].served /\ then[i].place = sent[i].place
  <2>1. sent[i] \in Post
    BY PostsIndexed
  <2>2. CASE then[i] = sent[i]
    BY <2>2
  <2>3. CASE \E e \in Ears : then[i] = [sent[i] EXCEPT !.ear = e]
    BY <2>1, <2>3, EarMoved
  <2> QED
    BY <2>2, <2>3
<1> QED
  BY <1>1, PostsMapped DEF ButForEars

LEMMA OutliveEars ==
    ASSUME NEW sent \in Seq(Post)
    PROVE  ButForEars(sent, Outlive(sent))
PROOF
<1>1. \A i \in DOMAIN sent :
         sent[i] \in Post /\ [sent[i] EXCEPT !.ear = "cache"] \in Post
  BY PostsIndexed, EarMoved DEF Ears
<1>2. Outlive(sent) \in [DOMAIN sent -> Post]
  BY <1>1 DEF Outlive
<1>3. \A i \in DOMAIN sent :
         Outlive(sent)[i] = sent[i] \/ Outlive(sent)[i] = [sent[i] EXCEPT !.ear = "cache"]
  BY DEF Outlive
<1> QED
  BY <1>2, <1>3, EarsMoved DEF Ears

\* One mutation is no longer listened to.
LEMMA NoneHears ==
    ASSUME NEW sent \in Seq(Post), NEW i \in DOMAIN sent
    PROVE  ButForEars(sent, [sent EXCEPT ![i].ear = "none"])
PROOF
<1> DEFINE then == [sent EXCEPT ![i].ear = "none"]
<1>1. /\ sent \in [DOMAIN sent -> Post]
      /\ [sent[i] EXCEPT !.ear = "none"] \in Post
  BY PostsIndexed, LenProperties, EarMoved DEF Ears
<1>2. then \in [DOMAIN sent -> Post]
  BY <1>1
<1>3. \A j \in DOMAIN sent : then[j] = sent[j] \/ then[j] = [sent[j] EXCEPT !.ear = "none"]
  BY <1>1
<1> HIDE DEF then
<1>4. ButForEars(sent, then)
  BY <1>2, <1>3, EarsMoved DEF Ears
<1> QED
  BY <1>4 DEF then

\* Nobody has begun to listen to anything else.
LEMMA NothingHeard ==
    ASSUME NEW sent \in Seq(Post)
    PROVE  ButForEars(sent, sent)
BY DEF ButForEars

LEMMA EarsTwice ==
    ASSUME NEW sent, NEW then, NEW last, ButForEars(sent, then), ButForEars(then, last)
    PROVE  ButForEars(sent, last)
BY DEF ButForEars

-----------------------------------------------------------------------------
(* WebClient: the steps, by what they do.                                  *)

\* The query's own steps move nothing but the cache and the request.
Querying == ReadFetch \/ AnswerFetch \/ FailFetch \/ Age \/ Refetch \/ Collect

\* Pages, dialogs and answers that say no: the API and what is known of it stay.
Moving == Visit \/ Reload \/ OpenDialog \/ CloseDialog \/ HearRefused \/ LoseAnswer

LEMMA QueryingMoves ==
    ASSUME Querying
    PROVE  UNCHANGED <<story, page, form, dialog, posts, log, owed>>
BY DEF Querying, ReadFetch, AnswerFetch, FailFetch, Age, Refetch, Collect

LEMMA MovingEars ==
    ASSUME ClientTypes, Moving
    PROVE  ButForEars(posts, posts') /\ UNCHANGED <<story, log, owed>>
PROOF
<1>0. posts \in Seq(Post) /\ posts \in [DOMAIN posts -> Post]
  BY PostsIndexed, LenProperties DEF ClientTypes
<1>1. CASE Visit
  BY <1>0, <1>1, OutliveEars DEF Visit
<1>2. CASE Reload
  <2>1. /\ posts' = [i \in DOMAIN posts |-> [posts[i] EXCEPT !.ear = "none"]]
        /\ UNCHANGED <<story, log, owed>>
    BY <1>2 DEF Reload
  <2>2. \A i \in DOMAIN posts : [posts[i] EXCEPT !.ear = "none"] \in Post
    BY <1>0, EarMoved DEF Ears
  <2>3. posts' \in [DOMAIN posts -> Post]
    BY <2>1, <2>2
  <2> QED
    BY <1>0, <2>1, <2>3, EarsMoved DEF Ears
<1>3. CASE OpenDialog
  BY <1>0, <1>3, NothingHeard DEF OpenDialog
<1>4. CASE CloseDialog
  <2>1. /\ posts' = [i \in DOMAIN posts |->
                       IF posts[i].ear = "dialog" /\ story.kind \in Forgetful
                       THEN [posts[i] EXCEPT !.ear = "page"] ELSE posts[i]]
        /\ UNCHANGED <<story, log, owed>>
    BY <1>4 DEF CloseDialog
  <2>2. \A i \in DOMAIN posts : [posts[i] EXCEPT !.ear = "page"] \in Post
    BY <1>0, EarMoved DEF Ears
  <2>3. posts' \in [DOMAIN posts -> Post]
    BY <1>0, <2>1, <2>2
  <2> QED
    BY <1>0, <2>1, <2>3, EarsMoved DEF Ears
<1>5. CASE HearRefused \/ LoseAnswer
  <2>1. PICK i \in DOMAIN posts : posts' = [posts EXCEPT ![i].ear = "none"]
    BY <1>5 DEF HearRefused, LoseAnswer
  <2>2. UNCHANGED <<story, log, owed>>
    BY <1>5 DEF HearRefused, LoseAnswer
  <2> QED
    BY <1>0, <2>1, <2>2, NoneHears
<1> QED
  BY <1>1, <1>2, <1>3, <1>4, <1>5 DEF Moving

\* An answer that says the mutation was committed.
LEMMA HearDoneEars ==
    ASSUME ClientTypes, HearDone
    PROVE  /\ ButForEars(posts, posts') /\ UNCHANGED <<story, dialog, log>>
           /\ form' \in {form, "shut"}
           /\ page' \in {page} \cup story.leads
           /\ \E i \in DOMAIN posts :
                 posts[i].served = "yes"
                 /\ owed' = (IF owed < posts[i].place THEN posts[i].place ELSE owed)
PROOF
<1>0. posts \in Seq(Post)
  BY DEF ClientTypes
<1>1. PICK i \in DOMAIN posts :
         /\ posts[i].served = "yes"
         /\ posts' = IF story.leads = {} THEN [posts EXCEPT ![i].ear = "none"]
                     ELSE Outlive([posts EXCEPT ![i].ear = "none"])
         /\ owed' = IF owed < posts[i].place THEN posts[i].place ELSE owed
         /\ form' \in {form, "shut"}
         /\ page' \in IF story.leads = {} THEN {page} ELSE story.leads
         /\ UNCHANGED <<story, dialog, log>>
  BY DEF HearDone
<1> DEFINE heard == [posts EXCEPT ![i].ear = "none"]
<1>2. ButForEars(posts, heard)
  BY <1>0, NoneHears
<1>3. posts' = heard \/ posts' = Outlive(heard)
  BY <1>1
<1> HIDE DEF heard
<1>4. ButForEars(heard, Outlive(heard))
  BY <1>2, OutliveEars DEF ButForEars
<1>5. ButForEars(posts, posts')
  BY <1>2, <1>3, <1>4, EarsTwice
<1> QED
  BY <1>1, <1>5

\* A press sends the mutation under the key of the dialog.
LEMMA SubmitSends ==
    ASSUME ClientTypes, Submit
    PROVE  \E p \in Post :
              /\ p.dialog = dialog /\ p.key = <<dialog>> /\ p.served = "no"
              /\ posts' = Append(posts, p) /\ posts' \in Seq(Post)
              /\ DOMAIN posts' = 1 .. Len(posts) + 1
              /\ \A i \in DOMAIN posts : posts'[i] = posts[i]
              /\ posts'[Len(posts) + 1] = p
              /\ UNCHANGED <<story, page, form, dialog, cache, fetch, log, owed>>
PROOF
<1> DEFINE p == [dialog |-> dialog, key |-> <<dialog>>, served |-> "no", place |-> 0,
                 ear |-> "dialog"]
<1>1. posts' = Append(posts, p) /\ UNCHANGED <<story, page, form, dialog, cache, fetch, log, owed>>
  BY DEF Submit, KeyOf
<1>2. dialog \in Nat /\ posts \in Seq(Post)
  BY DEF ClientTypes
<1>3. p \in Post
  BY <1>2 DEF Post
<1>4. p.dialog = dialog /\ p.key = <<dialog>> /\ p.served = "no"
  OBVIOUS
<1> HIDE DEF p
<1> QED
  BY <1>1, <1>2, <1>3, <1>4, AppendProperties, LenProperties

\* A key of a payment that the API knows is in one place of its log.
LEMMA KnownOnce ==
    ASSUME ClientTypes, KeysTakenOnce, story.kind = Payment,
           NEW key, Committed(key) # {}
    PROVE  Least(Committed(key)) \in Committed(key)
PROOF
<1>1. PICK k \in DOMAIN log : log[k].key = key
  BY DEF Committed
<1>2. Committed(key) = {k}
  BY <1>1 DEF Committed, KeysTakenOnce
<1>3. k \in Nat
  BY <1>1, LenProperties DEF ClientTypes
<1>4. Least({k}) = k
  BY <1>3 DEF Least
<1> QED
  BY <1>2, <1>4

\* What the API has decided of mutation i, and of no other.
Decided(i) ==
    /\ posts' \in Seq(Post) /\ DOMAIN posts' = DOMAIN posts
    /\ \A j \in DOMAIN posts : /\ posts'[j].dialog = posts[j].dialog
                               /\ posts'[j].key = posts[j].key
    /\ \A j \in DOMAIN posts \ {i} : posts'[j] = posts[j]
    /\ UNCHANGED <<story, page, form, dialog, cache, fetch, owed>>

LEMMA DecidedOne ==
    ASSUME posts \in Seq(Post), posts \in [DOMAIN posts -> Post],
           NEW i \in DOMAIN posts, NEW q \in Post,
           q.dialog = posts[i].dialog, q.key = posts[i].key,
           posts' = [posts EXCEPT ![i] = q],
           UNCHANGED <<story, page, form, dialog, cache, fetch, owed>>
    PROVE  Decided(i) /\ posts'[i] = q
PROOF
<1>1. posts' \in [DOMAIN posts -> Post]
  OBVIOUS
<1> QED
  BY <1>1, PostsMapped DEF Decided

\* It is committed at the end of the log, unless it is a payment that is there.
LEMMA ServeCommits ==
    ASSUME ClientTypes, KeysTakenOnce, Serve
    PROVE  \E i \in DOMAIN posts :
              /\ Decided(i) /\ posts'[i].served = "yes"
              /\ \/ /\ story.kind = Payment => Committed(posts[i].key) = {}
                    /\ log' = Append(log, [dialog |-> posts[i].dialog, key |-> posts[i].key])
                    /\ posts'[i].place = Len(log) + 1
                 \/ /\ UNCHANGED log
                    /\ posts'[i].place \in DOMAIN log
PROOF
<1>0. /\ posts \in Seq(Post) /\ posts \in [DOMAIN posts -> Post]
      /\ Len(log) \in Nat /\ DOMAIN log = 1 .. Len(log)
  BY PostsIndexed, LenProperties DEF ClientTypes
<1>1. PICK i \in DOMAIN posts :
         LET known == IF story.kind = Payment THEN Committed(posts[i].key) ELSE {}
         IN  IF known = {}
             THEN /\ log' = Append(log, [dialog |-> posts[i].dialog, key |-> posts[i].key])
                  /\ posts' = [posts EXCEPT ![i].served = "yes", ![i].place = Len(log) + 1]
             ELSE /\ posts' = [posts EXCEPT ![i].served = "yes", ![i].place = Least(known)]
                  /\ UNCHANGED log
  BY DEF Serve
<1>2. UNCHANGED <<story, page, form, dialog, cache, fetch, owed>>
  BY DEF Serve
<1>3. CASE story.kind = Payment => Committed(posts[i].key) = {}
  <2>1. /\ log' = Append(log, [dialog |-> posts[i].dialog, key |-> posts[i].key])
        /\ posts' = [posts EXCEPT ![i].served = "yes", ![i].place = Len(log) + 1]
    BY <1>1, <1>3
  <2>2. Len(log) + 1 \in Nat
    BY <1>0
  <2> DEFINE q == [posts[i] EXCEPT !.served = "yes", !.place = Len(log) + 1]
  <2>3. /\ q \in Post /\ q.dialog = posts[i].dialog /\ q.key = posts[i].key
        /\ q.served = "yes" /\ q.place = Len(log) + 1
    BY <1>0, <2>2 DEF Post
  <2>4. posts' = [posts EXCEPT ![i] = q]
    BY <2>1
  <2> HIDE DEF q
  <2>5. Decided(i) /\ posts'[i].served = "yes" /\ posts'[i].place = Len(log) + 1
    BY <1>0, <1>2, <2>3, <2>4, DecidedOne
  <2> QED
    BY <1>3, <2>1, <2>5
<1>4. CASE story.kind = Payment /\ Committed(posts[i].key) # {}
  <2> DEFINE n == Least(Committed(posts[i].key))
  <2>1. UNCHANGED log /\ posts' = [posts EXCEPT ![i].served = "yes", ![i].place = n]
    BY <1>1, <1>4
  <2>2. n \in DOMAIN log
    BY <1>4, KnownOnce DEF Committed
  <2>3. n \in Nat
    BY <1>0, <2>2
  <2> HIDE DEF n
  <2> DEFINE q == [posts[i] EXCEPT !.served = "yes", !.place = n]
  <2>4. /\ q \in Post /\ q.dialog = posts[i].dialog /\ q.key = posts[i].key
        /\ q.served = "yes" /\ q.place = n
    BY <1>0, <2>3 DEF Post
  <2>5. posts' = [posts EXCEPT ![i] = q]
    BY <2>1
  <2> HIDE DEF q
  <2>6. Decided(i) /\ posts'[i].served = "yes" /\ posts'[i].place = n
    BY <1>0, <1>2, <2>4, <2>5, DecidedOne
  <2> QED
    BY <2>1, <2>2, <2>6
<1> QED
  BY <1>3, <1>4

LEMMA RefuseDecides ==
    ASSUME ClientTypes, Refuse
    PROVE  /\ UNCHANGED log
           /\ \E i \in DOMAIN posts : Decided(i) /\ posts'[i].served # "yes"
PROOF
<1>0. posts \in Seq(Post) /\ posts \in [DOMAIN posts -> Post]
  BY PostsIndexed, LenProperties DEF ClientTypes
<1>1. PICK i \in DOMAIN posts :
         posts' = [posts EXCEPT ![i].served = IF story.may.do THEN "refused" ELSE "forbidden"]
  BY DEF Refuse
<1>2. UNCHANGED <<story, page, form, dialog, cache, fetch, log, owed>>
  BY DEF Refuse
<1>3. PICK s \in {"refused", "forbidden"} : posts' = [posts EXCEPT ![i].served = s]
  BY <1>1
<1> DEFINE q == [posts[i] EXCEPT !.served = s]
<1>4. /\ q \in Post /\ q.dialog = posts[i].dialog /\ q.key = posts[i].key /\ q.served = s
  BY <1>0 DEF Post
<1>5. posts' = [posts EXCEPT ![i] = q]
  BY <1>3
<1> HIDE DEF q
<1>6. Decided(i) /\ posts'[i].served = s
  BY <1>0, <1>2, <1>4, <1>5, DecidedOne
<1> QED
  BY <1>2, <1>6

-----------------------------------------------------------------------------
(* WebClient: types.                                                       *)

\* A request has its fields, and so has what may be cached.
LEMMA FetchEntries ==
    /\ Start \in Fetch
    /\ \A f \in Fetch : /\ f.read \in Nat \cup {Nothing}
                        /\ [f EXCEPT !.kept = TRUE] \in Fetch
                        /\ \A n \in Nat : [f EXCEPT !.read = n] \in Fetch
    /\ EmptyCache \in Entry
    /\ \A e \in Entry : /\ e.data \in Nat \cup {Nothing}
                        /\ \A b \in BOOLEAN : [e EXCEPT !.stale = b] \in Entry
                        /\ \A b \in BOOLEAN : [e EXCEPT !.failed = TRUE, !.stale = b] \in Entry
    /\ \A n \in Nat : \A b \in BOOLEAN :
          [data |-> n, stale |-> FALSE, failed |-> FALSE, late |-> b] \in Entry
BY DEF Start, Fetch, EmptyCache, Entry

LEMMA OnMountTypes ==
    ASSUME fetch \in Fetch \cup {Nothing}, NEW mounts, OnMount(mounts)
    PROVE  fetch' \in Fetch \cup {Nothing}
BY FetchEntries DEF OnMount

\* What is cached and what is on its way keep their types.
LEMMA CacheTypes ==
    ASSUME ClientTypes, ClientNext, owed' \in Nat,
           \A i \in DOMAIN posts : posts[i].place \in Nat
    PROVE  cache' \in Entry /\ fetch' \in Fetch \cup {Nothing}
PROOF
<1>0. /\ cache \in Entry /\ fetch \in Fetch \cup {Nothing} /\ owed \in Nat
      /\ Len(log) \in Nat
  BY LenProperties DEF ClientTypes
<1>1. CASE ReadFetch
  BY <1>0, <1>1, FetchEntries DEF ReadFetch
<1>2. CASE AnswerFetch
  <2>1. fetch \in Fetch /\ fetch.read \in Nat /\ fetch' = Nothing
    BY <1>0, <1>2, FetchEntries DEF AnswerFetch
  <2>2. PICK b \in BOOLEAN :
           cache' = [data |-> fetch.read, stale |-> FALSE, failed |-> FALSE, late |-> b]
    BY <1>2 DEF AnswerFetch
  <2> QED
    BY <2>1, <2>2, FetchEntries
<1>3. CASE FailFetch
  <2>1. PICK b \in BOOLEAN : cache' = [cache EXCEPT !.failed = TRUE, !.stale = b]
    BY <1>3 DEF FailFetch
  <2> QED
    BY <1>0, <1>3, <2>1, FetchEntries DEF FailFetch
<1>4. CASE Age
  BY <1>0, <1>4, FetchEntries DEF Age
<1>5. CASE Refetch
  BY <1>0, <1>5, FetchEntries DEF Refetch
<1>6. CASE Collect
  BY <1>0, <1>6, FetchEntries DEF Collect
<1>7. CASE Visit
  BY <1>0, <1>7, OnMountTypes DEF Visit
<1>8. CASE Reload
  BY <1>0, <1>8, FetchEntries DEF Reload
<1>9. CASE OpenDialog
  BY <1>0, <1>9, OnMountTypes DEF OpenDialog
<1>10. CASE HearDone
  <2>1. PICK i \in DOMAIN posts, comes \in BOOLEAN :
           \/ SetData(posts[i].place)
           \/ Invalidate(comes)
           \/ OnMount(comes) /\ UNCHANGED cache
    BY <1>10 DEF HearDone
  <2>2. CASE SetData(posts[i].place)
    <3>1. fetch' \in Fetch \cup {Nothing}
      BY <1>0, <2>2, FetchEntries DEF SetData
    <3> DEFINE b == posts[i].place < owed'
    <3>2. b \in BOOLEAN
      OBVIOUS
    <3>3. cache' = [data |-> posts[i].place, stale |-> FALSE, failed |-> FALSE, late |-> b]
      BY <2>2 DEF SetData
    <3> HIDE DEF b
    <3> QED
      BY <3>1, <3>2, <3>3, FetchEntries
  <2>3. CASE Invalidate(comes)
    <3>1. fetch' \in Fetch \cup {Nothing}
      BY <1>0, <2>3, FetchEntries DEF Invalidate
    <3>2. PICK b \in BOOLEAN : cache' = [cache EXCEPT !.stale = b]
      BY <2>3 DEF Invalidate
    <3> QED
      BY <1>0, <3>1, <3>2, FetchEntries
  <2>4. CASE OnMount(comes) /\ UNCHANGED cache
    BY <1>0, <2>4, OnMountTypes
  <2> QED
    BY <2>1, <2>2, <2>3, <2>4
<1>11. CASE CloseDialog \/ Submit \/ Serve \/ Refuse \/ HearRefused \/ LoseAnswer
  BY <1>0, <1>11 DEF CloseDialog, Submit, Serve, Refuse, HearRefused, LoseAnswer
<1> QED
  BY <1>1, <1>2, <1>3, <1>4, <1>5, <1>6, <1>7, <1>8, <1>9, <1>10, <1>11 DEF ClientNext

\* The page in view is one the story comes to, and the form is open or shut.
LEMMA PageTypes ==
    ASSUME ClientTypes, ClientNext
    PROVE  /\ UNCHANGED story
           /\ page' \in story.views \cup story.leads
           /\ form' \in {"open", "shut"}
           /\ dialog' \in Nat
PROOF
<1>0. /\ page \in story.views \cup story.leads /\ form \in {"open", "shut"} /\ dialog \in Nat
  BY DEF ClientTypes
<1>1. CASE Querying
  BY <1>0, <1>1, QueryingMoves
<1>2. CASE Visit \/ Reload
  BY <1>0, <1>2 DEF Visit, Reload
<1>3. CASE OpenDialog \/ CloseDialog
  BY <1>0, <1>3 DEF OpenDialog, CloseDialog
<1>4. CASE Submit \/ Serve \/ Refuse \/ HearRefused \/ LoseAnswer
  BY <1>0, <1>4 DEF Submit, Serve, Refuse, HearRefused, LoseAnswer
<1>5. CASE HearDone
  BY <1>0, <1>5, HearDoneEars
<1> QED
  BY <1>1, <1>2, <1>3, <1>4, <1>5 DEF ClientNext, Querying

-----------------------------------------------------------------------------
(* WebClient: one payment for one opening of its dialog.                   *)

\* Steps that move no mutation but for its ear.
LEMMA KeysKept ==
    ASSUME KeyedByDialog, KeysTakenOnce, ButForEars(posts, posts'), UNCHANGED <<story, log>>
    PROVE  KeyedByDialog' /\ KeysTakenOnce'
BY DEF KeyedByDialog, KeysTakenOnce, ButForEars

LEMMA PostPlaces ==
    ASSUME ClientTypes
    PROVE  \A i \in DOMAIN posts : posts[i].place \in Nat /\ posts[i].dialog \in Nat
                                   /\ posts[i].key \in Seq(Nat)
BY PostsIndexed DEF ClientTypes, Post

LEMMA PaymentNext == PaymentInv /\ [ClientNext]_clientVars => PaymentInv'
PROOF
<1> SUFFICES ASSUME PaymentInv, ClientNext PROVE PaymentInv'
  <2>1. CASE UNCHANGED clientVars
    BY <2>1 DEF PaymentInv, ClientTypes, KeyedByDialog, KeysTakenOnce, clientVars
  <2> QED
    BY <2>1
<1> DEFINE Commit == [dialog : Nat, key : Seq(Nat)]
<1>0. /\ ClientTypes /\ KeyedByDialog /\ KeysTakenOnce
      /\ posts \in Seq(Post) /\ log \in Seq(Commit) /\ owed \in Nat
      /\ \A i \in DOMAIN posts : posts[i].place \in Nat
  BY PostPlaces DEF PaymentInv, ClientTypes
<1>1. ASSUME posts' \in Seq(Post), log' \in Seq(Commit), owed' \in Nat
      PROVE  ClientTypes'
  <2>1. story \in Stories
    BY <1>0 DEF ClientTypes
  <2>2. cache' \in Entry /\ fetch' \in Fetch \cup {Nothing}
    BY <1>0, <1>1, CacheTypes
  <2> QED
    BY <1>0, <1>1, <2>1, <2>2, PageTypes DEF ClientTypes
<1>2. CASE Querying
  BY <1>0, <1>1, <1>2, QueryingMoves, NothingHeard, KeysKept DEF PaymentInv
<1>3. CASE Moving
  <2>1. ButForEars(posts, posts') /\ UNCHANGED <<story, log, owed>>
    BY <1>0, <1>3, MovingEars
  <2> QED
    BY <1>0, <1>1, <2>1, KeysKept DEF PaymentInv, ButForEars
<1>4. CASE HearDone
  <2>1. ButForEars(posts, posts') /\ UNCHANGED <<story, log>> /\ owed' \in Nat
    BY <1>0, <1>4, HearDoneEars
  <2> QED
    BY <1>0, <1>1, <2>1, KeysKept DEF PaymentInv, ButForEars
<1>5. CASE Submit
  <2>1. PICK p \in Post :
           /\ p.dialog = dialog /\ p.key = <<dialog>>
           /\ posts' \in Seq(Post) /\ DOMAIN posts' = 1 .. Len(posts) + 1
           /\ \A i \in DOMAIN posts : posts'[i] = posts[i]
           /\ posts'[Len(posts) + 1] = p
           /\ UNCHANGED <<story, log, owed>>
    BY <1>0, <1>5, SubmitSends
  <2>2. DOMAIN posts = 1 .. Len(posts) /\ Len(posts) \in Nat
    BY <1>0, PostsIndexed
  <2>3. p.key = <<p.dialog>>
    BY <2>1
  <2>4. ASSUME NEW i \in DOMAIN posts' PROVE posts'[i].key = <<posts'[i].dialog>>
    <3>1. CASE i \in DOMAIN posts
      BY <1>0, <2>1, <3>1 DEF KeyedByDialog
    <3>2. CASE i = Len(posts) + 1
      BY <2>1, <2>3, <3>2
    <3> QED
      BY <2>1, <2>2, <3>1, <3>2
  <2>5. KeyedByDialog' /\ KeysTakenOnce'
    BY <1>0, <2>1, <2>4 DEF KeyedByDialog, KeysTakenOnce
  <2> QED
    BY <1>0, <1>1, <2>1, <2>5 DEF PaymentInv
<1>6. CASE Refuse
  <2>1. PICK i \in DOMAIN posts : Decided(i)
    BY <1>0, <1>6, RefuseDecides
  <2>2. UNCHANGED <<story, log>>
    BY <1>0, <1>6, <2>1, RefuseDecides DEF Decided
  <2> QED
    BY <1>0, <1>1, <2>1, <2>2 DEF PaymentInv, Decided, KeyedByDialog, KeysTakenOnce
<1>7. CASE Serve
  <2>1. PICK i \in DOMAIN posts :
           /\ Decided(i)
           /\ \/ /\ story.kind = Payment => Committed(posts[i].key) = {}
                 /\ log' = Append(log, [dialog |-> posts[i].dialog, key |-> posts[i].key])
              \/ UNCHANGED log
    BY <1>0, <1>7, ServeCommits
  <2>2. CASE UNCHANGED log
    BY <1>0, <1>1, <2>1, <2>2 DEF PaymentInv, Decided, KeyedByDialog, KeysTakenOnce
  <2>3. CASE ~UNCHANGED log
    <3> DEFINE e == [dialog |-> posts[i].dialog, key |-> posts[i].key]
    <3>1. /\ e \in Commit /\ e.dialog = posts[i].dialog /\ e.key = posts[i].key
      BY <1>0, PostPlaces
    <3>2. e.key = <<e.dialog>>
      BY <1>0, <3>1 DEF KeyedByDialog
    <3>3. log' = Append(log, e) /\ (story.kind = Payment => Committed(e.key) = {})
      BY <2>1, <2>3
    <3> HIDE DEF e, Commit
    <3>4. /\ log' \in Seq(Commit) /\ DOMAIN log' = 1 .. Len(log) + 1
          /\ (\A k \in 1 .. Len(log) : log'[k] = log[k]) /\ log'[Len(log) + 1] = e
          /\ DOMAIN log = 1 .. Len(log) /\ Len(log) \in Nat
      BY <1>0, <3>1, <3>3, AppendProperties, LenProperties
    <3>5. KeyedByDialog'
      <4>1. ASSUME NEW k \in DOMAIN log' PROVE log'[k].key = <<log'[k].dialog>>
        <5>1. CASE k \in DOMAIN log
          BY <1>0, <3>4, <5>1 DEF KeyedByDialog
        <5>2. CASE k = Len(log) + 1
          BY <3>2, <3>4, <5>2
        <5> QED
          BY <3>4, <5>1, <5>2
      <4>2. \A j \in DOMAIN posts' : posts'[j].key = <<posts'[j].dialog>>
        BY <1>0, <2>1 DEF KeyedByDialog, Decided
      <4> QED
        BY <4>1, <4>2 DEF KeyedByDialog
    <3>6. KeysTakenOnce'
      <4> SUFFICES ASSUME story.kind = Payment, NEW j \in DOMAIN log', NEW k \in DOMAIN log',
                          log'[j].key = log'[k].key
                   PROVE  j = k
        BY <2>1 DEF KeysTakenOnce, Decided
      <4>1. \A n \in DOMAIN log : log[n].key # e.key
        BY <3>3 DEF Committed
      <4>2. \A n \in DOMAIN log' : n \in DOMAIN log \/ n = Len(log) + 1
        BY <3>4
      <4>3. CASE j \in DOMAIN log /\ k \in DOMAIN log
        BY <1>0, <3>4, <4>3 DEF KeysTakenOnce
      <4>4. CASE j = Len(log) + 1 /\ k \in DOMAIN log
        BY <3>4, <4>1, <4>4
      <4>5. CASE k = Len(log) + 1 /\ j \in DOMAIN log
        BY <3>4, <4>1, <4>5
      <4> QED
        BY <4>2, <4>3, <4>4, <4>5
    <3> QED
      BY <1>0, <1>1, <2>1, <3>4, <3>5, <3>6 DEF PaymentInv, Decided
  <2> QED
    BY <2>2, <2>3
<1> QED
  BY <1>2, <1>3, <1>4, <1>5, <1>6, <1>7 DEF ClientNext, Querying, Moving

LEMMA PaymentInit == ClientInit => PaymentInv
PROOF
<1> SUFFICES ASSUME ClientInit PROVE PaymentInv
  OBVIOUS
<1>1. posts = <<>> /\ log = <<>> /\ DOMAIN posts = {} /\ DOMAIN log = {}
  BY EmptySeq, LenProperties DEF ClientInit
<1>2. ClientTypes
  BY <1>1, FetchEntries, EmptySeq DEF ClientInit, ClientTypes
<1> QED
  BY <1>1, <1>2 DEF PaymentInv, KeyedByDialog, KeysTakenOnce

\* Whatever is pressed, lost, answered late or loaded anew, and for any number
\* of mutations: each carries its dialog's key up to the log, and the API takes
\* a payment's key once.
THEOREM KeysSafe == ClientSpec => []PaymentInv
PROOF
<1>1. ClientInit => PaymentInv
  BY PaymentInit
<1>2. PaymentInv /\ [ClientNext]_clientVars => PaymentInv'
  BY PaymentNext
<1> QED
  BY <1>1, <1>2, PTL DEF ClientSpec

\* Then one opening of the payment dialog takes the money once.
THEOREM PaysOnce == ClientSpec => []OnePaymentPerDialog
PROOF
<1>1. PaymentInv => OnePaymentPerDialog
  BY DEF PaymentInv, KeyedByDialog, KeysTakenOnce, OnePaymentPerDialog
<1> QED
  BY <1>1, KeysSafe, PTL

-----------------------------------------------------------------------------
(* WebClient: what the browser was told of shows.                          *)

\* What the layout shows is on every page.
LEMMA LayoutIsShown ==
    ASSUME NEW s \in Stories, s.query \in AppLayout, NEW v \in s.views \cup s.leads
    PROVE  v.shows
PROOF
<1>1. PICK t \in Tellable : s = Told(t)
  BY DEF Stories
<1>2. s.query = t.query /\ s.views = Views(t) /\ s.leads = LeadsTo(t)
  BY <1>1 DEF Told
<1>3. \A site, role : AppLayout \subseteq Shown(site, role)
  BY DEF Shown
<1>4. CASE v \in Views(t)
  <2>1. PICK p \in Seen : v = View(p, t)
    BY <1>4 DEF Views
  <2>2. AppLayout \subseteq p.shows
    BY <1>3, <2>1 DEF Seen
  <2> QED
    BY <1>2, <2>1, <2>2 DEF View
<1>5. CASE v \in LeadsTo(t)
  <2>1. PICK a \in AfterRemoval :
           v = View([offers |-> Offered(a[2], t.role), shows |-> Shown(a[2], t.role),
                     silent |-> Silent(a[2])], t)
    BY <1>5 DEF LeadsTo
  <2> QED
    BY <1>2, <1>3, <2>1 DEF View
<1> QED
  BY <1>2, <1>4, <1>5

\* A page that comes into view mounts what the last one did not show.
LEMMA ComesIntoView ==
    ASSUME ClientTypes, NEW v \in story.views \cup story.leads, v.shows, ~Comes(v)
    PROVE  page.shows
BY LayoutIsShown DEF Comes, ClientTypes

\* What OnMount leaves without a request needed none.
LEMMA NoneMounted ==
    ASSUME NEW mounts, OnMount(mounts), fetch' = Nothing, Start # Nothing
    PROVE  fetch = Nothing /\ ~(mounts /\ Needed)
BY DEF OnMount

LEMMA StartIsFetch == Start # Nothing /\ Start.read = Nothing
BY WebConstants, FetchEntries DEF Start

\* With the data as it was: at rest before, and what is then mounted is needed.
LEMMA RestKept ==
    ASSUME AtRest, FailedIsStale, UNCHANGED <<cache, owed>>,
           Mounted' => Mounted \/ ~Needed
    PROVE  AtRest'
BY DEF AtRest, FailedIsStale, Needed

\* The API's log only grows, and owed stays within it.
LEMMA LogGrows ==
    ASSUME PaymentInv, ToldOfTheLog, ClientNext
    PROVE  /\ Len(log) \in Nat /\ Len(log') \in Nat /\ Len(log) <= Len(log')
           /\ owed \in Nat /\ owed' \in Nat
           /\ UNCHANGED owed \/ HearDone
           /\ ToldOfTheLog'
PROOF
<1>0. /\ ClientTypes /\ KeysTakenOnce /\ posts \in Seq(Post) /\ owed \in Nat
      /\ DOMAIN posts = 1 .. Len(posts) /\ Len(posts) \in Nat
      /\ Len(log) \in Nat /\ DOMAIN log = 1 .. Len(log)
  BY PostsIndexed, LenProperties DEF PaymentInv, ClientTypes
<1>1. CASE Querying
  BY <1>0, <1>1, QueryingMoves DEF ToldOfTheLog
<1>2. CASE Moving
  BY <1>0, <1>2, MovingEars DEF ToldOfTheLog, ButForEars
<1>3. CASE HearDone
  <2>1. ButForEars(posts, posts') /\ UNCHANGED log
    BY <1>0, <1>3, HearDoneEars
  <2>2. PICK i \in DOMAIN posts :
           /\ posts[i].served = "yes"
           /\ owed' = IF owed < posts[i].place THEN posts[i].place ELSE owed
    BY <1>0, <1>3, HearDoneEars
  <2>3. posts[i].place \in 1 .. Len(log)
    BY <2>2 DEF ToldOfTheLog
  <2>4. owed' \in Nat /\ owed' <= Len(log)
    BY <1>0, <2>2, <2>3 DEF ToldOfTheLog
  <2> QED
    BY <1>0, <1>3, <2>1, <2>4 DEF ToldOfTheLog, ButForEars
<1>4. CASE Submit
  <2>1. PICK p \in Post :
           /\ p.served = "no" /\ DOMAIN posts' = 1 .. Len(posts) + 1
           /\ \A i \in DOMAIN posts : posts'[i] = posts[i]
           /\ posts'[Len(posts) + 1] = p /\ UNCHANGED <<log, owed>>
    BY <1>0, <1>4, SubmitSends
  <2> QED
    BY <1>0, <2>1 DEF ToldOfTheLog
<1>5. CASE Refuse
  <2>1. PICK i \in DOMAIN posts : Decided(i) /\ posts'[i].served # "yes"
    BY <1>0, <1>5, RefuseDecides
  <2>2. UNCHANGED log
    BY <1>0, <1>5, RefuseDecides
  <2> QED
    BY <1>0, <2>1, <2>2 DEF ToldOfTheLog, Decided
<1>6. CASE Serve
  <2>1. PICK i \in DOMAIN posts :
           /\ Decided(i)
           /\ \/ /\ log' = Append(log, [dialog |-> posts[i].dialog, key |-> posts[i].key])
                 /\ posts'[i].place = Len(log) + 1
              \/ UNCHANGED log /\ posts'[i].place \in DOMAIN log
    BY <1>0, <1>6, ServeCommits
  <2>2. [dialog |-> posts[i].dialog, key |-> posts[i].key] \in [dialog : Nat, key : Seq(Nat)]
    BY <1>0, PostPlaces
  <2>3. /\ Len(log') \in {Len(log), Len(log) + 1}
        /\ posts'[i].place \in 1 .. Len(log')
    BY <1>0, <2>1, <2>2, AppendProperties DEF ClientTypes
  <2>4. UNCHANGED owed /\ owed <= Len(log') /\ Len(log) <= Len(log') /\ Len(log') \in Nat
    BY <1>0, <2>1, <2>3 DEF ToldOfTheLog, Decided
  <2>5. ASSUME NEW j \in DOMAIN posts', posts'[j].served = "yes"
        PROVE  posts'[j].place \in 1 .. Len(log')
    <3>1. CASE j = i
      BY <2>3, <3>1
    <3>2. CASE j # i
      <4>1. posts'[j] = posts[j] /\ j \in DOMAIN posts
        BY <2>1, <2>5, <3>2 DEF Decided
      <4>2. posts[j].place \in 1 .. Len(log)
        BY <2>5, <4>1 DEF ToldOfTheLog
      <4> QED
        BY <1>0, <2>4, <4>1, <4>2
    <3> QED
      BY <3>1, <3>2
  <2> QED
    BY <1>0, <2>4, <2>5 DEF ToldOfTheLog
<1> QED
  BY <1>1, <1>2, <1>3, <1>4, <1>5, <1>6 DEF ClientNext, Querying, Moving

\* What was heard, and what it does to the cache.
LEMMA HeardEffect ==
    ASSUME PaymentInv, ToldOfTheLog, HearDone
    PROVE  \E i \in DOMAIN posts :
              LET comes == story.leads # {} /\ Comes(page')
                  n == posts[i].place
              IN  /\ n \in Nat
                  /\ owed' = (IF owed < n THEN n ELSE owed)
                  /\ SetsData(story.kind, story.query) => SetData(n)
                  /\ Tells(story) /\ ~SetsData(story.kind, story.query) => Invalidate(comes)
                  /\ ~Tells(story) => OnMount(comes) /\ UNCHANGED cache
PROOF
<1>1. \A i \in DOMAIN posts : posts[i].place \in Nat
  BY PostPlaces DEF PaymentInv
<1>2. PICK i \in DOMAIN posts :
         /\ owed' = IF owed < posts[i].place THEN posts[i].place ELSE owed
         /\ LET comes == story.leads # {} /\ Comes(page')
            IN  IF SetsData(story.kind, story.query) THEN SetData(posts[i].place)
                ELSE IF Invalidates(story.kind, story.query) THEN Invalidate(comes)
                ELSE OnMount(comes) /\ UNCHANGED cache
  BY DEF HearDone
<1> QED
  BY <1>1, <1>2 DEF Tells

\* A failure is never forgotten before what failed is asked for again.
LEMMA FailedNext ==
    ASSUME PaymentInv, ToldOfTheLog, FailedIsStale, ClientNext
    PROVE  FailedIsStale'
PROOF
<1>0. cache \in Entry
  BY DEF PaymentInv, ClientTypes
<1>1. CASE ReadFetch \/ Refetch \/ Visit \/ OpenDialog \/ CloseDialog \/ Submit \/ Serve
           \/ Refuse \/ HearRefused \/ LoseAnswer
  <2>1. UNCHANGED cache
    BY <1>1 DEF ReadFetch, Refetch, Visit, OpenDialog, CloseDialog, Submit, Serve, Refuse,
                HearRefused, LoseAnswer
  <2> QED
    BY <2>1 DEF FailedIsStale
<1>2. CASE AnswerFetch
  BY <1>2 DEF AnswerFetch, FailedIsStale
<1>3. CASE FailFetch
  <2>1. cache' = [cache EXCEPT !.failed = TRUE, !.stale = cache.data # Nothing]
    BY <1>3 DEF FailFetch
  <2>2. cache'.data = cache.data /\ (cache'.stale <=> cache.data # Nothing)
    BY <1>0, <2>1, Zenon DEF Entry
  <2> QED
    BY <2>2 DEF FailedIsStale
<1>4. CASE Age
  BY <1>0, <1>4 DEF Age, FailedIsStale, Entry
<1>5. CASE Collect \/ Reload
  BY <1>5 DEF Collect, Reload, EmptyCache, FailedIsStale
<1>6. CASE HearDone
  <2>1. \/ UNCHANGED cache
        \/ \E n : SetData(n)
        \/ \E b : Invalidate(b)
    BY <1>6, HeardEffect
  <2>2. ASSUME NEW n, SetData(n) PROVE FailedIsStale'
    BY <2>2 DEF SetData, FailedIsStale
  <2>3. ASSUME NEW b, Invalidate(b) PROVE FailedIsStale'
    <3>1. cache' = [cache EXCEPT !.stale = cache.data # Nothing]
      BY <2>3 DEF Invalidate
    <3>2. cache'.data = cache.data /\ (cache'.stale <=> cache.data # Nothing)
      BY <1>0, <3>1, Zenon DEF Entry
    <3> QED
      BY <3>2 DEF FailedIsStale
  <2> QED
    BY <2>1, <2>2, <2>3 DEF FailedIsStale
<1> QED
  BY <1>1, <1>2, <1>3, <1>4, <1>5, <1>6 DEF ClientNext

\* What is on its way, where the hooks tell of the change.
LEMMA FetchNext ==
    ASSUME PaymentInv, ToldOfTheLog, Tells(story), FetchCatchesUp, ClientNext
    PROVE  FetchCatchesUp'
PROOF
<1>0. /\ ClientTypes /\ fetch \in Fetch \cup {Nothing} /\ Start # Nothing /\ Start.read = Nothing
      /\ owed <= Len(log)
  BY StartIsFetch DEF PaymentInv, ClientTypes, ToldOfTheLog
<1>g. /\ Len(log) \in Nat /\ Len(log') \in Nat /\ Len(log) <= Len(log')
      /\ owed \in Nat /\ owed' \in Nat /\ (UNCHANGED owed \/ HearDone)
  BY LogGrows
<1>f. fetch # Nothing => fetch.read \in Nat \cup {Nothing}
  BY <1>0, FetchEntries
<1>1. CASE ReadFetch
  <2>1. fetch' = [fetch EXCEPT !.read = Len(log)] /\ UNCHANGED <<log, owed>> /\ fetch \in Fetch
    BY <1>0, <1>1 DEF ReadFetch
  <2>2. fetch'.read = Len(log)
    BY <2>1 DEF Fetch
  <2> QED
    BY <1>0, <1>g, <2>1, <2>2 DEF FetchCatchesUp
<1>2. CASE fetch' \in {Nothing, Start}
  BY <1>0, <1>2 DEF FetchCatchesUp
<1>3. CASE UNCHANGED <<fetch, owed>>
  BY <1>g, <1>f, <1>3 DEF FetchCatchesUp
<1>4. CASE AnswerFetch \/ FailFetch \/ Refetch \/ Reload
  BY <1>2, <1>4 DEF AnswerFetch, FailFetch, Refetch, Reload
<1>5. CASE Age \/ Collect \/ CloseDialog \/ Submit \/ Serve \/ Refuse \/ HearRefused \/ LoseAnswer
  BY <1>3, <1>5
     DEF Age, Collect, CloseDialog, Submit, Serve, Refuse, HearRefused, LoseAnswer
<1>6. CASE Visit \/ OpenDialog
  BY <1>2, <1>3, <1>6 DEF Visit, OpenDialog, OnMount
<1>7. CASE HearDone
  <2>1. \/ fetch' \in {Nothing, Start}
        \/ fetch # Nothing /\ fetch' = [fetch EXCEPT !.kept = TRUE]
    <3>1. (\E n : SetData(n)) \/ \E b : Invalidate(b)
      BY <1>7, HeardEffect
    <3> QED
      BY <3>1 DEF SetData, Invalidate
  <2>2. CASE fetch # Nothing /\ fetch' = [fetch EXCEPT !.kept = TRUE]
    <3>1. fetch'.read = fetch.read /\ fetch'.kept
      BY <1>0, <2>2 DEF Fetch
    <3> QED
      BY <1>g, <1>f, <2>2, <3>1 DEF FetchCatchesUp
  <2> QED
    BY <1>2, <2>1, <2>2
<1> QED
  BY <1>1, <1>4, <1>5, <1>6, <1>7 DEF ClientNext

\* A screen that mounts nothing new stays as well off as it was.
LEMMA RestNext ==
    ASSUME PaymentInv, ToldOfTheLog, FailedIsStale, Tells(story), FetchCatchesUp,
           fetch = Nothing => AtRest, ClientNext, fetch' = Nothing
    PROVE  AtRest'
PROOF
<1>0. /\ ClientTypes /\ cache \in Entry /\ Start # Nothing
      /\ page \in story.views \cup story.leads
  BY StartIsFetch DEF PaymentInv, ClientTypes
<1>g. owed \in Nat /\ owed' \in Nat /\ Len(log) \in Nat
  BY LogGrows
<1>1. CASE ReadFetch \/ Refetch
  <2>1. Refetch => fetch' = Start
    BY DEF Refetch
  <2>2. ASSUME ReadFetch PROVE fetch' # Nothing
    <3>1. fetch \in Fetch /\ fetch' = [fetch EXCEPT !.read = Len(log)]
      BY <1>0, <2>2 DEF ReadFetch, ClientTypes
    <3>2. [fetch EXCEPT !.read = Len(log)] \in Fetch
      BY <1>g, <3>1 DEF Fetch
    <3> QED
      BY <3>1, <3>2, WebConstants
  <2> QED
    BY <1>0, <1>1, <2>1, <2>2
<1>2. CASE AnswerFetch
  <2>1. /\ fetch # Nothing /\ fetch.read # Nothing /\ UNCHANGED owed
        /\ cache' = [data |-> fetch.read, stale |-> FALSE, failed |-> FALSE,
                     late |-> fetch.kept /\ fetch.read < owed]
    BY <1>2 DEF AnswerFetch
  <2>2. cache'.data = fetch.read /\ (cache'.late <=> fetch.kept /\ fetch.read < owed)
    BY <2>1, Zenon
  <2>3. fetch.read \in Nat
    BY <1>0, <2>1, FetchEntries DEF ClientTypes
  <2> QED
    BY <1>g, <2>1, <2>2, <2>3 DEF AtRest, FetchCatchesUp
<1>3. CASE FailFetch
  <2>1. cache' = [cache EXCEPT !.failed = TRUE, !.stale = cache.data # Nothing]
    BY <1>3 DEF FailFetch
  <2>2. /\ cache'.data = cache.data /\ (cache'.stale <=> cache.data # Nothing)
        /\ cache'.failed
    BY <1>0, <2>1, Zenon DEF Entry
  <2> QED
    BY <2>2 DEF AtRest
<1>4. CASE Age
  <2>1. /\ cache' = [cache EXCEPT !.stale = TRUE] /\ fetch = Nothing
        /\ UNCHANGED <<story, page, form, owed>>
    BY <1>4 DEF Age
  <2>2. /\ cache'.data = cache.data /\ cache'.late = cache.late
        /\ cache'.failed = cache.failed /\ cache'.stale
    BY <1>0, <2>1 DEF Entry
  <2> QED
    BY <2>1, <2>2 DEF AtRest, Mounted, Picks
<1>5. CASE Collect \/ Reload
  BY <1>5 DEF Collect, Reload, EmptyCache, AtRest
<1>6. CASE Visit
  <2>1. PICK v \in story.views : page' = v /\ OnMount(Comes(v))
    BY <1>6 DEF Visit
  <2>2. form' = "shut" /\ UNCHANGED <<story, cache, owed>>
    BY <1>6 DEF Visit
  <2>3. fetch = Nothing /\ ~(Comes(v) /\ Needed)
    BY <1>0, <2>1, NoneMounted
  <2>4. Mounted' => Mounted \/ ~Needed
    BY <1>0, <2>1, <2>2, <2>3, ComesIntoView DEF Mounted
  <2> QED
    BY <2>2, <2>3, <2>4, RestKept
<1>7. CASE OpenDialog
  <2>1. OnMount(Picks) /\ UNCHANGED <<story, page, cache, owed>>
    BY <1>7 DEF OpenDialog
  <2>2. fetch = Nothing /\ ~(Picks /\ Needed)
    BY <1>0, <2>1, NoneMounted
  <2>3. Mounted' => Mounted \/ ~Needed
    BY <2>1, <2>2 DEF Mounted, Picks
  <2> QED
    BY <2>1, <2>2, <2>3, RestKept
<1>8. CASE CloseDialog
  <2>1. form' = "shut" /\ UNCHANGED <<story, page, cache, fetch, owed>>
    BY <1>8 DEF CloseDialog
  <2>2. Mounted' => Mounted
    BY <2>1 DEF Mounted
  <2> QED
    BY <2>1, <2>2, RestKept
<1>9. CASE Submit \/ Serve \/ Refuse \/ HearRefused \/ LoseAnswer
  <2>1. UNCHANGED <<story, page, form, cache, fetch, owed>>
    BY <1>9 DEF Submit, Serve, Refuse, HearRefused, LoseAnswer
  <2> QED
    BY <2>1 DEF AtRest, Mounted, Picks
<1>10. CASE HearDone
  <2> DEFINE comes == story.leads # {} /\ Comes(page')
  <2>1. (\E n \in Nat : SetData(n)) \/ Invalidate(comes)
    BY <1>10, HeardEffect
  <2>2. ASSUME NEW n \in Nat, SetData(n) PROVE AtRest'
    <3>1. cache' = [data |-> n, stale |-> FALSE, failed |-> FALSE, late |-> n < owed']
      BY <2>2 DEF SetData
    <3>2. cache'.data = n /\ (cache'.late <=> n < owed')
      BY <3>1, Zenon
    <3> QED
      BY <1>g, <3>2 DEF AtRest
  <2>3. CASE Invalidate(comes)
    <3>1. fetch = Nothing /\ ~Mounted /\ ~comes
      <4>1. fetch # Nothing => [fetch EXCEPT !.kept = TRUE] # Nothing
        BY <1>0, FetchEntries, WebConstants DEF ClientTypes
      <4> QED
        BY <1>0, <2>3, <4>1 DEF Invalidate
    <3>2. form' \in {form, "shut"} /\ UNCHANGED story /\ page' \in {page} \cup story.leads
      BY <1>0, <1>10, HearDoneEars
    <3>3. ~page'.shows
      <4>1. CASE story.leads = {}
        BY <3>1, <3>2, <4>1 DEF Mounted
      <4>2. CASE story.leads # {}
        <5>1. page' \in story.views \cup story.leads
          BY <1>0, <3>2
        <5>2. ~(page'.shows /\ story.query \notin AppLayout)
          BY <3>1, <4>2 DEF Comes
        <5> QED
          BY <1>0, <3>1, <5>1, <5>2, ComesIntoView DEF Mounted, Comes
      <4> QED
        BY <4>1, <4>2
    <3>4. ~Mounted'
      BY <3>1, <3>2, <3>3 DEF Mounted, Picks
    <3>5. cache' = [cache EXCEPT !.stale = cache.data # Nothing]
      BY <2>3 DEF Invalidate
    <3>6. cache'.data = cache.data /\ (cache'.stale <=> cache.data # Nothing)
      BY <1>0, <3>5, Zenon DEF Entry
    <3> QED
      BY <3>4, <3>6 DEF AtRest
  <2> QED
    BY <2>1, <2>2, <2>3
<1> QED
  BY <1>1, <1>2, <1>3, <1>4, <1>5, <1>6, <1>7, <1>8, <1>9, <1>10 DEF ClientNext

\* What the role may not read is never had, unless a mutation's answer is it.
LEMMA NothingReadNext ==
    ASSUME PaymentInv, ToldOfTheLog, ~Tells(story), ~story.may.read, NothingRead, ClientNext
    PROVE  NothingRead'
PROOF
<1>0. /\ cache \in Entry /\ Start # Nothing /\ Start.read = Nothing
  BY StartIsFetch DEF PaymentInv, ClientTypes
<1>1. CASE UNCHANGED cache /\ (UNCHANGED fetch \/ fetch' \in {Nothing, Start})
  BY <1>0, <1>1 DEF NothingRead
<1>2. CASE ReadFetch \/ AnswerFetch \/ Age
  BY <1>2 DEF ReadFetch, AnswerFetch, Age, NothingRead
<1>3. CASE FailFetch
  BY <1>0, <1>3 DEF FailFetch, NothingRead, Entry
<1>4. CASE Collect \/ Reload
  BY <1>0, <1>4 DEF Collect, Reload, EmptyCache, NothingRead
<1>5. CASE Visit \/ OpenDialog
  BY <1>1, <1>5 DEF Visit, OpenDialog, OnMount
<1>6. CASE HearDone
  <2>1. \E b : OnMount(b) /\ UNCHANGED cache
    BY <1>6, HeardEffect
  <2> QED
    BY <1>1, <2>1 DEF OnMount
<1>7. CASE Refetch \/ CloseDialog \/ Submit \/ Serve \/ Refuse \/ HearRefused \/ LoseAnswer
  BY <1>1, <1>7 DEF Refetch, CloseDialog, Submit, Serve, Refuse, HearRefused, LoseAnswer
<1> QED
  BY <1>2, <1>3, <1>4, <1>5, <1>6, <1>7 DEF ClientNext

LEMMA ToldNext == PaymentInv /\ PaymentInv' /\ ToldInv /\ [ClientNext]_clientVars => ToldInv'
PROOF
<1> SUFFICES ASSUME PaymentInv, ToldInv, ClientNext, ClientTypes' PROVE ToldInv'
  <2>1. CASE UNCHANGED clientVars
    BY <2>1 DEF ToldInv, ClientTypes, ToldOfTheLog, FailedIsStale, FetchCatchesUp, AtRest,
                NothingRead, Mounted, Picks, clientVars
  <2> QED
    BY <2>1 DEF PaymentInv
<1>0. ClientTypes /\ ToldOfTheLog /\ FailedIsStale
  BY DEF ToldInv
<1>1. UNCHANGED story
  BY <1>0, PageTypes
<1>2. ToldOfTheLog' /\ FailedIsStale'
  BY <1>0, LogGrows, FailedNext
<1>3. CASE Tells(story)
  <2>1. FetchCatchesUp /\ (fetch = Nothing => AtRest)
    BY <1>3 DEF ToldInv
  <2>2. FetchCatchesUp'
    BY <1>0, <1>3, <2>1, FetchNext
  <2>3. fetch' = Nothing => AtRest'
    BY <1>0, <1>3, <2>1, RestNext
  <2>4. Tells(story)'
    BY <1>1, <1>3 DEF Tells
  <2> QED
    BY <1>2, <2>2, <2>3, <2>4 DEF ToldInv
<1>4. CASE ~Tells(story)
  <2>1. ~Tells(story)'
    BY <1>1, <1>4 DEF Tells
  <2>2. ~story.may.read => NothingRead'
    BY <1>0, <1>4, NothingReadNext DEF ToldInv
  <2> QED
    BY <1>1, <1>2, <2>1, <2>2 DEF ToldInv
<1> QED
  BY <1>3, <1>4

LEMMA ToldInit == ClientInit => ToldInv
PROOF
<1> SUFFICES ASSUME ClientInit PROVE ToldInv
  OBVIOUS
<1>1. ClientTypes
  BY PaymentInit DEF PaymentInv
<1>2. /\ cache.data = Nothing /\ ~cache.failed
      /\ fetch # Nothing => fetch.read = Nothing
  BY StartIsFetch DEF ClientInit, EmptyCache
<1>3. DOMAIN posts = {} /\ Len(log) = 0 /\ owed = 0
  BY EmptySeq, LenProperties DEF ClientInit
<1> QED
  BY <1>1, <1>2, <1>3
     DEF ToldInv, ToldOfTheLog, FailedIsStale, FetchCatchesUp, AtRest, NothingRead

\* However requests and answers overtake one another: a request that the browser
\* has outrun is known to be late, a failure is asked for again, and a screen
\* that rests on what it has accounts for all that its browser was told.
THEOREM ToldSafe == ClientSpec => []ToldInv
PROOF
<1>1. ClientInit => ToldInv
  BY ToldInit
<1>2. PaymentInv /\ PaymentInv' /\ ToldInv /\ [ClientNext]_clientVars => ToldInv'
  BY ToldNext
<1> QED
  BY <1>1, <1>2, KeysSafe, PTL DEF ClientSpec

\* Of a mutation that the hooks tell its query of, the screens show what the
\* browser was told, or are about to, or say that they cannot; a screen that never
\* looks at the error may do neither after its request failed, and then asks again.
THEOREM ToldStoriesShow == ClientSpec => [](Tells(story) => Accounted \/ FailedSilently)
PROOF
<1>1. PaymentInv /\ ToldInv => (Tells(story) => Accounted \/ FailedSilently)
  <2> SUFFICES ASSUME PaymentInv, ToldInv, Tells(story) PROVE Accounted \/ FailedSilently
    OBVIOUS
  <2>1. FetchCatchesUp /\ (fetch = Nothing => AtRest) /\ FailedIsStale
    BY DEF ToldInv
  <2>2. CASE fetch # Nothing
    BY <2>1, <2>2 DEF FetchCatchesUp, Accounted
  <2>3. CASE fetch = Nothing
    BY <2>1, <2>3 DEF AtRest, Accounted, FailedSilently, FailedIsStale
  <2> QED
    BY <2>2, <2>3
<1> QED
  BY <1>1, KeysSafe, ToldSafe, PTL

\* So where the tables of hooks leave out only what is listed as untold, a
\* browser's own writes show, but for a failed request, on every screen of every
\* other query, for any number of dialogs and of mutations sent.
THEOREM WritesShow == HooksTell => (ClientSpec => []MyWritesShow)
PROOF
<1> SUFFICES ASSUME HooksTell PROVE ClientSpec => []MyWritesShow
  OBVIOUS
<1>1. PaymentInv /\ ToldInv /\ (Tells(story) => Accounted \/ FailedSilently) => MyWritesShow
  <2> SUFFICES ASSUME PaymentInv, ToldInv, Tells(story) => Accounted \/ FailedSilently
               PROVE  MyWritesShow
    OBVIOUS
  <2>1. story \in Stories
    BY DEF ToldInv, ClientTypes
  <2>2. CASE story.may.read
    BY <2>1, <2>2 DEF HooksTell, MyWritesShow
  <2>3. CASE ~story.may.read
    BY <2>3 DEF ToldInv, NothingRead, Accounted, MyWritesShow
  <2> QED
    BY <2>2, <2>3
<1> QED
  BY <1>1, KeysSafe, ToldSafe, ToldStoriesShow, PTL

-----------------------------------------------------------------------------
(* WebClient: nothing that is shown is forbidden.                          *)

\* What the page in view offers and shows, where the screens agree with the API.
LEMMA PageAgrees ==
    ASSUME ScreensAgree, ClientTypes
    PROVE  \A v \in story.views \cup story.leads \cup {page} :
              /\ v.offers => story.may.do /\ (Picks => Readable(story))
              /\ v.shows => Readable(story)
BY DEF ScreensAgree, ClientTypes, Picks

LEMMA MountedReadable ==
    ASSUME ScreensAgree, ClientTypes, AllowedInv, Mounted
    PROVE  Readable(story)
BY PageAgrees DEF AllowedInv, Mounted

\* Mutations that only change their ear were allowed before.
LEMMA EarsAllowed ==
    ASSUME AllowedInv, ButForEars(posts, posts'), UNCHANGED story
    PROVE  \A i \in DOMAIN posts' : story'.may.do /\ posts'[i].served # "forbidden"
BY DEF AllowedInv, ButForEars

\* A step that leaves the story, and whose request, if any, is of what is read.
LEMMA AllowedStep ==
    ASSUME UNCHANGED story,
           form' = "open" => story.may.do /\ (Picks => Readable(story)),
           \A i \in DOMAIN posts' : story'.may.do /\ posts'[i].served # "forbidden",
           fetch' # Nothing => Readable(story)
    PROVE  AllowedInv'
PROOF
<1>1. (Picks' <=> Picks) /\ (Readable(story)' <=> Readable(story))
  BY DEF Picks, Readable
<1> QED
  BY <1>1 DEF AllowedInv

\* Whatever is requested was on its way, or is mounted, or comes into view.
LEMMA AllowedNext ==
    ASSUME ScreensAgree, PaymentInv, AllowedInv, [ClientNext]_clientVars
    PROVE  AllowedInv'
PROOF
<1>0. /\ ClientTypes /\ KeysTakenOnce
      /\ posts \in Seq(Post) /\ posts \in [DOMAIN posts -> Post]
      /\ form = "open" => story.may.do /\ (Picks => Readable(story))
      /\ \A i \in DOMAIN posts : story.may.do /\ posts[i].served # "forbidden"
      /\ fetch # Nothing => Readable(story)
  BY PostsIndexed, LenProperties DEF PaymentInv, ClientTypes, AllowedInv
<1>1. CASE Querying
  <2>1. UNCHANGED <<story, form, posts>>
    BY <1>1, QueryingMoves
  <2>2. fetch' # Nothing => fetch # Nothing \/ Mounted
    BY <1>1 DEF Querying, ReadFetch, AnswerFetch, FailFetch, Age, Refetch, Collect
  <2> QED
    BY <1>0, <2>1, <2>2, MountedReadable, AllowedStep
<1>2. CASE Moving
  <2>1. /\ UNCHANGED story
        /\ \A i \in DOMAIN posts' : story'.may.do /\ posts'[i].served # "forbidden"
    BY <1>0, <1>2, MovingEars, EarsAllowed
  <2>2. CASE Visit
    <3>1. form' = "shut" /\ \E v \in story.views : OnMount(Comes(v))
      BY <2>2 DEF Visit
    <3>2. fetch' # Nothing => fetch # Nothing \/ \E v \in story.views : v.shows
      BY <3>1 DEF OnMount, Comes
    <3> QED
      BY <1>0, <2>1, <3>1, <3>2, PageAgrees, AllowedStep
  <2>3. CASE Reload
    <3>1. form' = "shut" /\ (fetch' # Nothing => \E v \in story.views : v.shows)
      BY <2>3 DEF Reload
    <3> QED
      BY <1>0, <2>1, <3>1, PageAgrees, AllowedStep
  <2>4. CASE OpenDialog
    <3>1. page.offers /\ (fetch' # Nothing => fetch # Nothing \/ Picks)
      BY <2>4 DEF OpenDialog, OnMount
    <3>2. story.may.do /\ (Picks => Readable(story))
      BY <1>0, <3>1, PageAgrees
    <3> QED
      BY <1>0, <2>1, <3>1, <3>2, AllowedStep
  <2>5. CASE CloseDialog \/ HearRefused \/ LoseAnswer
    <3>1. form' \in {form, "shut"} /\ UNCHANGED fetch
      BY <2>5 DEF CloseDialog, HearRefused, LoseAnswer
    <3> QED
      BY <1>0, <2>1, <3>1, AllowedStep
  <2> QED
    BY <1>2, <2>2, <2>3, <2>4, <2>5 DEF Moving
<1>3. CASE HearDone
  <2>1. /\ UNCHANGED story /\ form' \in {form, "shut"}
        /\ page' \in {page} \cup story.leads
        /\ \A i \in DOMAIN posts' : story'.may.do /\ posts'[i].served # "forbidden"
    BY <1>0, <1>3, HearDoneEars, EarsAllowed
  <2>2. fetch' # Nothing => fetch # Nothing \/ Mounted \/ page'.shows
    BY <1>3 DEF HearDone, SetData, Invalidate, OnMount, Comes
  <2>3. page'.shows => Readable(story)
    BY <1>0, <2>1, PageAgrees
  <2> QED
    BY <1>0, <2>1, <2>2, <2>3, MountedReadable, AllowedStep
<1>4. CASE Submit
  <2>1. form = "open"
    BY <1>4 DEF Submit
  <2>2. PICK p \in Post :
           /\ p.served = "no" /\ DOMAIN posts' = 1 .. Len(posts) + 1
           /\ \A i \in DOMAIN posts : posts'[i] = posts[i]
           /\ posts'[Len(posts) + 1] = p
           /\ UNCHANGED <<story, form, fetch>>
    BY <1>0, <1>4, SubmitSends
  <2>3. DOMAIN posts = 1 .. Len(posts) /\ Len(posts) \in Nat
    BY <1>0, PostsIndexed
  <2>4. ASSUME NEW i \in DOMAIN posts' PROVE posts'[i].served # "forbidden"
    <3>1. i \in DOMAIN posts \/ i = Len(posts) + 1
      BY <2>2, <2>3
    <3> QED
      BY <1>0, <2>2, <3>1
  <2> QED
    BY <1>0, <2>1, <2>2, <2>4, AllowedStep
<1>5. CASE Serve
  <2>1. PICK i \in DOMAIN posts : Decided(i) /\ posts'[i].served = "yes"
    BY <1>0, <1>5, ServeCommits
  <2>2. \A j \in DOMAIN posts' : story'.may.do /\ posts'[j].served # "forbidden"
    BY <1>0, <2>1 DEF Decided
  <2> QED
    BY <1>0, <2>1, <2>2, AllowedStep DEF Decided
<1>6. CASE Refuse
  <2>1. PICK i \in DOMAIN posts :
           posts' = [posts EXCEPT ![i].served = IF story.may.do THEN "refused" ELSE "forbidden"]
    BY <1>6 DEF Refuse
  <2>2. UNCHANGED <<story, form, fetch>>
    BY <1>6 DEF Refuse
  <2>3. posts' = [posts EXCEPT ![i] = [posts[i] EXCEPT !.served = "refused"]]
    BY <1>0, <2>1
  <2>4. [posts[i] EXCEPT !.served = "refused"].served = "refused"
    BY <1>0 DEF Post
  <2>5. \A j \in DOMAIN posts' : story'.may.do /\ posts'[j].served # "forbidden"
    BY <1>0, <2>2, <2>3, <2>4
  <2> QED
    BY <1>0, <2>2, <2>5, AllowedStep
<1>7. CASE UNCHANGED clientVars
  BY <1>0, <1>7, AllowedStep DEF clientVars
<1> QED
  BY <1>1, <1>2, <1>3, <1>4, <1>5, <1>6, <1>7 DEF ClientNext, Querying, Moving

LEMMA AllowedInit ==
    ASSUME ScreensAgree, ClientInit
    PROVE  AllowedInv
PROOF
<1>1. /\ form = "shut" /\ DOMAIN posts = {}
      /\ story \in Stories /\ page \in story.views
      /\ fetch # Nothing => page.shows
  BY EmptySeq, LenProperties DEF ClientInit
<1>2. page.shows => Readable(story)
  BY <1>1 DEF ScreensAgree
<1> QED
  BY <1>1, <1>2 DEF AllowedInv

\* Where every page agrees with the API, no order of visits, removals that lead
\* elsewhere, dialogs kept open and late answers shows anybody a button that is
\* then forbidden, or reads for them what they may not but for the withheld.
THEOREM NothingForbidden == ScreensAgree => (ClientSpec => []NothingIsForbidden)
PROOF
<1> SUFFICES ASSUME ScreensAgree PROVE ClientSpec => []NothingIsForbidden
  OBVIOUS
<1>1. ClientInit => AllowedInv
  BY AllowedInit
<1>2. PaymentInv /\ AllowedInv /\ [ClientNext]_clientVars => AllowedInv'
  BY AllowedNext
<1>3. AllowedInv => NothingIsForbidden
  BY DEF AllowedInv, NothingIsForbidden, Readable
<1> QED
  BY <1>1, <1>2, <1>3, KeysSafe, PTL DEF ClientSpec
=============================================================================
