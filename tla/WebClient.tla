------------------------------ MODULE WebClient ------------------------------
(***************************************************************************)
(* One signed-in browser: pages that mount queries, the query cache, the   *)
(* dialogs that send mutations, and an API whose answers are late, lost or *)
(* overtaken.                                                              *)
(*                                                                         *)
(* A behaviour tells one story, chosen at first: somebody's role, one kind *)
(* of mutation and one query whose rows it changes.  Every page the role   *)
(* comes to is then what it offers and shows of the story, and any of them *)
(* may follow any other.  The API is a log of the mutations it has         *)
(* committed; a query answers with the length of the log at the moment it  *)
(* was read.                                                               *)
(***************************************************************************)
EXTENDS ApiTables, WebAccess, Naturals, Sequences

CONSTANTS
    MaxPosts,    \* bound on the mutations sent
    MaxDialogs,  \* bound on the dialogs opened
    Nothing      \* no data yet, no request on its way

\* A query's request in flight: what the API has read for it, and whether it
\* went on under a change that would have replaced it.
Fetch == [read : Nat \cup {Nothing}, kept : BOOLEAN]

ASSUME WebConstants == Nothing \notin Nat \cup Fetch

VARIABLES
    story,   \* [kind, query, role], and what the screens and the API make of it
    page,    \* [offers, shows, says] : what the page in view does of the story
    form,    \* the dialog is "open" or "shut"
    dialog,  \* the number of times it was opened
    cache,   \* [data, stale, failed, late] of the query
    fetch,   \* the query's request in flight, or Nothing
    posts,   \* the mutations sent
    log,     \* the mutations committed, each by the dialog and key it came from
    owed     \* how much of the log the browser has been told of

clientVars == <<story, page, form, dialog, cache, fetch, posts, log, owed>>

-----------------------------------------------------------------------------
(* What the screens make of a story                                        *)

Mutations == {w[1] : w \in Writes}
Queries == {r[1] : r \in ReadsFrom}

\* What the API lets the role do and read.
MayDo(s) == Admits(s.role, RequestOf(s.kind))
MayRead(s) == Admits(s.role, RequestOf(s.query))

View(p, s) ==
    [offers |-> s.kind \in p.offers, shows |-> s.query \in p.shows,
     says |-> s.query \in p.shows \ p.silent]

Views(s) == {View(p, s) : p \in {p \in Seen : p.role = s.role}}

\* A record's page that hears of the record's removal goes to the page of what is
\* above it.
AfterRemoval ==
    { <<<<"properties", "remove">>, "properties">>, <<<<"buildings", "remove">>, "property">>,
      <<<<"units", "remove">>, "property">>, <<<<"tenants", "remove">>, "tenants">> }

\* That page, in a set of its own; other answers lead nowhere.
LeadsTo(s) ==
    {View([offers |-> Offered(a[2], s.role), shows |-> Shown(a[2], s.role),
           silent |-> Silent(a[2])], s) :
        a \in {a \in AfterRemoval : a[1] = s.kind}}

\* A mutation that some page offers the role, and a query that some page or the
\* mutation's own dialog shows it: one the mutation changes, or one withheld.
Tellable ==
    {s \in [kind : Mutations, query : Queries, role : Roles] :
        /\ \E p \in Seen : p.role = s.role /\ s.kind \in p.offers
        /\ <<s.kind, s.query>> \in Picked
           \/ \E p \in Seen : p.role = s.role /\ s.query \in p.shows
        /\ Touches(s.kind, s.query) \/ ~MayRead(s)}

\* With the pages a story may come to, and what the API lets its role do.
Told(s) ==
    [kind |-> s.kind, query |-> s.query, role |-> s.role,
     views |-> Views(s), leads |-> LeadsTo(s),
     may |-> [do |-> MayDo(s), read |-> MayRead(s)]]

Stories == {Told(s) : s \in Tellable}

Picks == <<story.kind, story.query>> \in Picked

Mounted == page.shows \/ (Picks /\ form = "open")

\* What is in view says so when the query could not be had.
Says == page.says \/ (form = "open" /\ <<story.kind, story.query>> \in DialogSays)

\* The dialog of these kinds is mounted only while open: shut, it forgets that
\* it was waiting.
Forgetful ==
    {<<"payments", "create">>, <<"payments", "void">>, <<"staff", "assignProperties">>,
     <<"maintenance", "changeStatus">>}

\* A button that does not wait for its last press.
Rapid == {<<"notifications", "markRead">>, <<"staff", "setActive">>}

Payment == <<"payments", "create">>

\* Mutant: a key for each press.
KeyOfPress(d, n) == <<d, n>>

\* The idempotency key of a payment: one for each opening of the dialog.
KeyOf(d, n) == <<d>>

-----------------------------------------------------------------------------
(* The query cache                                                         *)

EmptyCache == [data |-> Nothing, stale |-> FALSE, failed |-> FALSE, late |-> FALSE]

Start == [read |-> Nothing, kept |-> FALSE]

Needed == cache.data = Nothing \/ cache.stale

\* A query that is mounted is requested unless what is cached is fresh; a
\* request already on its way is shared.
OnMount(mounts) ==
    fetch' = IF mounts /\ Needed /\ fetch = Nothing THEN Start ELSE fetch

\* invalidateQueries: stale, and requested anew where it is mounted.  A request
\* on its way is replaced where there is data, and otherwise kept.  The page that
\* then comes into view mounts what it shows.
Invalidate(comes) ==
    /\ cache' = [cache EXCEPT !.stale = cache.data # Nothing]
    /\ fetch' = IF Mounted /\ (fetch = Nothing \/ cache.data # Nothing) THEN Start
                ELSE IF fetch # Nothing THEN [fetch EXCEPT !.kept = TRUE]
                ELSE IF comes THEN Start ELSE Nothing

\* setQueryData: the answer of the mutation is the data, and a request on its
\* way goes on.
SetData(n) ==
    /\ cache' = [data |-> n, stale |-> FALSE, failed |-> FALSE, late |-> n < owed']
    /\ fetch' = IF fetch = Nothing THEN Nothing ELSE [fetch EXCEPT !.kept = TRUE]

-----------------------------------------------------------------------------
(* Initially a page has just been loaded                                   *)

ClientInit ==
    /\ story \in Stories
    /\ page \in story.views
    /\ form = "shut"
    /\ dialog = 0
    /\ cache = EmptyCache
    /\ fetch = IF page.shows THEN Start ELSE Nothing
    /\ posts = <<>>
    /\ log = <<>>
    /\ owed = 0

-----------------------------------------------------------------------------
(* Queries                                                                 *)

\* The API reads for the request, or for its retry after a failed try.  One
\* that the role may not make can only fail.
ReadFetch ==
    /\ fetch # Nothing
    /\ story.may.read
    /\ fetch.read # Len(log)
    /\ fetch' = [fetch EXCEPT !.read = Len(log)]
    /\ UNCHANGED <<story, page, form, dialog, cache, posts, log, owed>>

AnswerFetch ==
    /\ fetch # Nothing
    /\ fetch.read # Nothing
    /\ cache' = [data |-> fetch.read, stale |-> FALSE, failed |-> FALSE,
                 late |-> fetch.kept /\ fetch.read < owed]
    /\ fetch' = Nothing
    /\ UNCHANGED <<story, page, form, dialog, posts, log, owed>>

\* The last retry fails: what was had stays, and `Says' tells whether the screen
\* says a word of it.
FailFetch ==
    /\ fetch # Nothing
    /\ cache' = [cache EXCEPT !.failed = TRUE, !.stale = cache.data # Nothing]
    /\ fetch' = Nothing
    /\ UNCHANGED <<story, page, form, dialog, posts, log, owed>>

\* staleTime passes.
Age ==
    /\ cache.data # Nothing
    /\ ~cache.stale
    /\ cache' = [cache EXCEPT !.stale = TRUE]
    /\ UNCHANGED <<story, page, form, dialog, fetch, posts, log, owed>>

\* The window is looked at again, somebody tries again, or the badge is polled.
Refetch ==
    /\ Mounted
    /\ fetch = Nothing
    /\ Needed \/ cache.failed \/ story.query = <<"notifications", "unread-count">>
    /\ fetch' = Start
    /\ UNCHANGED <<story, page, form, dialog, cache, posts, log, owed>>

\* gcTime passes.
Collect ==
    /\ ~Mounted
    /\ fetch = Nothing
    /\ cache # EmptyCache
    /\ cache' = EmptyCache
    /\ UNCHANGED <<story, page, form, dialog, fetch, posts, log, owed>>

-----------------------------------------------------------------------------
(* Pages                                                                   *)

\* A mutation on its way outlives its page, and then only the cache hears of it.
Outlive(sent) ==
    [i \in DOMAIN sent |->
        IF sent[i].ear = "none" THEN sent[i] ELSE [sent[i] EXCEPT !.ear = "cache"]]

Comes(v) == v.shows /\ story.query \notin AppLayout

Visit ==
    /\ \E v \in story.views :
        /\ page' = v
        /\ OnMount(Comes(v))
    /\ form' = "shut"
    /\ posts' = Outlive(posts)
    /\ UNCHANGED <<story, dialog, cache, log, owed>>

\* The browser loads the page anew: what it had in memory is gone.
Reload ==
    /\ \E v \in story.views :
        /\ page' = v
        /\ fetch' = IF v.shows THEN Start ELSE Nothing
    /\ form' = "shut"
    /\ cache' = EmptyCache
    /\ posts' = [i \in DOMAIN posts |-> [posts[i] EXCEPT !.ear = "none"]]
    /\ UNCHANGED <<story, dialog, log, owed>>

-----------------------------------------------------------------------------
(* Dialogs and mutations                                                   *)

\* The form comes into view; a button on the page itself is one that opens and
\* shuts at will.
OpenDialog ==
    /\ page.offers
    /\ form = "shut"
    /\ dialog < MaxDialogs
    /\ form' = "open"
    /\ dialog' = dialog + 1
    /\ OnMount(Picks)
    /\ UNCHANGED <<story, page, cache, posts, log, owed>>

\* Escape works while the dialog is waiting.
CloseDialog ==
    /\ form = "open"
    /\ form' = "shut"
    /\ posts' = [i \in DOMAIN posts |->
                   IF posts[i].ear = "dialog" /\ story.kind \in Forgetful
                   THEN [posts[i] EXCEPT !.ear = "page"] ELSE posts[i]]
    /\ UNCHANGED <<story, page, dialog, cache, fetch, log, owed>>

Waiting == story.kind \notin Rapid /\ \E i \in DOMAIN posts : posts[i].ear = "dialog"

Submit ==
    /\ form = "open"
    /\ ~Waiting
    /\ Len(posts) < MaxPosts
    /\ posts' = Append(posts, [dialog |-> dialog, key |-> KeyOf(dialog, Len(posts)),
                               served |-> "no", place |-> 0, ear |-> "dialog"])
    /\ UNCHANGED <<story, page, form, dialog, cache, fetch, log, owed>>

Least(S) == CHOOSE n \in S : \A m \in S : n <= m

Committed(key) == {k \in DOMAIN log : log[k].key = key}

\* The API commits the mutation, also one whose sender no longer listens; a
\* payment whose key it knows is answered with the payment there is.
Serve ==
    /\ story.may.do
    /\ \E i \in {i \in DOMAIN posts : posts[i].served = "no"} :
        LET known == IF story.kind = Payment THEN Committed(posts[i].key) ELSE {}
        IN  IF known = {}
            THEN /\ log' = Append(log, [dialog |-> posts[i].dialog, key |-> posts[i].key])
                 /\ posts' = [posts EXCEPT ![i].served = "yes", ![i].place = Len(log) + 1]
            ELSE /\ posts' = [posts EXCEPT ![i].served = "yes", ![i].place = Least(known)]
                 /\ UNCHANGED log
    /\ UNCHANGED <<story, page, form, dialog, cache, fetch, owed>>

\* An input or a state the API does not accept, or a role it does not admit.
Refuse ==
    /\ \E i \in {i \in DOMAIN posts : posts[i].served = "no"} :
        posts' = [posts EXCEPT ![i].served = IF story.may.do THEN "refused" ELSE "forbidden"]
    /\ UNCHANGED <<story, page, form, dialog, cache, fetch, log, owed>>

\* The answer shuts the dialog, whichever is open by now, and the hook's
\* onSuccess runs wherever the browser has gone; so does the rest of the handler,
\* which after a removal takes the browser to another page.
HearDone ==
    /\ \E i \in {i \in DOMAIN posts : posts[i].served = "yes" /\ posts[i].ear # "none"} :
        LET heard == [posts EXCEPT ![i].ear = "none"]
        IN  /\ posts' = IF story.leads = {} THEN heard ELSE Outlive(heard)
            /\ owed' = IF owed < posts[i].place THEN posts[i].place ELSE owed
            /\ form' = IF posts[i].ear = "cache" /\ story.leads = {} THEN form ELSE "shut"
            /\ page' \in IF story.leads = {} THEN {page} ELSE story.leads
            /\ LET comes == story.leads # {} /\ Comes(page')
               IN  IF SetsData(story.kind, story.query) THEN SetData(posts[i].place)
                   ELSE IF Invalidates(story.kind, story.query) THEN Invalidate(comes)
                   ELSE OnMount(comes) /\ UNCHANGED cache
    /\ UNCHANGED <<story, dialog, log>>

\* The dialog stays open under the message.
HearRefused ==
    /\ \E i \in {i \in DOMAIN posts :
                    posts[i].served \in {"refused", "forbidden"} /\ posts[i].ear # "none"} :
        posts' = [posts EXCEPT ![i].ear = "none"]
    /\ UNCHANGED <<story, page, form, dialog, cache, fetch, log, owed>>

\* The connection drops: the dialog offers to press again, and nothing says
\* whether the mutation was committed.
LoseAnswer ==
    /\ \E i \in {i \in DOMAIN posts : posts[i].ear # "none"} :
        posts' = [posts EXCEPT ![i].ear = "none"]
    /\ UNCHANGED <<story, page, form, dialog, cache, fetch, log, owed>>

ClientNext ==
    \/ ReadFetch \/ AnswerFetch \/ FailFetch \/ Age \/ Refetch \/ Collect
    \/ Visit \/ Reload
    \/ OpenDialog \/ CloseDialog \/ Submit
    \/ Serve \/ Refuse \/ HearDone \/ HearRefused \/ LoseAnswer

ClientSpec == ClientInit /\ [][ClientNext]_clientVars

-----------------------------------------------------------------------------
(* Properties                                                              *)

\* What no hook tells the cache: the trail of any mutation, the dashboard and
\* the reports of a change to the portfolio or to a tenancy, and five edges
\* between components.  These screens are behind until their staleTime passes.
Untold(s) ==
    \/ s.query[1] = "audit-logs"
    \/ /\ s.query[1] \in {"dashboard", "reports"}
       /\ s.kind \in PortfolioMutations \cup OccupancyMutations
    \/ <<s.kind, s.query[1]>> \in
          {<<<<"organization", "update">>, "receipts">>,
           <<<<"properties", "remove">>, "staff">>,
           <<<<"staff", "remove">>, "maintenance">>,
           <<<<"staff", "update">>, "auth">>,
           <<<<"auth", "updateProfile">>, "staff">>}

\* What the browser was told of is in what it shows, or is on its way, or will be
\* asked for on the next visit, or the screen says that it could not be had.
Accounted ==
    \/ cache.data = Nothing
    \/ cache.data >= owed
    \/ fetch # Nothing /\ (fetch.read = Nothing \/ fetch.read >= owed \/ fetch.kept)
    \/ cache.late
    \/ IF Mounted THEN cache.failed /\ Says ELSE cache.stale

\* The request failed on a screen that never looks at the error: the old figures
\* stay there without a word, until the window is looked at again or on the next
\* visit they are asked for anew.
FailedSilently == Mounted /\ ~Says /\ cache.failed /\ cache.stale

\* A write that the browser was told of is in what a screen shows of it, or the
\* screen is being, or will on its next visit be, brought up to date, or it says
\* that it failed to; the screens that are silent about it show the write unless
\* their request failed, and then go on asking for it.
MyWritesShow == Untold(story) \/ Accounted \/ FailedSilently

\* However often the button is pressed after an answer that was late or lost,
\* one opening of the payment dialog takes the money once.
OnePaymentPerDialog ==
    story.kind = Payment =>
        \A i, j \in DOMAIN log : log[i].dialog = log[j].dialog => i = j

\* What the screens ask for on behalf of somebody who may not have it: the
\* figures of a dashboard that is then not shown, a lease's charges, and the
\* names a job could be assigned to.
Withheld ==
    {"CARETAKER"} \X (Of("dashboard", {"summary", "charts", "worklists"}) \cup {<<"rent", "list">>})
    \cup {"ACCOUNTANT", "CARETAKER"} \X {<<"staff", "list">>}

\* Wherever the links lead, nobody is shown a button that the API then forbids
\* them, and no page reads what it may not but for the three above.
NothingIsForbidden ==
    /\ \A i \in DOMAIN posts : posts[i].served # "forbidden"
    /\ fetch # Nothing => story.may.read \/ <<story.role, story.query>> \in Withheld
-----------------------------------------------------------------------------
(* The inductive invariants behind them.                                   *)

Entry == [data : Nat \cup {Nothing}, stale : BOOLEAN, failed : BOOLEAN, late : BOOLEAN]

Post == [dialog : Nat, key : Seq(Nat), served : {"no", "yes", "refused", "forbidden"},
         place : Nat, ear : {"dialog", "page", "cache", "none"}]

\* The browser's state and the API's log have their types.
ClientTypes ==
    /\ story \in Stories
    /\ page \in story.views \cup story.leads
    /\ form \in {"open", "shut"}
    /\ dialog \in Nat
    /\ cache \in Entry
    /\ fetch \in Fetch \cup {Nothing}
    /\ posts \in Seq(Post)
    /\ log \in Seq([dialog : Nat, key : Seq(Nat)])
    /\ owed \in Nat

\* Mutations carry the key of their dialog up to the log, and the API has no
\* key of a payment twice.
KeyedByDialog ==
    /\ \A i \in DOMAIN posts : posts[i].key = <<posts[i].dialog>>
    /\ \A k \in DOMAIN log : log[k].key = <<log[k].dialog>>

KeysTakenOnce ==
    story.kind = Payment => \A i, j \in DOMAIN log : log[i].key = log[j].key => i = j

PaymentInv == ClientTypes /\ KeyedByDialog /\ KeysTakenOnce

\* The browser is told of what the API has committed.
ToldOfTheLog ==
    /\ owed <= Len(log)
    /\ \A i \in DOMAIN posts : posts[i].served = "yes" => posts[i].place \in 1 .. Len(log)

\* The hooks tell the query of the mutation.
Tells(s) == SetsData(s.kind, s.query) \/ Invalidates(s.kind, s.query)

\* What is on its way is new enough, or is known not to be.
FetchCatchesUp ==
    fetch # Nothing /\ fetch.read # Nothing =>
        fetch.read <= Len(log) /\ (fetch.read >= owed \/ fetch.kept)

\* A screen that says it failed is asked for again on the next visit.
FailedIsStale == cache.failed => cache.data = Nothing \/ cache.stale

\* With nothing on its way, what is shown accounts for what the browser knows.
AtRest ==
    \/ cache.data = Nothing \/ cache.data >= owed \/ cache.late
    \/ IF Mounted THEN cache.failed ELSE cache.stale

\* Nothing was had of what the role may not read.
NothingRead == cache.data = Nothing /\ (fetch # Nothing => fetch.read = Nothing)

ToldInv ==
    /\ ClientTypes /\ ToldOfTheLog /\ FailedIsStale
    /\ Tells(story) => FetchCatchesUp /\ (fetch = Nothing => AtRest)
    /\ ~Tells(story) /\ ~story.may.read => NothingRead

\* The hooks tell every query of every mutation that changes its rows, but for
\* the ones that are listed.
HooksTell == \A s \in Stories : s.may.read => Untold(s) \/ Tells(s)

\* What the API lets the role read, or is withheld of what a page shows it.
Readable(s) == s.may.read \/ <<s.role, s.query>> \in Withheld

\* Every page the story comes to offers what the API lets the role do, and shows,
\* itself or in the dialog it offers, what the role may read.
ScreensAgree ==
    \A s \in Stories : \A v \in s.views \cup s.leads :
        /\ v.offers => s.may.do /\ (<<s.kind, s.query>> \in Picked => Readable(s))
        /\ v.shows => Readable(s)

\* A dialog was offered, a mutation was sent, a query was shown.
AllowedInv ==
    /\ form = "open" => story.may.do /\ (Picks => Readable(story))
    /\ \A i \in DOMAIN posts : story.may.do /\ posts[i].served # "forbidden"
    /\ fetch # Nothing => Readable(story)
=============================================================================
