# Verification of the property-management system

TLA+ models of the API in `src/apps/api` (NestJS, Prisma, PostgreSQL) and of what
the web client in `src/apps/web` does with its answers, checked with TLC on small
instances and, for their main invariants, proved with TLAPS for every value of the
constants.

The program is a multi-tenant back office for landlords: properties, blocks and
units; tenants and leases; monthly rent charges, payments and receipts;
expenses; maintenance; staff with roles and property scopes; notifications,
documents, reports. A Next.js client (`src/apps/web`) calls it over HTTP. All
lasting state is in one PostgreSQL database. Nothing spans organizations except
the nightly jobs, which visit one after the other, so every model is of one
organization.

What makes this code hard to test is the same thing everywhere. A handler is a
sequence of `await`ed statements; the API handles many at once; most of them
read and check first and write later, by id, in a transaction that does not read
again. Between the two anything may happen. What stops the damage is a row lock
in one place (payments) and, elsewhere, CHECKs, unique indexes and foreign keys
added by hand-written migrations. Unit tests run one handler at a time against
stubs, and the end-to-end tests hold few races. The models therefore split each
handler at its waits and let TLC and the proofs take every interleaving. The
client has the same trouble one step further away: what a screen shows was read
earlier, and an answer that does not come says nothing about what was done.

## 1. The system

| Component (src/apps/api/src/...) | State | Operations | Hard behaviour | What makes it correct |
|---|---|---|---|---|
| Payments `modules/payments` | `Payment`, `RentRecord.paidAmount/balance/status` | create (idempotent), void, list | concurrent payers on one charge, retries, voids, rollbacks | paid = sum of completed payments; no overpayment; one payment per key |
| Receipt numbers `finance/receipt-number` | `NumberSequence` row per year | next, inside the payment's transaction | a number taken and rolled back | each year's book is 1..n, each number once |
| Finance formulas | none | balance, status, percentages | overlapping statuses | stored status agrees with stored amounts |
| Rent `modules/rent` | `RentRecord` | generate, markOverdue | sweep beside payments; two generations at once | late charges surface; each lease billed once a month |
| Leases `modules/leases` | `Lease` | create, update, renew, terminate | stale reads | one tenant per unit; termination is final |
| Lease status job `lease-status.service` | `Lease.status` | three UPDATEs, nightly | stops between them, index refuses one | lapsed and extended leases are found again |
| Units `modules/units` | `Unit.status` | create, update, setStatus, remove | a move-in between check and write | OCCUPIED exactly while leased |
| Portfolio: properties, blocks, tenants, expenses | their rows | create, update, deactivate, remove | counts read before a delete, places checked before a write | nothing refers to a missing row or to another property |
| Maintenance `modules/maintenance` | `MaintenanceRequest`, its timeline | create, update, assign, changeStatus, addUpdate | overtaking handlers | workflow order, final states, readable history |
| Staff `modules/staff` | `User`, `UserRole`, `StaffAssignment` | invite, update, assignProperties, setActive, remove | count of owners read before the write | an active owner always; assignments only where they restrict |
| Permissions, guards | per-process role cache (60 s) | forUser, invalidate | stale roles | a revoked role stops being served |
| Auth, sessions `modules/auth` | `Session`, single-use tokens, failed sign-ins | register, login, reset, verify, touch | link used twice, session issued beside a revocation | revocation is final; only an invitation activates |
| Notifications `modules/notifications`, `jobs` | `Notification` rows with a dedupe key | sweeps, read, dismiss | sweep run twice or missed | once per person, day and subject |
| Documents `modules/documents` | row and stored object | upload, replace, remove | stop between object and row | no row without its object |
| Dashboard, reports `modules/dashboard`, `modules/reports` | none | sums and lists over the other tables | one figure computed in several ways, before and after the night's sweeps | the screens tell one story |
| Web client (`src/apps/web`) | query cache, open dialog, mutations under way | fetch, invalidate, submit, navigate | answers late, lost or overtaken; a hook that forgets a screen | what you were told of is shown; one dialog takes one payment |
| Audit, settings, exports | rows, or none | inserts, queries, formats | - | - |
| Shared packages, seed, deployment | none the API relies on | - | - | - |

Interactions: payments write rent charges and receipts; rent generation reads
leases and writes charges; leases write units; the nightly jobs write leases and
charges; staff writes what the guard of every request reads; maintenance refers
to staff accounts; the client holds copies of all of it and refetches what a
mutation's hook names. `PROJECT.json` lists each component with its files, what is
modelled of it, and each hazard at the line where it bites.

## 2. The modules

| Module | Models |
|---|---|
| `RentLedger` | payments, voids, receipt book, overdue sweep |
| `PaymentBook` | what the ledger promises: recording and voiding as single steps |
| `Figures` | the money on the screens, over the ledger: rent summary, dashboard, chart, three reports |
| `Occupancy` | leases, unit status, the nightly lease-status job, the calendar |
| `LettingBook` | what leases and unit statuses promise together: moving in and out as single steps |
| `OccupancyFigures` | the occupancy on the screens, over leases and units |
| `Billing` | rent generation and the overdue sweep over leases that change meanwhile |
| `Nightly` | `Billing` composed with the morning's sweeps, their recipients and readers |
| `Portfolio` | properties, blocks, units, tenants, leases, expenses, documents, and the keys between them |
| `Sessions` | one account: sign-in, lockout, sessions, password links, deactivation, purge |
| `ApiTables` | the tables each API operation writes, and each query reads |
| `WebScreens` | the client's queries, mutations, pages and dialogs, and what each mutation invalidates |
| `ApiRoutes` | the permissions of each role, every controller's routes and policies, the guard |
| `WebAccess` | what a role sees of the client: sidebar, links and buttons, and the request behind each hook |
| `WebClient` | one signed-in browser over all four: its cache, its dialogs, answers late, lost or overtaken |
| `Maintenance` | one maintenance request and its timeline |
| `StaffAccess` | accounts, roles, property assignments, invitations, the role cache and the guard |
| `...Proofs` | the theorems about the module of that name, and about the figures and the abstract book beside it; Billing's are in `NightlyProofs`, those of Sessions and WebClient in `BrowserProofs` |
| `FiniteSums` | lemmas about sums over finite sets, for the proofs |
| `MC...` | names and small inputs for TLC |

**RentLedger.** Each HTTP request is a process with a program counter, one step
per stretch between two waits on PostgreSQL. `create`: idempotency lookup
(`Replay`/`Receive`), reference pre-check (`CheckReference`), row lock and sums
(`LockCharge`, `RefuseOverpayment`), insert with the waits of the unique indexes
(`InsertPayment`), the year's counter (`TakeNumber`), commit, and, after what is
awaited between the commit and the answer, the answer (`TellRecorded`). `void`: the
read outside the transaction (`ReadPayment`), the lock (`LockForVoid`), commit or the
CHECK's refusal, the answer (`TellVoided`). Uncommitted values live in `draft`; other
requests see committed rows and index entries only. `Abort` is anything awaited that
throws: a read, the transaction with its locks, or, after the commit, its
acknowledgement or what the notices have to read. The client is then told "failed",
which says nothing of the money. Amounts are natural numbers in minor units (the
code keeps `Decimal(14,2)` and never leaves that range in one charge).

**Figures** EXTENDS it with one operator per query: which rows it takes and which
column it sums. The same amount is a sum of payments on one screen (by the
month they came, or the month they are for) and a stored column on the next.
A page that runs several queries runs them with `Promise.all`, outside a
transaction; the operators are of one snapshot, so a page loaded while a payment
commits may still mix two.

**Occupancy.** A client has one request in flight and sends any number. `Read...`
is everything up to the write and remembers in `request` what will be written;
`Commit...` is the writing transaction, with each database constraint as a named
guard (`IndexAllows`, `CheckAllowsLive`, `NoLeaseOf`). Reads within one handler
are taken together: the writes act on the last of them. The job's three
statements are three steps and `jobDay` is the day it began with; `ClearRefused`
is a statement the unique index refuses, `JobAbort` a stop. Of a lease's terms
the end date is kept; rent, deposit and wording do not decide any of this.
**OccupancyFigures** counts units by status and leases by status, as the dashboard
and the reports do. The occupancy report drops archived properties and the
dashboard's unit counts do not. Archiving changes one column that nothing else of
this looks at, so what is archived is a parameter of the report, and `OccupancyTold`
is stated of every choice.
**LettingBook** has neither requests nor lease statuses: `MoveIn`, `MoveOut`,
`SetAside`, `Remove`, each one step on a unit that is free, let, off the market or
gone. `Homes`, `Tenants` and `Market` are the mapping: a lease is at home in the unit
it was signed for, a unit's tenant is whoever holds a lease that is not closed.

**Billing.** A run of `generateForOrganization` is a process: `ReadLeases` takes
the live leases the month covers (`leaseCoversPeriod`), `InsertCharges` inserts
what the unique index on lease and month admits, `MarkOverdue` is the last
statement. A run comes from the button (`PressButton`) or from a process's nightly
job (`NightlyRun`), which reads no lease where the organization has generation
switched off (`generates`, chosen at the start: nothing in the code writes the
setting) and marks what is late all the same. `Crash` ends a run between any two. `Sign`, `Edit`, `Renew`,
`Terminate` and `Lapse` change leases in between; `Settle` and `Unsettle` stand for
payments and voids, each one step here and many in `RentLedger`.

**Nightly** EXTENDS `Billing`. `List` takes at most `Cap` of the facts a sweep's
query returns; `ReadRecipients` and `Notify` handle one fact each, with the
deduplicating index as `NoticeAdmitted`; `FailNotice` is the swallowed error of an
insert, `StopSweep` a process that stops and sweeps again later. `Assign` changes who
may see a lease, `MarkRead` is a reader. The key of an overdue notice carries the
day it was swept, that of an expiry notice the milestone.

**Portfolio.** `Check...` is what a handler reads and refuses on, the action of the
same name without it the write, with the foreign keys (`BlockRefs`, `UnitRefs`,
`LeaseRefs`, `ExpenseRefs`, and `Unreferenced` for a delete: every relation is
`onDelete: Restrict`) and the two partial unique indexes on unit numbers
(`NumbersApart`) as guards. `DropBlock` is the one transaction that detaches the
units of a block and deletes it. Ids are never reused, except that a document's is
once neither row, object nor request knows it, which is what a new one looks like. An
upload is `PutObject`, then `CreateRow`, or `RefuseRow` and `DeleteObject`, or
`LoseAnswer` and `DeleteObject`: the row is committed, the upload does not hear of it,
and its catch deletes the object all the same. `unheard` remembers these rows. A
removal is `DeleteRow` and `DeleteObject`; `Leave` stops a request between any two.

**Sessions.** A request reads, spends time on hashing a password, and writes by
id: sign-in (`ReadForLogin`, then `WriteFailure` or
`RecordLogin` and `Issue`), the reset and the
invitation link, password change, deactivation from the staff screen. The
heartbeat of the guard is not awaited: `heartbeat` is a write that floats until
`WriteTouch` or `LoseTouch`. `Purge` is the nightly clean-up. Which password is
right is left open, and a token is its link.

**Maintenance.** The shape of Occupancy. `Create` inserts the row and `WriteRaised` the
first timeline entry, in two statements as in the code. `DateAgrees` is the CHECK
on `completedAt`. `cost` stands for every field `update` can change. The API reads a
timeline back by `createdAt`, and an entry is stamped at some time between its
handler's read and its commit. `timeline` is in the order of commits, and each entry
that moves the job says how many were committed when its handler read (`since`):
those come before it in every reading (`KnownBefore`, for one clock), overlapping
ones in either order. What is said of a reading is said of all of them (`ReadNext`,
`ReadLast`).

**StaffAccess.** The guard resolves the actor's role from the cache or by a
lookup that is stored later (`CacheHit`, `CacheMiss`, `StoreAccess`), and a
request goes on only with an owner's role, the one role that may manage staff.
`assignProperties` is split in two (`DeleteAssigned`, `CommitProperties`),
because two of them can interleave and leave both sets. A role change is one
step. ACCOUNTANT is scoped like CARETAKER and not modelled twice. `PermissionsService.invalidate`
has no caller in the repository: a cached role goes only by expiring. Any session
of an active account may send a request, and an invited account may accept at any
time; `Sessions` has what lies behind both.

**ApiTables** and **WebScreens** are relations between names. A mutation *touches* a
query if it writes a table that the query reads; it *invalidates* it if one of the
roots its hook passes to `invalidateQueries` is a prefix of the query's key. Pages list
the queries they mount, those among them whose failure they say nothing of
(`silent`: the page never looks at `isError`) and the mutations they offer; dialogs
list the queries they hold while mounted (`Held`), while open (`Picked`), and those
whose failure they tell (`DialogSays`). Queries are named without their
parameters: no hook invalidates by parameter.

**ApiRoutes** and **WebAccess** say who may do what, once as the API decides it and
once as the client does, from separate files of the repository. `Admits` takes the
first route of a controller that matches a request and asks `PermissionsGuard` about
its policy. `SiteMap` gives every page the buttons it holds back and the permission it
asks for (`Button`); `Offered` and `Shown` are then what a role is offered and shown
there. `Reach` follows the sidebar and the links, whichever record they lead to;
`ReachAssumption` says that four links suffice. Typed addresses are left out: the
pages themselves do not ask who comes. SUPER_ADMIN has the owner's permissions, and
nobody with the role TENANT signs in.

**WebClient** follows one story, a role, a mutation and a query it touches (or one
that the role may not read), because entries of the cache do not act on one another. The API is the log of what it committed, a
query's answer the length of the log when it was read. `ReadFetch`, `AnswerFetch`
and `FailFetch` are a request in flight, `Age`, `Refetch` and `Collect` the cache's
times, `Visit` and `Reload` the browser (pages follow one another in any order, which
has every order the links allow), `Submit`, `Serve`, `Refuse`, `HearDone`,
`HearRefused` and `LoseAnswer` a mutation. A post's `ear` is who still hears its
answer: the dialog, the page, the cache alone, or nobody. What TanStack Query does
is modelled from how the client uses it: `invalidateQueries` outdates what is cached
and replaces a request under way, unless there is no data yet, in which case the
first request is kept and its answer may be too old (`late`). A failed refetch leaves
the old data outdated, and `Says` is whether anything in view mentions it. `KeyOf` is the payment dialog's idempotency key. A removal's answer leads
on to the page above the record (`AfterRemoval`), wherever the browser is by then.
A request that the role may not make can only fail, and a mutation is answered
"forbidden".

Simplifications that hold throughout: audit inserts are left out (they follow the
operation and their failure is swallowed; `ApiTables` alone has them); validation of a body's shape is the
set the inputs come from; a refusal that changes nothing is either `Abort`/`Leave`
or no step at all.

How they fit together: `Nightly` is built on `Billing`, the figures on their
tables, `WebClient` on `ApiTables`, `ApiRoutes`, `WebScreens` and `WebAccess`, `RentLedger` on `PaymentBook`
and `Occupancy` on `LettingBook` by refinement. Leases are the shared table of
`Occupancy`, `Billing` and `Portfolio`: the first has their status and their unit's,
the second their terms, the third what refers to them, and a handler of one is a
single step of the others.

## 3. What TLC checks

| Run | Instance | What it shows |
|---|---|---|
| `ledger_payers` | 3 payers, 1 voider, 2 charges, 2 years | Sums, balances, statuses, receipt book, keys, references and answers are consistent in every interleaving, with retries, invalid bodies, rollbacks and failures after the commit: who is told "recorded", "replayed" or refused may rely on it (`AnswersTruthful`). `ImplementsBook`: each locked transaction is one step of `PaymentBook`. `AppendOnly`: no step rewrites history. `PeriodsAddUp`, `BasesAgree`: payments add up to what the charges of their period say, and the rent summary, dashboard and reports tell what was charged and what is left alike, also right after midnight, before the overdue sweep. |
| `ledger_voiders` | 2 payers, 2 voiders, fair | With two voiders of one payment: a charge is never counted as paid beyond what completed payments back; every started request is answered (no deadlock of charge, index and counter locks); late charges surface. |
| `ledger_double_void` | 2 payers, 2 voiders | **Violation** of `Reconciled`. |
| `occupancy_rush` | 2 clients, 1 unit, 2 leases, 3 days | What the constraints guarantee under any interleaving: one ACTIVE lease per unit, no terminated lease revived. |
| `occupancy_clerk` | 1 client, 2 units in 2 properties, 2 leases, 3 days, fair | With one request at a time, beside the nightly job: unit and lease tables agree, every commit is a step of `LettingBook` (`ImplementsLetting`: nobody moves in beside another tenant), dashboard and occupancy report tell the same but for exactly the units of archived properties, and each occupied unit is behind one tenant on the tenant report or the renewals list (`OccupancyTold`), lapsed leases leave the live list, extended ones leave the worklist. |
| `maintenance_desk` | 2 clients, 1 colleague, 3 entries | Whoever overtakes whom: no job is completed that was not worked on; in every order the timeline may be read back in, moves one after the other chain, and the last one ends at the status. |
| `staff_admin` | 1 request at a time, 2 accounts, 2 properties, fair | An active owner always remains, even when the actor's own demotion has not reached the cache; assignments exist only where they restrict; the cache ends up with the role a user has. |
| `sessions` | 2 requests at a time, 2 sessions, 2 links, 4 days | No heartbeat carries a session past its ceiling or, after signing out everywhere, makes one work again; only the invitation activates an account. |
| `billing` | 1 lease, 2 months of two days, button and job, fair | A lease is billed once a month by any mix of runs; a charge is never repriced or reopened; where generation is on, a lease signed in the middle of the month is billed for it without anybody pressing the button. |
| `nightly` | 1 lease, 2 processes, an owner and a scoped reader, fair | Each person is told once per fact and day, only of what was theirs to see, and only of what was billed and late; what was read stays read; a charge that stays overdue, no more being overdue than a sweep lists, is announced. |
| `portfolio` | 2 requests at a time, 2 properties, 1 block, 2 units, 1 tenant, lease, expense, document | Nothing names what is gone, nothing is placed across properties, unit numbers stay unique, no document row loses its object unless its upload never heard of the commit. |
| `web_client` | 1 browser, a story of every character, 2 mutations, 2 openings of the dialog | A write the browser was told of is shown, or asked for, or the screen says it failed, or is one that keeps silent when a request fails; one opening of the payment dialog takes the money once, with answers late, lost or overtaken; no button a role is shown is forbidden to it, and no page but three reads what it may not. |

### Where code and comments disagree

`ledger_double_void` is a finding, quoted in `PROJECT.json`: two voids of one
payment both pass the status check, which is outside the transaction. The second
subtracts the amount again; the CHECK stops it only if the charge has no other
payment. The charge then counts less than was paid.

These were met while modelling and are described here only:

- `setStatus`, a second move-in or a second termination acts on a unit status read
  earlier, and a leased unit ends up not OCCUPIED. Setting two clients in
  `occupancy_clerk` violates `UnitFollowsLease`.
- An edit (not a renewal) moves the end of an EXPIRED lease into the future; no
  statement of the job looks at an EXPIRED row again.
- `assign` writes back the status it read: it reopens a job cancelled meanwhile.
  `ClosedIsFinal` is proved only where no move of a job, and no edit beside one, is
  under way twice (`MovesApart`, `EditsApart`).
- Two owners who demote, deactivate or remove each other at once are both counted
  as the other remaining owner. Two requests in `staff_admin` violate
  `AnActiveOwner`. Two replacements of one person's properties leave both sets.
- The tenant report shows "NOT HOUSED" for somebody who stays past the end of a
  lease: it looks for ACTIVE and EXPIRING_SOON only, while docs/PHASE-3.md:34 calls
  that staying normal and the unit stays OCCUPIED. The totals line of the occupancy
  report calls `total - occupied` vacant, its rows count VACANT alone.
- The dashboard reconstructs last month's occupancy from leases by their dates
  and today's from `Unit.status`; with a back-dated lease of a unit created later
  the first can pass 100%.
- `documents.service.ts:220` leaves orphaned objects to a cleanup job; the
  repository has none. If the database commits the row and the answer is lost,
  the handler's catch (`documents.service.ts:242-246`) deletes the object of a row that
  exists. `DocumentHasObject` excepts these rows (`unheard`) and no others.
- Once a payment is committed, a failing read of its recipients or of the currency
  (`payments.service.ts:343-372`) is rethrown (394) and answered as a failure, although
  the payment stands. A retry with the key is answered "replayed", one without is a
  second payment. `AnswersTruthful` therefore concludes nothing from "failed".
- An account deactivated while its invitation is being accepted is activated by
  the acceptance, which wrote from an earlier read.
- The expiry sweep takes leases that end in exactly 60, 30 or 7 days: a missed day
  is a missed milestone. A sweep's limit of 100 has no order that would let the
  others have their turn (`notification-sweeps.job.ts:57-59`): with more overdue than
  that, the same 100 may be told every day. `OverdueIsAnnounced` promises a charge its
  notice only while no more are overdue than the cap.
- `portfolio.strategies.ts:9-11` says that its reports count as the dashboard does. The
  occupancy report leaves archived properties out (151) and the dashboard counts their
  units (`dashboard.service.ts:102`), and a property with tenants may be archived.
  `OccupancyTold` states the difference.
- Timeline entries of overlapping moves are ordered by `createdAt`
  (`maintenance.service.ts:222`), not by which commit decided the status: the entry
  read last need not end at the status of the job.
- Rent is generated for the current month only: a lease signed on the last day
  after the job, or dated back, is not billed for what is past.
- The comment in the income report (`financial.strategies.ts:311`) says that a late
  payment is collected in the month it arrived; the query sums what the charges have
  been paid, by the month they are for. `IncomeReport` is the query, and of one
  month's collected money `PeriodsAddUp` asserts neither reading: only that over all
  months it comes to what the collection report has.
- `query-client.ts:107-112` (`apps/web`) says that invalidating together is what stops one
  screen showing a balance another has already collected. If the refetch then fails,
  some queries' pages never look at the error and keep the old figures without a word:
  the totals of rent, expenses and maintenance (`rent/page.tsx:41`,
  `expenses/page.tsx:41`, `maintenance/page.tsx:39`), the dashboard's charts and worklists
  (`dashboard/page.tsx:42-43`), a property's summary and its lists of blocks and units
  (`properties/[id]/page.tsx:45-47`), a block's units, the expiring leases, the settings,
  the sessions of the profile, every property filter, and the badge of the sidebar.
  `MyWritesShow` lets those, and only those, be behind after a failed request
  (`FailedSilently`), while they go on being asked for.
- The comment on `INSIGHT_ROOTS` (`apps/web`, `query-client.ts:139`) says that everything
  invalidates the dashboard; the hooks of the portfolio and of tenancies leave these
  roots out, and its figures stay until they age. `MyWritesShow` fails without the
  exemption for them.
- Some other edges are untold as well (`Untold`): the receipts' letterhead after a
  change of the organization's settings, staff after a property is removed, jobs
  after a colleague is, one's own rights after one's role was changed, the staff
  list after an edit of the profile, and the audit trail after anything.
- A first request still under way when a mutation is answered is kept, and what it
  read may be older than the mutation (`late`).
- `features/finance/api.ts:33` speaks of a key per submit attempt; the dialog makes
  one per opening, which is what protects a second press. Shut and opened again after
  a lost answer it makes a new one, and a second payment goes through. An amount
  corrected after a lost answer is answered with the first payment. An expense has
  no key, so that a press after a lost answer records it again.
- The answer to an earlier press shuts a dialog that was shut and opened again, and
  that of a removal takes somebody who has gone elsewhere to the list.
- `dashboard/page.tsx:41` asks for the figures before it looks at the role, so that a
  caretaker's dashboard, which shows none, has its requests refused; the lists of
  work behind it too. A lease's page asks for its charges on behalf of a caretaker, and
  says so when they are refused. `AssignMaintenanceDialog` reads the staff list although
  a caretaker may assign jobs and may not read it, and is mounted for an accountant,
  who has no button for it. `Withheld` names these; `NothingIsForbidden` says there are
  no others.

Where a property holds only without such a race, its run has one client (or, for
`Reconciled` and `ImplementsBook`, one voider), and its theorem says which requests
must not overlap.

### Bounds

Two requests are enough for every race of two handlers, and handlers of these
components do not wait for one another beyond the ledger's locks; the ledger has
three payers so that one can hold a charge, one wait for it and one collide in an
index. Two charges make the receipt counter contended by payments that do not
share a charge. The calendar bounds (`LastDay`) let a charge turn late in a new
year of the receipt book, and let a lease become expiring, expire, and be
extended. End dates 1 and 3 with a warning window of 1 day lie within, at the edge
of and beyond it. `MaxEntries` 3 holds two moves that overlap and one before or
after them, which is what a reading may put out of order, and a job from raised to
completed; a full timeline stops writes and nothing else. The two voiders' run takes
fewer bodies (`MCFewInputs`): it asks about locks and voids, not about keys. Two accounts are
the least at which an owner can lose to another.

In `billing` months have two days, so that a lease can start or end on the first,
in between and on the last, and a charge due on the first is late within its own
month; one lease is enough because the statements treat each lease by itself. In
`nightly` the one lease has at most one overdue fact of a month and the cap is 1: the
run is about restarts, readers and reassignments, and never exceeds the cap, above
which `OverdueIsAnnounced` claims nothing; the milestone of 1 is met while a charge is late. In `portfolio`
two units and one number are the least for a collision, one block and two
properties the least for a wrong place, and the document is filed on the expense,
the one record that may be deleted under it; `MaxLeases` 1 because leases are
only ever in the way of a delete; a handler that needs a new id runs only while one
is left (`IdLeft`). `sessions` has `LastIssue` 0: all sessions start
on the first day and the clock runs past their ceiling (`Ttl` 2, `AbsoluteTtl` 3);
`MaxFailed` and `Lockout` are 1, so that a lock is set and runs out. The
proofs have none of these bounds.

`web_client` tells one story of every character: `Character` is all that an action
or a property looks at in a story (which pages offer and show it, and which say when they cannot, where its answer
leads, what its role may, whether its dialog picks it, whether it is told, how its
button waits), so that the stories left
out behave as one that is told. Two mutations are enough for an answer that
overtakes another and for a second press after a lost one; two openings for an
answer that meets another opening than its own.

`CHECK_DEADLOCK FALSE` stands in all runs but the ledger's and `web_client`: bounded leases, days,
ids and entries run out, and nobody has to send a request. The ledger checks for
deadlock, with `Quiet` for an idle API, so that a cycle of lock waits would be found.

### Fairness

Ledger: a handler that was started and can go on does (`WF` on each request's
steps: Node runs its continuations, PostgreSQL grants a free lock), and the
overdue sweep runs. Sending, losing a connection and new days are not fair.
A lock holder never waits for ever, so weak fairness is enough for those waiting:
with the bounded set of requests a lock is not re-taken for ever.
Occupancy: the job starts every night (`WF`), and each of its statements is not
cut short every single night (`SF`: `JobAbort` may interrupt, not always). No
client step is fair. StaffAccess: a cache entry expires (`WF`), because time passes.
Billing: the nightly job starts (`WF`), and its insert and its overdue statement
are not cut short every time (`SF`). Nightly: a sweep that was started goes on
(`WF`), the overdue sweep runs again and again, and reading the recipients of one
fact and writing its notice do not fail every time (`SF`). No reader, no
reassignment and no passing day is fair: that a charge is announced is promised
only if it stays overdue.

## 4. What is proved

`tlapm` checks every proof to its leaves, over arbitrary finite or infinite sets of
requests, leases, colleagues, accounts, with only the named assumptions on
constants (types, disjointness of `None`, amounts and dates natural numbers,
`OCCUPIED` not settable by hand). Charges and units are finite sets where figures
add them up: they are the rows of a table.

**FiniteSums.** `SumFunctionOnSet` of the community modules is a fold over a finite
set, in an order that `CHOOSE` decides. `SumByElement`, that any element may be taken
off first, is the heart of it; the rest (`SumAdd`, `SumSame`, `SumPlus`, `SumUnion`,
`SumByGroup`, `CountByGroup`) follows. Induction with an operator as a parameter is
out of reach, so `SmallerFirst` states it with a set of subsets, and is proved by a
smallest counterexample.

**RentLedgerProofs.** `LedgerSafe`: `Spec => []LedgerInv`. The readable properties
are not inductive: that a commit keeps the balance right needs to know that its
draft was computed from the row the transaction still holds. `LedgerInv` adds
`CreateInv`/`VoidInv` (what each program counter holds, and `FreshDraft`) and
`IndexInv` (two open transactions never hold colliding index entries). It holds
for any number of voiders. `LedgerProperties`, `TakenOnce`, `AnswersAreTrue` and
`PaymentsAppendOnly` follow; for the third the invariant says that a payment's request
is about to tell, told "recorded", or failed after its commit.

`PaidStaysBacked` says of every interleaving that a charge counts no more as paid than
its completed payments come to: a commit adds the amount to both, a void takes
it off the charge at least as often as off the sum. That the two are equal
(`LedgerReconciles`), and that every locked transaction is one step of the payment book
(`LedgerImplementsBook`), is proved under `[]VoidsApart`: no two voids of one payment
are past their read at the same time. Voids of different payments, and any number
of payers, may overlap as they like; `ledger_double_void` is why the hypothesis is
needed. Under it a void finds its payment still completed (`StillCompleted`).
`ScreensAddUp` and `BasesAlwaysAgree` carry this to the screens: sums by charge, by
period and by month regroup one set of payments, and a charge that owes nothing
contributes nothing to what is outstanding. The second needs no hypothesis, because
a sum over payments by month regroups the same rows whatever the charges say.

**OccupancyProofs.** `OccupancySafe`: the constraints alone, with requests that
name signed leases, are inductive under every interleaving; `OneActive` and
`TerminationIsFinal` follow. The rest is proved under `[]MovesApart`: of the requests
that decide who is in a unit (move-in, termination, manual status) no two are in hand
on one unit at once. Requests on other units, and edits, renewals and removals
on the same one, overlap freely, with each other and with the job. `ClerkSafe`: what
a handler read then still holds when it writes (`ReadStillHolds`), because the job,
edits and renewals write neither units nor terminations, and a unit that was removed
in between is one the move-in's insert does not find.
`ClerkKeepsUnits` and `ClerkKeepsTenantsApart` are conjuncts of it.
`OccupancyImplementsBook` is the refinement `Spec /\ []MovesApart => Letting!Spec`: each
commit that moves somebody is one step of the letting book, and all else is a
stutter. `ScreensTellOccupancy` needs besides that an EXPIRED lease has an end
(`ExpiredHasEnd`), so that the renewals list has everybody the tenant report lacks;
from there it counts: tenants of occupied units are as many as the units.

**NightlyProofs** begins with Billing. `BillingSafe`: `BillingInv` has, beside the readable parts,
`BillsCovered`: what a run took along when it read is still a signed lease that
starts in time when it inserts, because a start date never changes. `BilledOnce`
is the unique index under any number of runs; `ChargesAreHistory` the action
property.

Nightly builds on it. `NightlyInv` adds `SweepsAreSound`, about the facts
and recipients a sweep carries: what was billed and late stays billed and late in
the sense of the notice's day, and who was allowed to see stays someone who was.
`EachToldOnce`, `ToldWithinScope`, `AnnouncedTruly` and `ReadForGood` follow, for any
number of processes and any cap.

**PortfolioProofs.** `PortfolioSafe`: `PortfolioInv` adds `ChecksHold`, what is left
of a handler's checks at its write. A block or unit it named was there and was in
the right property; it may be gone by now, but it has not moved (`IdsKept`: ids
are not reused and no handler changes a property), so the foreign key decides
the rest. `KeysApart` says that an object under way belongs to one request.
A row whose object somebody is deleting is one in `unheard`, and no other.
`NothingEverDangles`, `PlacesHold` and `EveryDownloadWorks` follow, for any number of requests and rows.

**BrowserProofs** has both sides of a signed-in browser. Of Sessions, `SessionsSafe`: `SessionInv`
adds `TouchUnderCeiling` (a heartbeat under way was computed under its own row's
ceiling) and `EndedIsRevoked` (nothing takes a revocation back); `SlidesSafely`,
`SignOutLasts` and `LocksAreEarned` follow. `OnlyTheInvitation` needs `InvitedInv`
besides: before the account is active no other link exists, so a reset that will
activate was read from the invitation.

Of WebClient, for any number of dialogs and mutations, `KeysSafe`: a mutation carries
its dialog's key up to the log, and the API's log has a payment's key once
(`KeyedByDialog`, `KeysTakenOnce`), whence `PaysOnce`. `ToldSafe` is about the cache. That
the screens account for what the browser was told is not inductive: a request in flight
must be known to be late once the browser has outrun it (`FetchCatchesUp`), a screen
that failed must be asked for again on the next visit (`FailedIsStale`), and what the
layout shows must be on every page, because a visit does not mount it anew
(`LayoutIsShown`). `ToldStoriesShow` follows for every mutation whose hook tells the query,
by an invalidation or by setting its data: the write is accounted for, or the screen
is a silent one whose request failed (`FailedSilently`), and its data is then still
marked to be asked for. `WritesShow` is `MyWritesShow` under
`HooksTell`: the tables of hooks leave out nothing but what `Untold` lists. That is a
constant formula over the tables of `WebScreens` and `ApiTables`, with nothing of a
behaviour in it; the prover does not enumerate them. TLC does, story by story: a
story that broke it, and whose mutation is answered, breaks `MyWritesShow` in
`web_client`.

`NothingForbidden` is `NothingIsForbidden` in the same way, under `ScreensAgree`: every
page a story comes to, also after a removal, offers what the role may do and shows
what it may read. That is of the tables; the theorem (`AllowedInv`) adds that no visit,
dialog kept open, refetch or late answer sends anything a page did not offer or
show. A page that disagreed would break the property in `web_client`, where every page
is an initial one or is come to after a removal.

**MaintenanceProofs.** `MaintenanceSafe`: the inductive part is `CarriedInv`, about
the status a handler carries from its read: if it is IN_PROGRESS the timeline has
shown that already, and timelines only grow. Hence `CompletedWasStarted` under any
interleaving. For the timeline it says that the status carried is where the last move
stood when the handler read (`ToldBy`); of the entries, `CommitsChain` says the same,
and `LastCommitDecides` that the last commit ends at the status. `TimelineIsTrue` follows
because moves that stand next to each other in every reading were committed in that
order with nothing between that the later one did not know (`ReadingsFollowCommits`). `ClerkKeepsJobs` is proved under `[]MovesApart`: no two
requests that move the job (raise, assign, change status) are in hand at once, while edits
and notes overlap them freely. Then the status a move carries is the current one
(`ReadStillHolds`), so moves are legal and the timeline is a chain that can be read in
one order only. An edit writes
without looking at the status again, so that `ClosedStaysClosed` needs `[]EditsApart`
too: no edit is in hand beside a move.

**StaffAccessProofs.** `AccessSafe`: types, one role per existing account, nothing
left of a removed one, under any interleaving. The two checks of the staff service
survive to the write under hypotheses that name just the requests that break them.
`OwnersKept`, under `[]OwnersApart`: no two requests that may take an active owner away
(a demotion, a deactivation, a removal; `Lessens`) are in hand at once. Promotions,
invitations, acceptances and replacements overlap them freely, because none of them makes the
set of active owners smaller, and one that makes an owner of the very account that
was checked finds that another was there before. Hence the last owner stays
(`AdminKeepsOwner`), whatever the cache says. `ScopesKept`, under `[]ScopesApart`: nobody's
role is changed while their properties are being replaced. A removal may overlap: the
foreign key then lets nothing be inserted. Hence whoever sees everything keeps no assignment
(`PromotionClearsAssignments`).

Only model-checked: `HooksTell` and `ScreensAgree`, which are statements about the
tables of hooks, screens, routes and roles, row by row; and all liveness
(`EveryRequestAnswered`, `LateChargesSurface`, `LapsedLeasesSurface`,
`WorklistCleared`, `SignedIsBilled`, `OverdueIsAnnounced`, `CacheCatchesUp`), which
this prover does not reach.

## 5. What is left

In the order of what each would add:

1. An abstract specification of `Billing`, one billing step per lease and month.
2. `RentLedger` composed with `Billing`: charges that appear while payments run.
3. Registration and email verification beside `Sessions`; the stale-maintenance
   sweep (the shape of the overdue one) and single notices beside `Nightly`.
4. Occupancy of past months and expenses on the dashboard's chart.
5. Runs for the disagreements listed above, in place of passing ones.
6. `WebClient` over the ledger itself in place of a log: two browsers, and two
   requests with one key under way at once (`RentLedger` has the latter alone).

Not modelled, and not planned: the exporters and the rows of the remaining reports (a
query and a format each; `ApiTables` has what they read); what an audit entry or a
setting says (one insert whose failure is swallowed, single-row writes); organization
scoping of queries, a rewrite of each
`where` that its unit tests cover; DTOs (declarations that
decide which inputs reach the handlers: they are the input sets here); bootstrap,
configuration, seed and deployment files.

Of the web client: signing in and out (which clears the cache), buttons that a
record's own state hides, a role that changes while the page is open, several tabs, the browser's history back
to a page kept whole, `middleware.ts`, and the writes of other people, of which a
screen hears only by aging. Half of the client's lines are layout, columns and form
fields; they decide what a request says, never when one is sent. TanStack Query is
not in the repository and is modelled from its use. That, and the declarations
above, are why the models cover a share of all lines while they cover nearly every
handler of the API that changes state.

## 6. Running

    tlc -workers 2 -config ledger_payers.cfg MCRentLedger
    tlapm RentLedgerProofs.tla

Each run in `PROJECT.json` names its module and `.cfg`. Longest: `portfolio` (a
million states) and `occupancy_clerk` (its liveness), two to three minutes each.
The proof modules take from half a minute to a few minutes each.
