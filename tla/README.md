# NexusOps: models and proofs

TLA+ specifications of NexusOps, an operations portal with an AI voice service
(ASP.NET Core, PostgreSQL, Twilio, OpenAI Realtime): the dispatch of voice calls,
media streams, transcripts, database migrations, the inventory, work orders and
bookings, user access and its administration, and the console page in the browser.
TLC checks small instances of every module; TLAPS proves the safety properties, and the
refinements, for every value of the constants.

    tlc -config VoiceDispatch.cfg MCVoiceDispatch      # any run of PROJECT.json
    tlapm VoiceDispatch_proofs.tla                     # any *_proofs module

## 1. The system

| Component | State | Operations | What is hard | What makes it correct |
|---|---|---|---|---|
| Voice call dispatch: `Services/VoiceCallService.cs`, `Workers/QueuedVoiceCallWorker.cs`, `Persistence/VoiceCallQueue.cs`, `Persistence/VoiceCallRepository.cs` | `voice_call_sessions`, `voice_call_queue` | enqueue, claim, start, requeue, settle; direct start; `/complete`, `/fail`, `/outcome`; status callback | processes share rows without transactions; crashes; lost replies; leases that expire under their holder; a 429 that comes late | at most one billed call for a session; bounded requests; final statuses stay; every queue row is settled |
| Media streams: `WebSockets/VoiceMediaWebSocketHandler.cs`, `Realtime/OpenAI/OpenAIRealtimeClient.cs` | slots of a semaphore, two sockets, two tasks per stream | take a slot, accept, connect, relay both ways, cancel, close, release | two tasks cancel each other; peers fall silent or drop; exceptions on any path | no slot lost or doubled; nothing runs on; every stream ends |
| Transcripts: `Persistence/VoiceTranscriptRepository.cs` | `voice_call_messages`, an advisory lock per session | append, list | appends at once, failures holding a lock | gapless numbers, an append-only list |
| Migrations: `Persistence/DatabaseMigrationService.cs` | the schema, its history, an advisory lock | start of an instance | several instances and releases, crashes, edited files | a script runs once; an instance that is up has its schema |
| Inventory: `NexusOps.Web/Services/InventoryStore.cs` | `inventory_stock`, `inventory_movements` | receipt, issue, transfer | stale checks, lost updates, opposite transfers | reservations hold; movements explain the stock, but for the rounding |
| Work orders, customer orders, team, bookings: `PostgresOperationsStore.cs`, `CustomerOrderStore.cs`, `TeamStore.cs`, `PostgresFinanceStore.cs` | `work_orders`, `work_order_events`, `customer_orders`, `employee_presence`, `employee_time_entries`, `financial_transactions`, the pool of connections | create, change status, receive an order, start and end work, book | several commits per operation, and one transaction that may break between its inserts; two operations keep one connection and wait for another; check constraints in another file | an order and its work order together; a history that tells the status; no connection lost and nobody waiting for ever |
| User access: `Program.cs`, `NexusOps.Web/Security/SupabaseAuth.cs` | `nexusops_user_roles`, cookies | sign in, validate, renew, slide, reject | a role cached in a cookie, overlapping requests, the framework's renewals | a lost role is not used for longer than promised |
| Users page: `NexusOps.Web/Pages/Users/Index.cshtml.cs`, `SupabaseAuth.cs` | accounts of Supabase Auth, `nexusops_user_roles`, `employees.auth_user_id` | create an account, change a role, disable | checked first, written later; one account in three places | access comes only from those who may give it; rows, accounts and links agree |
| Console page: `wwwroot/index.html` | the table of calls, simulated calls, the selection, the details | load, select, simulate, timers | answers in any order, timers between a click and its answer | nothing simulated is lost; the selection is the user's; the page stops loading |
| Twilio provider and webhooks | none | create a call, answer with TwiML | the answer may be lost after a call exists | see dispatch |
| Labor, notifications, reports, other pages | rows of their tables | single statements | little | - |
| Request validation, browser realtime sessions, diagnostics, startup | none or counters | stateless | - | - |

Interactions. The portal and the voice API write rows; workers poll them. A
worker calls `VoiceCallService.StartAsync`, which calls Twilio; Twilio calls
back (`/voice/provider/answer`, `/status`) and opens a media stream, whose relay
appends to the transcript. All components share one PostgreSQL database, and no
two of them share a transaction: what one component does to another is the sum
of its committed statements. This is why each module's atomic step is a
statement (or, for streams, an await), and why modules can be checked apart: the
dispatch only hands a session id to the media stream, the stream only hands
messages to the transcript, and the migrations run before anything else does.
The stores of the portal share more than tables: a pool of connections, so they
are one module. The users page changes what the cookie validation reads, so its
module extends that of the cookies and is shown to implement it.

## 2. Modules

| Module | Models | State and actions against the code |
|---|---|---|
| `CallStatus` | the statuses of a session | `MappedStatus` and `CanApplyProviderStatus` are the two switches of `VoiceCallService` |
| `CallPlacement` | abstract: what is promised to the one who pays | a session waits, is tried, is placed or given up |
| `VoiceDispatch` | dispatch | `row`, `queue`: the two tables; `proc`: each worker, request and callback with its program counter and local variables (`snap` is the session object in memory, `att` the attempt and lease id). One action per statement, so `StartAsync` is `ReadSession`, `MarkInitiating`, `CallCreated`/`CallRefused`, `MarkFailed`/`RecordCall`; the catch clauses of `ProcessAsync` are `AfterFailure`, `OnDatabaseError`, `OnInvalidOperation` |
| `MCVoiceDispatch`, `VoiceDispatch_proofs` | | symmetry of the workers; proofs |
| `TranscriptList` | abstract: the list in memory | `Append` |
| `TranscriptStore`, `_proofs` | `AppendAsync` of PostgreSQL | `Lock`, `Insert`, `Commit`, `Rollback` |
| `MediaBridge`, `_proofs` | streams | `stream[x].pc` is where the handler is; `fromTwilio`, `fromOpenAi` where its relays wait; `stop` the linked cancellation |
| `Migrations`, `MCMigrations`, `_proofs` | start of instances | `Lock`, `Check`, `Run`, `Record`, `Commit`, `Unlock` per file; `times` counts commits of a script |
| `StockLedger` | abstract: receipts, issues and transfers as single steps | `drift` is what movements say and the stock kept, a thousandth at a time |
| `Inventory`, `MCInventory`, `_proofs` | the two transactions | `Read`, `Update`, `Upsert`, `Record`, `Commit`, `Rollback`; `held` are the row locks; `change` and `moves` what a transaction has written and nobody else sees; `Rounded` is what `numeric(14,3)` stores; `drift` is a history variable |
| `Operations`, `_proofs` | work orders, customer orders, team, bookings, the pool | each action a statement on a connection that is free; `Receive`, `OpenWorkOrder`, `AuditOpening`, `InsertOrder`, `CommitOrder` the only transaction, `drafts` what it has inserted and nobody else sees; `Keeping` the requests that have a connection between two statements; `PoolTimeout` the exception of Npgsql |
| `UserAccess` | cookies and roles; abstract for the users page | `Send`, `Validate`, `Renew`, `Reject` are the parts of `OnValidatePrincipal`; `Slides`, `Slid` the cookie handler's `SlidingExpiration`; `Answer` brings a new cookie to the browser, `Abort` does not; `ChangeRole` any change of a role; `since` in a cookie is a history variable |
| `UserAdministration`, `_proofs`, `MCUserAdministration` | the users page on top of `UserAccess`; the proofs are about both | `page[q]` is what the handler of request `q` does next: `PostUpdate` (the checks) then `Update`; `SignUp` (the account at Supabase), `Insert` (the role), `Link` (the employee); `Leave` ends a handler anywhere; `overtaken` is a history variable |
| `VoiceConsole`, `_proofs` | the script of the console | each action a callback up to its next `await`; `fetch[f]` is what a request in flight waits for, so answers come in any order; `crossed` is a history variable |

Rounding. A user may enter any decimal from 0.001 (`InventoryModels.cs:31,53`; the
step of 0.001 is the browser form's alone), and `numeric(14,3)` keeps thousandths. The
statements round at different places: a movement and a new row store the rounded
quantity, an update stores the rounded sum or difference. Requests are therefore in
quarters of a thousandth, which is all that rounding tells apart (below, at or above a
half). An issue of 0.0015 takes 0.001 from the stock and is recorded as 0.002.

Cookies. A cookie younger than five minutes (`Fresh`) is accepted as it is. The cookie
handler decides about its sliding renewal (`Program.cs:79`) before
`OnValidatePrincipal` runs, so a cookie past half of its time is renewed without the
database. A validation sets `IssuedUtc` only (`Program.cs:103`), so a validated cookie
still ends eight hours (`Lifetime`) after the sign-in, and its half comes sooner.

Abstractions. A session, worker, file or role is a model value or a string of a
small set. Texts, timestamps and amounts of money are left out. Ids of calls
and leases are counters. Every counter is in `Nat`; what grows for ever is
bounded by a constant of the module (`MaxFaults`, `MaxRequests`, `MaxSpoken`,
`MaxTime`), and the proofs hold for every bound. "Faulty variants" next to a
definition are mutations of the code that a run detects; no specification uses
them.

## 3. Runs

Passing runs.

| Run | Instance | Shows |
|---|---|---|
| `dispatch` | 1 session, 2 workers, a starter, an editor, a callback; 2 attempts, 1 fault | `AtMostOneCallPlaced`, `RequestsBounded`, `RefinesPlacement`, `FinalStaysFinal`, `CallKept`, `LeaseExclusive`, and the inductive invariant |
| `liveness` | 2 sessions, 2 workers, 1 fault | `QueuedIsServed`, `CompletedUnlessLate` and `EventuallyHandled` if the fault does not happen, `EventuallySettled` even if it does |
| `transcripts` | 2 sessions, 3 relays, 2 messages each | `Numbered`, `RefinesList`, `EventuallyStored` |
| `media` | 2 streams, 1 slot, peers that answer a close or drop the connection at last | `SlotsConserved`, `NothingLeftRunning`, `StopEndsRelays`, `EventuallyReleased`, no deadlock |
| `migrations` | 3 instances, 3 releases, 3 files, 1 fault | `HistoryIsSchema`, `UpIsMigrated`, `EventuallyStarted` |
| `inventory` | 3 warehouses, 1 item, 3 requests for 0.0015, 1 fault | `ReservedCovered`, `LedgerBalances`, `RefinesLedger`, `EventuallyAnswered` |
| `operations` | 2 orders, 2 workers, 2 clients, 2 connections, 4 requests, 1 fault | `OrderIsOpened`, `PoolConserved`, `HistoryIsTrue`, `EventuallyAnswered`, and the inductive invariant |
| `user_access` | 2 accounts, 1 browser, 2 overlapping requests, 3 roles, 1 unit of time | `AccessIsConsistent`, `AccessIsGranted`, `ImplementsUserAccess` |
| `console` | 2 simulated calls, 2 stored calls, 2 fetches in flight, 2 versions of the list | `TableIsWhole`, `DetailIsSelected`, `SelectionIsTheUsers`, `PageSettles`, `SimulationsEnd` |

Why the bounds are enough. Sessions do not interact (a worker has one at a
time), so one session with all kinds of process finds every race on a row; two
sessions are there where being served matters. Two workers, or a worker and a
starter, suffice for a race; two attempts give a retry and a last one. One fault
reaches every handler once. The callback process is reused, so callbacks come in
any order; two callbacks at the same instant are not in the instance, but each
races with the starts and the editor through the same conditional update. Two streams on
one slot let one be refused while the other runs, and be served after it. Three
instances cover a holder, a waiter and one that restarts, with a release that adds a file and one that edits one.
In the inventory stock and quantities are such that each of several issues is
allowed and all of them are not; every request of the run is for half a thousandth
more than 0.001, the one remainder for which stock and movement differ. On
two more instances, whose liveness takes too long for a run, TLC has agreed with
`IInv` and `RefinesLedger`: quantities of 0.0015 and 0.002 together with three requests
(423,086 states), and all four remainders with two (61,606 states). Opposite
transfers need two filled rows, a first transfer an empty one. Two clients and two connections are the smallest instance
in which everybody has a connection and waits for another; four requests let a
work order be created, changed by two at once and looked at again. In
`user_access` a freshness of one and a lifetime of two are the smallest for which a
cookie is accepted, validated and renewed; the run is about the accounts and the page,
and too short for what happens to cookies in the course of time. That is
`StaleRolesExpire`, which is proved (`RolesExpire`, `PageRolesExpire`) and was checked by
TLC on `UserAccess` alone: a user, a browser, 2 overlapping requests, 2 roles, `Fresh` 2,
`Lifetime` 4, `Latency` 1 and `MaxTime` 6 (2.98 million states); without the exemption of
the last minutes it is violated there. In the run two accounts, whose browsers share a
session, can create, promote, demote and disable each other, and three roles have
a user below, at and above the rank of a manager. Longer times, more browsers and
more accounts are covered by the theorems: for the properties that are
proved the bounds do not matter. In `console` two fetches are the fewest that can
be answered in the wrong order.

Deadlock is checked where the system never stops (`media`, `silent_peer`
and `console` have it on); elsewhere the bounds let it stop (in `user_access` also
administrators who have disabled each other), and the runs turn the check off.

### Disagreements found

Each of these runs ends in a counterexample to what the repository says.

| Run | Property | What happens |
|---|---|---|
| `outcome_race` | `AtMostOneCallPlaced` | `/outcome` writes back a row it read while the session was queued; the session is called a second time |
| `late_answer` | `CompletedMeansStarted` | the lease runs out during the request and another worker completes the row; an uncertain error is then filed as completed instead of dead_letter, and a 429 queues a session that nobody retries |
| `silent_peer` | `EventuallyReleased` | closing waits for the other side without a token, beyond the session's time limit, and keeps the slot |

A fourth is proved, not run. `SECURITY.md:29` says that active cookie sessions
revalidate the role every five minutes. A cookie that is issued with less than ten
minutes of its eight hours left is renewed by any request between half of this time
and five minutes later, for the same time again and without the database: a disabled
user whose browser goes on like this is never validated and keeps his access. Theorem
`ShortCookiesSlide` is such a round; `StaleRolesExpire` exempts requests after that
point, and `RolesExpire` proves that there are no others.

The models show more behaviours that a user would not expect. They have no run,
since the repository says nothing precise of them, and the properties are stated
so that they are permitted and nothing worse is:

- An operator's `/fail` during a start is undone when that start is throttled
  (`TryRequeue` takes the failure for its own).
- The last event of a work order need not name its status: each is a commit of its
  own, and two updates may insert their events in the other order. `HistoryIsTrue`
  says that the status is somewhere in the history.
- 'self_service' is not an allowed source of a time entry
  (`004_corporate_operations.sql:115`), so after the end of work nobody can start
  again (the seed opens an entry for everybody, so the first start works), and
  'inprogress' is not the 'in_progress' of `001_operations_schema.sql:38`, so that
  status cannot be set. Both end in an exception (`Rejected`).
- A movement of half a thousandth more than the column stores takes a thousandth less
  from the stock than it is recorded with (`drift`), and a transfer of it makes one.
- A booking that is committed is answered with an error when no connection is left
  for the look-up of its account, and its user may book again.
- An account whose creation ends between Supabase and the database exists without
  a role and cannot be created again (`Leave` after `SignUp`).
- A manager whose update was checked before somebody was promoted to manager or
  administrator overwrites that role (`overtaken`), and two administrators can
  demote or disable each other at the same time, which leaves none.
- The console shows the transcript that arrives last, which may be that of a call no
  longer selected (`crossed`), and an older list of calls may replace a newer one.

`outcome_race` uses `SpecWithOutcome`; the other runs are about `Spec`, in which
editors only complete or fail a session. Theorem `CarefulOutcomes` gives a condition
under which it does not arise: with every kind of `/outcome` there is still one call, the
bound on requests, `QueuedIsServed` and the refinement, as long as no editor writes
"queued" over a session that has left "queued" (`CarefulSpec`, whose `KeepsStarts`
the counterexample of `outcome_race` breaks). `CallKept` and `LeaseExclusive` need
not even that. `FinalStaysFinal` and `CompletedUnlessLate` are for `Spec` only,
since an `/outcome` may write any status it has read. An editor's write of the whole row also takes away a call id recorded after
its read; `CallKept` says that nothing else does. Of `late_answer`, theorem
`CompletedWereStarted` says that it does not happen without a fault or a direct start
beside the queue. Both conditions are sufficient; that they are necessary is not claimed.

## 4. Fairness

- Dispatch: a worker that is not at `idle` forever keeps polling (`BackgroundService`
  loop, which catches every exception), a started request runs on, the provider
  answers or its request times out (`HttpClient` default of 100 s), retry delays
  pass, and the lease of a worker that no longer works on a row runs out. No
  fairness for clients, callbacks, or faults.
- Transcripts, migrations and inventory: strong fairness of taking a lock, since
  PostgreSQL queues its waiters; weak fairness of a statement; the deadlock
  detector of PostgreSQL runs (`deadlock_timeout`).
- Streams: the handler runs, a cancelled await ends, the timer of
  `CancelAfter` fires. That a peer answers a close, or its connection breaks, is
  assumed in `PeersSpec` (run `media`) only, and
  `silent_peer` shows that it is needed.

- Operations: a request that has begun goes on, since the database answers or the
  connection breaks, and a wait for a connection ends after the `Timeout` of the
  connection string. Without that timeout (`WaitForever`) requests that have one
  connection and wait for another do wait for ever. No fairness for clients.
- Console: a timer that is set fires, and `fetch` settles with an answer or an error.
  No fairness for the user, and none for the changes at the server.

`UserAccess` and `UserAdministration` have safety properties only.

## 5. Proofs

The assumptions are the named `ASSUME`s of the modules: processes of different
kinds differ, bounds are natural numbers, sets of streams are finite, opening
stock covers reservations, and the like.

In the modules with proofs the type invariant is a conjunct of the inductive
invariant and proved with it; the runs check what follows from it, and `dispatch` and
`operations` also `IInv` itself.

**VoiceDispatch.** `AtMostOneCallPlaced` is not inductive. A session carries one
token: it is queued, or some process is between its successful `MarkInitiating`
and the end of its request (`Asking`), or it has its call; `OneToken` says
these exclude each other and that no two processes ask. It needs
`NobodyWritesQueued` (a start holds the session it read queued and writes "initiating";
callbacks never say "queued"; only `TryRequeue` does) and, for editors, either
`EditorsFinish` (they write final statuses, `Spec`) or `KeepsStarts` (what they write as
"queued" was queued, `CarefulSpec`). `SpecIsCareful` shows that the first is a case of the
second, so all but `FinalStaysFinal` and `CompletedUnlessLate` is proved once, for the larger
specification. `RequestsBounded` is a payment argument: each 429 that requeues
leaves its attempt number in `retried`; numbers differ because claims are numbered
under the row (`AttemptsDistinct`), lie below `MaxAttempts`, and every request
but one is paid for by one of them (`RequestsPaid`). Starters are not numbered,
which is why the bound is not obvious from the code. `SnapshotsFit`
says what a process may still hold when it writes: a start a session without a call,
a callback a status that may move on. With it every step changes a row in one of the
seven ways of `RowStep`, whence `FinalStaysFinal` and `CallKept`; `LeaseExclusive`
follows from the distinct numbers. `QueuedIsServed` has an argument of its own, for
states before the first fault: a worker that works on a session holds its lease, which
cannot run out (`LeasesHeld`), and a worker whose start has its answer does not stand
before a queued session (`DecidedIsNotQueued`, which leans on `OneToken`: a session that
was asked for is queued again by that worker alone, in `TryRequeue`, and the worker then
gives its row back instead of settling it). `OutcomeInv` is the conjunction of these,
`IInv` adds `EditorsFinish`. On top of `IInv`, `CompletedUnlessLate` says that `late_answer`
needs its fault, unless requests start sessions behind the queue's back: who fails a
session holds its lease, so nobody else completes the row (`CompletesStarted`), and
no stale copy brings a failure back (`FailuresFit`). The
refinement maps a session to `Phase` and its requests to `tries`; each action is
a step of `CallPlacement` or stutters.

**TranscriptStore.** Whoever is between lock and commit holds the lock and its
number is still the next one (`NumberingLocked`), hence `Numbered`; commits
are `Append` of `TranscriptList`.

**MediaBridge.** `SlotsConserved` counts the busy streams; that a handler passes
its `finally` once is the shape of `pc`. `NothingLeftRunning` rests on `Join`
waiting for both relays.

**Migrations.** `Locked`: who works on files holds the lock. `AppliedSoFar`: the
files before the current one are in the history with the same checksum, and the
current one is not while it is applied. Together: a script commits once.

**Inventory.** `RowsLocked` keeps the checked quantity from changing, so
`StillAllowed`; `Drafted` says what a transaction has written at each statement.
`RoundedChange` is the arithmetic: how much a rounded update changes the stock does not
depend on the stock, is the rounded quantity or, after a subtraction of a half, one
less, and never takes a stock below a reservation that the exact difference respects.
A commit is then exactly one step of `StockLedger`, for any quantities from 0.001.

**UserAccess** (in `UserAdministration_proofs`). Until `Fresh` before the end of the
lifetime that began with the sign-in, a cookie expires with that lifetime and was issued
within `Latency` of a query that gave its role (`CookiesKnown`): a cookie that is accepted
without the database has then more than half of its time before it and does not slide.
Later it may slide, and `ShortCookiesSlide` shows that it really may, so that the
exemption in `StaleRolesExpire` cannot be dropped.

**UserAdministration.** `PageImplementsAccess`: each write of the page is a
`ChangeRole` of `UserAccess` or leaves it alone, so that what is proved of the cookies
holds with the page at work; `PageRolesExpire` says so of `StaleRolesExpire`.
`AccessIsConsistent` is inductive together with the invariant of the cookies: an account
is new to one handler at a time since Supabase refuses known e-mails (`TargetsAgree`),
and what was checked stays true until the write because `Update` marks the handlers it overtakes (`AuthorityIsHeld`). Nobody
changes his own row: an update checks it, and an insert is for a user without a row
while whoever is served has one (`RowsAgree`). Hence `GrantsHaveAuthority`. The
assumption is that roles are names of `NexusOpsRole`; `Demo` is one that a row and a
cookie may have and the page does not give.

**Operations.** Every step moves one request on; `CountStep`, `RequestStep`,
`AnswerStep` and `GotoStep` say what that does to the pool, whence `PoolConserved`.
`OrderIsOpened` needs that an order which a transaction is opening exists for nobody
else (`OpensAlone`) and that a commit publishes all three inserts (`Drafted`): then
nobody can have updated the work order before, and its history begins with its event.
`HistoryIsTrue` is about orders nobody writes, so it is not inductive; `IsWritten` adds the events that are on their way, and `Prepared` that
they will say what was written. The assumptions are a finite set of requests and a
pool of a natural number of connections.

**VoiceConsole.** `TableIsWhole` is inductive with the types: a load replaces the stored
calls and keeps the simulated ones, and each callback that changes the table counts it.
`DetailIsSelected` is not, since a transcript that arrives says nothing of who asked for
it: `FetchesAreSelected` adds that every transcript on its way is that of the selected
call, unless one was selected in the middle of a fetch (`crossed`). The assumption is that
simulated and stored calls differ, "none" is neither, and versions of the list are
counted from a natural number.

Only model-checked: the liveness properties (fairness is outside of what the prover
handles). Every invariant, every action property and every refinement of a passing run
is a theorem.

## 6. What is not modelled

The stores in memory (development only, except the transcript list, which is the
abstract specification), request validation, browser realtime sessions and their test
page, diagnostics, rate limiters, labor, notifications, assets, the accounts of
finance and the pages' rendering: stateless code, single statements on independent
rows, or data no property tells apart. Row-level security belongs to the database.
`wwwroot/js/site.js` holds only comments; the scripts that run in the browser are in
the HTML pages, of which `index.html` is modelled. Sign-in is open to everybody with
an active role; the password, the e-mails and Supabase's tokens are data. Hazards that
no property covers are listed with the reason in `PROJECT.json`.

## 7. Plan

The order was: dispatch first (money and concurrency), then the resources it
feeds (transcripts, streams), then what every instance does at startup, then
the portal, its users page and the console. Still to come, most important first:

1. `VoiceCallRepository` in memory: `UpsertAsync` against the locked
   compare-and-write, refining the conditional update of `VoiceDispatch`.
2. Dispatch and media stream together: a stream is accepted only for a session
   that exists, and its transcript ends with it.
3. The store of the inventory in memory.
