# EcoTrack: a verification project

TLA+ specifications of the EcoTrack waste-management platform (a FastAPI
backend over PostgreSQL and a Next.js client), the TLC configurations that
check them, and proofs checked by TLAPS. Paths are relative to the root of the
repository.

## 1. The system

| Component | State | Operations | Where it is hard |
|---|---|---|---|
| Pickup lifecycle: `services/pickup_service.py`, `api/v1/pickups.py` | `pickup_requests`, `collections`, `waste_records`, points, notifications, audit | create, assign, update status, complete, fail | handlers race on rows nobody locks; one completion writes six tables |
| Recurring scheduler: `services/scheduler_service.py`, `api/v1/recurring_schedules.py`, `scripts/run_scheduler.py` | `recurring_schedules`, the pickups made from them | create, deactivate, a run over the due schedules | overlapping runs, crashes, an error handler that itself writes, calendar arithmetic |
| Collector's offline queue: `frontend/src/lib/offlineQueue.ts`, `hooks/useOfflineQueue.ts`, `public/service-worker.js` | IndexedDB store, `pending`, `syncing` | queue or send, flush, mark as conflict | lost replies, concurrent flushes, timeouts that look like answers |
| API client and session: `frontend/src/lib/api.ts`, `context/AuthContext.tsx` | tokens in localStorage and in React state | start, request, refresh, login, logout | concurrent refreshes with a token that is good once, replies that come after a logout or a timeout |
| Authentication: `services/auth_service.py`, `api/v1/auth.py` | `users`, `refresh_tokens`, `password_reset_tokens` | register, login, refresh, logout, reset | check-then-write on tokens, two commits for one rotation |
| Rewards: `api/v1/rewards.py` | `points_ledger_entries`, `rewards`, `reward_redemptions` | rules, catalog, redeem | balance and stock are read, then written |
| Complaints: `api/v1/complaints.py` | `complaints` | report, update status | the same unlocked transition as pickups |
| Row-level security: `core/database.py`, `core/rls.py`, `security/dependencies.py` | the `app.*` settings of each pooled connection, the policies | set the context, commit, roll back, return to the pool | settings outlive transactions, a rollback undoes them, each command of each table has its own policy |
| Operational reads and reports: `services/operational_service.py`, `api/v1/operations.py`, `analytics.py`, `reports.py` | none | overdue list, priority, KPIs, trends, figures, optimized route | limits applied before filters, one response made of several queries |
| Algorithms: `intelligence/*.py` | none | nearest-neighbour route, score, hotspots, estimates | ties and empty input |
| Bins, vehicles, collectors, preferences: `api/v1/bins.py`, `vehicles.py`, `collectors.py`, `notifications.py` | a row each | read, change, write back | two requests on one row, two first inserts |
| Form that requests a pickup: `app/(app)/pickups/new/page.tsx`, `components/LocationPicker.tsx` | step, fields, a search for the device, what was sent | enter, go on, go back, locate, submit | a search outlives the field it fills, and the browser submits forms by itself |
| Pages: eight under `app/(app)/` | what each shows, its spinners and its message | load, act, load again | loads overlap and end in any order |
| Rate limiter: `core/rate_limit.py` | a Redis counter per client and minute | count and expire | fails open |
| Organizations, companies, zones, recycling, administration | a row each | single inserts and updates | validation, optional references |
| Storage, PDF and CSV layout, configuration, seeds, infrastructure | none of the kind modelled here | rendering, file I/O | |

**How they interact.** A request is served by a thread of a pool with a database
session of its own (`core/database.py`); the transactions are READ COMMITTED,
no handler takes a row lock and no row has a version column. The scheduler
inserts pickups straight into the table the pickup service works on, and runs
in a process of its own (cron) as well as inside the server (the administrator's
endpoint). The pickup service credits points under a rule of the rewards
component and inserts notifications and audit entries in the same transaction.
The client's queue replays the three writes of the collector against the pickup
service, through `api.ts`, which refreshes tokens on a 401. `main.py` turns an
`IntegrityError` into a 409 and everything of that transaction is rolled back.

**What makes each part correct.** *Pickups*: the stages follow the table of
transitions; an outcome is recorded once; points, waste record, notification
and proof go together; company follows collector; the audit log explains the row.
*Scheduler*: one pickup per occurrence of the series, none lost silently, none
early, every due schedule served. *Queue*: nothing a collector did is lost or
applied twice, conflicts surface, the queue drains. *Tokens*: a refresh token
is good once, a reset ends every session. *Redemption*: no balance below zero,
stock matches redemptions. *Complaints*: the reporter is told of every stage,
and a resolution is dated. *Rows*: a column is what the last successful request
meant it to be. *Row-level security*: statements run under their own user's
context, and the policies let through what the handlers do. *Reads*: what is
listed is the most urgent, what one response counts fits together, and screens
agree with each other. *Form*: what is sent is what was entered, once.
*Pages*: a page at rest shows what its user did, or says that it does not know.

The hazards, each at the line where it bites, are in `PROJECT.json`.

## 2. The modules

| Module | Models |
|---|---|
| `PickupStatuses` | the statuses and `PICKUP_TRANSITIONS` |
| `PickupFlow` | the promise: one atomic step at a time, an outcome at most once, points only with a success |
| `PickupLifecycle` | the pickup service over its rows, a request being a reading step and a committing step |
| `MCPickup` | values for TLC: two companies with a collector each, two citizens, three administrators' roles |
| `PickupLifecycle_proofs` | theorems about `PickupLifecycle` |
| `RecurrenceDates` | calendar dates and `_next_run_date` |
| `RecurringScheduler` | the scheduler's runs and the endpoints of recurring schedules |
| `MCScheduler` | values for TLC: the end of January 2023 |
| `RecurringScheduler_proofs` | theorems about the two modules above |
| `OfflineQueue` | the store, the hook and the page of the collector's offline queue; the server's answers are left open |
| `MCOfflineQueue` | the symmetry of its runs |
| `OfflineQueue_proofs` | theorems about `OfflineQueue` |
| `Sessions` | accounts, refresh tokens and password resets on the server |
| `ClientSession` | one browser tab against that server; extends `Sessions` |
| `MCSessions` | either the server alone with every request, or a tab whose calls are the only requests |
| `Sessions_proofs` | theorems about the two modules above |
| `RewardLedger` | the rule, the catalog, points earned and redeemed |
| `Complaints` | complaints, what their reporters are told, read marks |
| `StaleRows` | the rows a handler reads, changes in memory and writes back: bin, preferences, vehicle, collector |
| `OperationalViews` | the lists, figures and reports made of the pickups, and a collector's route |
| `RowSecurity` | connections, their settings, and the policies against what the handlers write |
| `PickupWizard` | the form that requests a pickup, with its location picker |
| `Pages` | how eight pages load, change and load again what they show |
| `UnlockedRows_proofs` | theorems about `RewardLedger`, `Complaints` and `StaleRows` |
| `OperationalViews_proofs`, `RowSecurity_proofs` | theorems about the two modules named |
| `WebPages_proofs` | theorems about `PickupWizard` and `Pages` |
| `MCComponents` | values for the seven modules `RewardLedger` to `Pages`, one component per behaviour |

Who uses whom: `PickupLifecycle` implements `PickupFlow` (an `INSTANCE` with a
refinement mapping); `ClientSession` extends `Sessions` and implements it (a
theorem); the others share no state here. `MCComponents` extends them all, so
that what it checks and what the theorems say are about one definition.

Operators whose comment starts with "Broken variant" are not part of the
model: each is a bug that could plausibly be made in the operator below it, and
shows that a property would notice.

### PickupLifecycle

Each column of `pickup_requests` that the service writes is a function on
pickups. `collection` holds the `collections` rows of a pickup, `wasteRecord`,
`ledger` and `notification` count the rows inserted on its behalf, and `audit`
is the set of what the log says of it. `request` is what each thread holds
between its reads and its commit.

`Begin...` is the first half of a handler: it reads the rows and evaluates every
guard. `Commit...` is its transaction. The UPDATE names the row by id, so a
commit overwrites whatever was committed since the read; that is the modelled
race, not an assumption. `complete_collection` has a step in between, the lookup
of the reward rule, which READ COMMITTED lets see later data than the guards.
`Unsettled` is the unique column `collections.pickup_request_id`, the only
thing two commits can collide on; the loser takes `Rollback` (409), which also
stands for a thread or a server lost before its commit. Because a request
leaves nothing in memory, a crash of the server is a `Rollback` of every
thread. Refused requests (403, 404, 422) change nothing and are not steps.

Choices a reader may question: roles and the company of a collector are
constants; the database's row-level policies are left to `RowSecurity`, since the
shipped configuration connects as a superuser, whom they do not bind; an organization
administrator cannot cancel, because `update_pickup_status` answers 403 to every
role it does not name; photos, weights and addresses are left out.

### RecurringScheduler

`StartRun` is the query together with the first row it returned; `LoadNext`
re-reads a later row, since a commit or rollback expires the session's
instances, and, like the code, does not ask again whether the row is due or
active. `CommitPickup` is the transaction with the pickup, its notification and
audit entry, and the next date. The error paths are separate because they end
differently:

* `RefuseInsert`: the database refuses an INSERT or the flush. SQLAlchemy then
  rolls the transaction back, expires every instance and refuses work until
  `rollback()`. The handler's first expression is `str(schedule.id)`, which
  needs the database, so it raises outside any `try` and the run ends.
* `CommitFails`: the COMMIT fails, or takes effect and its answer is lost. The
  instances are not expired, the handler logs, rolls back, reads the row again
  (`Reload`) and writes the date after it (`AdvanceAfterError`), which may fail
  too (`AdvanceFails`).
* `Crash`: the process is killed, or the database is away for a read.

Dates are real dates: `Dates`, `AddDays` and `AddMonth` follow the Gregorian
calendar. CUSTOM takes the last branch of `_next_run_date`, as in the code.
`firstRun` is a history variable, the date the request named.

### OfflineQueue

A step is a task of the event loop: the code between two `await`s. `queue` is
the IndexedDB store in the order of `queuedAt`, `lastError` the records that
have one, and `flush` the calls of `flush()` in progress, each with the
actions it has still to replay. `fate` is what the page knows of an action.

React is modelled as far as it decides when a flush starts. `pending`,
`syncing` and `loading` are what the component has set, `seen` what it last
rendered; `Render` runs the effects whose dependencies changed, and the
listener for `online` sees the `syncing` of the last render, so two flushes
can overlap. They also overlap after `Remount` (another page of the app and
back): the old flush goes on, but its component is gone (`orphans`). `End` sets
`pending` and `syncing` together because React renders updates made in one
chain of microtasks as one. `Reload` loses everything but the store.

A call is answered "ok" or "refused" (4xx), or fails: `SendFails` stops the
flush whatever the failure; a direct call of `queueOrSend` that fails with an
`ApiError` (timeout, 5xx, or the 503 the service worker makes of a network
error) is shown and not queued (`CallFails`), and one that fails with any other
error is queued (`CallDropped`). The server may handle a call that was given up
(`late`). Not modelled: failures of IndexedDB itself, the end of the session,
and two actions with the same millisecond in `queuedAt`.

### Sessions and ClientSession

`token` is `refresh_tokens` in the order of insertion; the row says whose it is,
which one it replaced (`parent`, a history value: the code does not keep it), and
whether it is revoked. Access tokens are signed and not stored, so the one issued
with refresh token t is called t too. `refresh_access_token` is four steps,
because the code commits twice: `BeginRefresh` checks, `RevokeOld` commits,
`IssueTokens` commits a new row without asking anything again, `Answer` replies;
`Lose` can come between any two. `confirm_password_reset` is a check and a
transaction whose UPDATE of the tokens sees only the rows committed so far;
`late` marks the requests that were past their checks at that moment. Lifetimes
are equal, so tokens expire in the order of insertion (`expired`).

`ClientSession` adds localStorage (`stored`), the token and user of `AuthContext`
(`react`, `shown`), and calls, each in a server thread of its name that goes on when the page
gives up. `Failed` is the handler of the first check, which alone empties
localStorage. `RefreshRefused` empties it too, whatever it holds by then: it is any
answer to a refresh that is not good, a refusal as much as the rate limiter's 429, a 5xx or
the 503 that the service worker makes of a network error, so that the token refused may
still be good or may have been exchanged. Only if `fetch` itself fails do the
tokens stay (`Lost`). A call keeps
the token it was made with, and a refreshed one goes to localStorage only.
Roles are ignored: they decide who may do what, not which token is good.

### RewardLedger, Complaints, StaleRows

`RewardLedger`: `redeem_reward` is `ReadReward`, `CheckBalance` and
`CommitRedemption`, since READ COMMITTED lets each query see later data; the
stock written is the stock read, less one. `Complaints`: `ReadComplaint` checks
the transition, `CommitStatus` writes row, notification and audit entry.
`StaleRows` has one action for the reading half of nine handlers and one for their commits: the
interesting part they share is SQLAlchemy's UPDATE, which sets the columns whose
value differs from the value read (`Differing`). `meant`, `writer` and `torn`
are history: what the last success was to make of a column, and whether it had
read before the success it follows. Scripts that seed data are not requests and
are left out (`scripts/seed.py:307` makes a bin FULL from 90, the handler from 95).

### OperationalViews

`pickup` is the table in the order of `created_at`; pickups follow the table of
transitions, since `PickupLifecycle` shows when races leave it. `OverdueList`,
`PriorityQueue`, `Route` and the figures are operators that follow the queries:
filters, order, limits and what a Python `sort` or `min` makes of ties. A query is
a set of rows and an order on them (`Before` is who comes first, `FirstOf` the limit,
`InOrder` the list); one that names no order may return its rows in any (`RowOrders`). A report
is a sequence of queries (`Kpis`, `Dashboard`, `Environment`), each a step, while
pickups change. Weights, percentages and averages are left out (the average of
`get_collection_kpis` does not ask for the company), as are the date filters of the
KPIs. No code sets the zone of a pickup, so `ZonePerformance` counts none.

### RowSecurity

A request takes a connection, `_set_rls_session_context` sets who he is, looks
his profile up under that, and sets the rest; the handler commits or rolls back;
the connection goes back and is `RESET ALL`. `context` is what statements run
under, `committed` what a rollback goes back to. `Using` and `Check` are the
policies of `core/rls.py`, `Permitted` the rows the handlers write once their own
checks have passed. The model connects as `ecotrack_app`, the role the policies
are for. Roles are constants: `change_role` is not modelled.

### PickupWizard and Pages

`PickupWizard`: a location is its coordinates as none, one, out of range or good,
and whether an address is there. The picker exists in step 2 only, but a search
that it began outlives it and answers with the location it was drawn with
(`search`). `ContinueSubmits` and `PressEnter` are the browser's: the form has no
submit button before step 4, so Enter submits it where it has one field at most,
and React reuses the Continue button as the Submit button under the click.

`Pages`: each page is a record that says what it loads at once, what its actions
load again, and what becomes of a group whose request fails. A load is one Promise
and fills one group or several (`Promise.all`): a request caught by itself leaves its
group empty or null, or as it was, in silence, while one that is not rejects the whole load, whose
groups stay and have a message (`Rejected`, `Brought`, `Emptied`). So a load of an organization may
succeed and empty its locations. The server's data is
the number of changes made to it, what a page shows is the set of those it knows.
`outrun`, `newest`, `failed` and `hidden` are history: they say why a page may
show less than its user did. Images, downloads, maps and layout are left out, and so are the
dashboard's environmental figures, which load as its notifications do.

## 3. What TLC checks

| Run | Instance | Shows |
|---|---|---|
| `pickup_concurrent` | one pickup, two threads, any requests | the seven invariants that hold whatever races: types, points and waste record exactly with a successful proof, company and collector together, proof by an audited assignee, no stage skipped, a log that explains the row |
| `pickup_serial` | two pickups, one thread, all roles | served one at a time, requests implement `PickupFlow` (refinement), proof and status and collector agree, `cancelled_at` is set exactly for cancelled pickups |
| `pickup_stale` | one pickup, two threads | **violated**: a COLLECTED pickup is overwritten by a request that read ARRIVED |
| `scheduler_overlap` | two schedules of three, one of which the database refuses, two runs, crash and failed commits, one logged error per schedule | a stale write may repeat a date, but the series never shifts and every occurrence passed without a pickup has its logged error |
| `scheduler_serial` | two schedules, one run, all frequencies and faults, three days | dates exist in the calendar, one pickup per occurrence in order, none before its day, and every due schedule is served |
| `scheduler_duplicate` | one schedule, two runs, no fault | **violated**: one occurrence gets two pickups |
| `scheduler_blocked` | two schedules, one refused by the database | **violated**: the refused schedule keeps the other one from ever being served |
| `queue_overlap` | two actions, two flushes, remounts, reloads, late calls | types, an action that is done took effect, an action is stored exactly from queueing to confirmation, replays keep the order |
| `queue_live` | two actions, one flush, reloads | every stored action is answered when connectivity keeps returning |
| `sessions` | two accounts, two threads, three refresh tokens and a fourth for a tab with a pair stored too late, one reset token | an exchanged token is dead; a session of an earlier password lives only through a request under way during the reset; passwords set are accounted for by reset tokens used; the tab's pair belongs to the session it shows |
| `components` | one component per behaviour | below |
| `rls_transparent` | an account of each role | **violated**: under the restricted role the owner of a notification cannot mark it as read |

What `components` shows, by subject:

| Subject | Instance | Shows |
|---|---|---|
| rewards | two users, one reward, two threads, four entries | no debt and an exact stock without overlap; with it, a debt of one redemption per further thread, and a stock never below zero |
| complaints | one complaint, two threads | every stage told before the next, log and notices agree, a resolution dated |
| rows | one row of each of the four tables, two threads, four commits | every column is what the last success meant, unless that one had read before another |
| counting | two pickups, one recycling record, one report | no pickup is counted as open and as closed in one response, totals are covered by their breakdown |
| listing | four pickups, a limit of one, the rows in the table's order and its reverse | the overdue list holds the most urgent ones, up to three limits of open pickups, and agrees with the queue |
| screens | two pickups, three days | collectors, trend, report and company dashboard agree |
| routing | four pickups, three stops, four places, both orders of the rows | a route visits each stop once and goes to a nearest one each time |
| security | eight accounts, two requests, two connections | statements run under their own context or none; policies grant what the handlers do |
| filling, sending | two requests, one search, one failure | coordinates past step 2, the address as typed, one pickup unless a failure was shown or Enter pressed twice |
| pages | eight pages, two loads, one action, two changes | a part of a page at rest shows what its user did, or its message, or is empty because its request failed; no spinner stays |

**Bounds, and why they are enough.** A race on a pickup is about the order of
two commits on one row: two threads and one pickup show every such order, and
any longer race is a sequence of them because a commit depends on nothing but
its own thread's read. Two collectors of different companies are needed for the
company to be wrong, and the serial run has two pickups so that one pickup's
step could disturb the other. For the scheduler two schedules are needed for a
schedule to be second in a run and thus re-read; three days (31 January, 7 and
28 February 2023) contain a clamped month end, a week across a month and several occurrences behind; the
overlapping runs happen on 9 February, two occurrences behind. `MaxErrors` bounds the errors of a
schedule (`CommitFails` stops there); `MaxOccurrences` is how far the series is
enumerated, more occurrences than any run of the instance reaches.
In the queue two actions are what order needs and two flushes what overlap
needs; `Flushes` bounds the flushes in progress, and the liveness run allows
one, with no late calls, because temporal checking of the larger instance
takes too long. For tokens, three let one token be exchanged twice, or an exchanged one be exchanged again;
the fourth of `MaxTokens` = 4 is for the tab: a pair stored too late, and the pair that a call
gets for it. One reset token confirmed twice is the race on resets.
`MaxEntries` = 4 lets a user earn twice and redeem twice; `MaxCommits` = 4 is the insertion and
three updates, the least for damage that a later request repairs. `MaxPickups` = 4 is one more
than three times the limit, so that the list is cut; `MaxStops` = 3 cuts a route
of four. `MaxChanges`, `MaxLoads`, `MaxSearches` and `MaxFailures` bound what is counted in the
pages and the form: two loads are what order needs, and a second search waits for the first.
The components of `components` share no state, so a product of them would show
nothing more; `subject` also divides the data of `OperationalViews` and
`PickupWizard` so that each question has the part it needs.

Pickups, schedules, days, actions, tokens and other bounded things end, so the
runs say `CHECK_DEADLOCK FALSE`. Symmetry is used in safety runs only: over
threads, over runs and schedules, over flushes and actions, over users and calls,
and over the requests of the form; no property names one of them.

**Fairness.** `FairSpec` of `RecurringScheduler` assumes that runs are started
again and again while something is due (the cron entry in
`scripts/run_scheduler.py`), that a run that nothing kills goes on to its
end (it is a `for` loop), and that runs are not killed for ever. It does not
assume that days pass, that commits
succeed or that a crash happens. The bound on errors says that failed commits
eventually stop. `FairSpec` of `OfflineQueue` assumes that the browser renders,
reads its store and fires timers, that the page is some time left open, that
`online` and `offline` events keep coming, and that an action sent again and
again is at some time answered. It does not assume that a call succeeds.
Without further `online` events the queue can stay unsent: a flush that failed
is started again only by a change of `isOnline` or of the number of stored
actions. The other components promise nothing that must happen: a request that is
lost stays lost, and nobody promises to act on a pickup or a complaint.

## 4. What is proved

Every theorem is checked to its last leaf, for every value of the constants that
the assumption named with it admits. The invariants that the runs check are
seldom inductive; what had to be added to them is said with each.

**Pickups** (`PickupAssumption`: the roles of citizens and collectors are
disjoint, every collector has a company, NULL is no id), for any sets of pickups,
threads, users and companies:

* `TypeCorrect`, `StagesInOrder`, `CompanyCorrect`, `RewardCorrect`,
  `WasteCorrect`, `AssigneeCorrect`, `AuditTrailCorrect`: the seven
  invariants of `pickup_concurrent`, for any number of racing requests.
  They are not inductive, because they do not speak of what the threads hold.
  `TypeInv` adds that a thread that is not idle has a pickup, a collector and a
  target of its operation. `AuditInv` adds what a thread has read: the log
  already contains a status from which its target may be reached, and the
  assignment of its collector; the log only grows, so other threads cannot take
  that away. `SettlementInv` ties rows to the proof of collection; only the unique
  column makes it inductive, as the thread's own check is stale when it commits.
* `ProofCorrect`, `CancellationCorrect`, `FlowImplemented`: the properties of
  `pickup_serial`, the refinement of `PickupFlow` included, for any pickups.
  Their hypothesis is `Serial`, at most one thread: with two, `pickup_stale`
  shows that they are false. `SerialInv` says that what the one thread's guards
  found still holds when it commits. The refinement maps the commits to steps of
  `PickupFlow` and every other step to a stutter.

**Scheduler** (`SchedulerAssumption`: the days and first dates exist in the
calendar, the bounds are naturals, None is no date), for any schedules, runs and days:

* `NextRunDateAdvances`: for every date of the calendar and every frequency, the
  rule gives an existing and strictly later date.
* `TypeCorrect`: `RunShape` adds that a run that has loaded a schedule holds a date.
* `SeriesKept`: every stored date and every pickup's date is of the series of its
  schedule. `SeriesInv` says so of the dates the runs hold too, however stale.
  The series is a set closed under the rule and has no bound. `OnSchedule` looks at an
  enumeration of `MaxOccurrences`, so it follows under `Enumerated`: no schedule has
  come further than that (`scheduler_overlap` never does).
* `LossCorrect`: `LossInv` bounds by the errors logged the occurrences lost before a date
  together with the runs that have logged theirs and not yet moved the date,
  for the stored date and for every date that a run holds and may yet write.
* `OnceCorrect`, `EarlyCorrect`: under `SerialRuns`, at most one run at a time
  (with two, `scheduler_duplicate` refutes the first). `SerialInv` says that
  the date a run holds is the stored one and that pickups were made before it only.

**Offline queue**, for any actions, overlapping flushes and faults:

* `TypeCorrect`, `SuccessCorrect`, `StoreCorrect`, `OrderCorrect`: the four
  invariants of `queue_overlap`. `QueueInv` adds that an action is stored once; that what a
  flush has left is stored or was confirmed by another; and that what is stored before
  an action it has left has an error or comes earlier in its list, which is why
  overlapping flushes keep the order.

**Sessions** (`SessionAssumption`: finitely many threads; `ClientAssumption`: the
calls of the tab are threads of the server), for any users, threads and tokens:

* `RotationCorrect`: `RotationInv` counts, for every token, the threads on their
  way to replace it together with the tokens that did.
* `ResetCorrect`: `ResetInv` says of a thread in flight with an earlier password
  that it is marked late.
* `SpentCorrect`: `SpentInv` counts the passwords set together with the threads
  that are still behind, that is, have checked a token that was spent meanwhile and
  will set one more.
* `ClientImplementsSessions` (`ClientSpec => Spec`): whatever a tab does, the
  server only takes steps of `Sessions` or none, because what the tab holds
  (`stored`, `posts`) are rows of the server. `ClientSessionsEnd` draws the three
  properties over to the tab's specification, and `TypeCorrect` the types.
* `PairCorrect`: `BrowserInv` says that the first check of a page is its only
  call, that while a login is under way every other call is of an earlier session, that a call of this
  session acts for the user whose token the pages use, and that if the name and
  the token of the pages differ then nothing is stored or what is stored came
  too late. The proof failed on an earlier form of the history variable
  `lateWrite`: a call of the new session can refresh with a pair stored too late
  and store its child, which was not counted as late. `sessions` has the fourth token for
  this case.

**Rewards** (`LedgerAssumption`: prices and points are positive, stocks are not
negative, finitely many threads), for any users, rewards and entries:

* `RedemptionsCorrect`: `LedgerInv` says that the stock a redemption has read is
  explained by what was sold, like the row's, and, for the debt, that among the
  redemptions past their check one was affordable when the threads that are not among them had
  not paid yet (`CoveredBy`). A thread that pays leaves the pending ones, so the
  debt never exceeds one redemption for each other thread.

**Rows**, for any requests and transactions:

* `RowsCorrect`: `RowsInv` says that a column no success has set since a request
  read it is still as the request read it; hence leaving unchanged columns out
  of the UPDATE does no harm to it.

**Complaints**, for any complaints and threads:

* `StagesCorrect`: `StoryInv` adds that the stage before the target of each
  pending update has been told; notices are never deleted.
* `ResolutionCorrect`: `AloneInv` adds that a pending update of a complaint not
  marked as overlapped is the only one and that the row is still as it read it.

**Row-level security**, for any accounts, companies, requests and connections (None is no
account and no role, and `HomeCompany` gives each account a company or None):

* `ContextCorrect`: `ConnectionInv` adds that no two requests hold one connection
  and relates what is committed to the phase of the holder, since a rollback
  goes back to it.
* `PoliciesCorrect`: `GrantInv` says that a request in its handler has all the
  settings of its account, the company of its profile included, unless it was
  disturbed; then each row a handler writes is compared with its policy.

**Lists, figures and reports** (`ViewAssumption`: days are finitely many naturals,
collectors and zones are finite, every collector has a company, distances and counts are
naturals, limits are positive, and a row order gives each row its own place), for any pickups,
viewers, limits, distances and orders of rows. `RowsInv` says which columns each status goes
with; the three theorems about what is computed from the rows follow from it alone.

* `ReportsCorrect`: `CountedInv` says of what each query of a report has found that it is so
  still (`StillSo`): a pickup it counted is in a status that can be reached from one it asked
  for, and one it counted as closed keeps its proof. The next query is compared with that.
* `ScreensCorrect`: the figures per collector are sizes of disjoint sets whose union is what the
  trend counts. `SumOfSizes` says that their sum is the size of the union.
* `UrgentCorrect`: `Ranks` says that the number of rows before a row in a total order on a finite
  set numbers them from 0 on, and `FirstRows` and `ListOfRows` what a limit and a list make of
  that. `RanksScore` compares two lists of the same rows that break ties differently: the rows
  with the same number have the same score.
* `RouteCorrect`: `TourExists` builds the tour, whose every value is an order of the stops left;
  `Toured` is the invariant of its loop: the stops taken so far are distinct, each was
  a nearest one of those left, and none of those is lost.

**Form**, for any number of requests, searches and failures:

* `FormCorrect`: `AddressKept` adds that a search under way carries the address
  that is typed, unless it was overtaken.
* `OnePickupCorrect`: `Accounted` counts the requests sent by the failures shown, those
  doubled by Enter and the one under way.

**Pages** (`PageAssumption`: the bound on changes is a natural), for any number of loads and
actions under way at once:

* `PagesCorrect`: the property speaks of a group at rest, and loads overtake each other, so
  `PageInv` is about the load that was begun last: it knows, or will, every change the page was
  told of, unless a row was put in by hand meanwhile (`LatestKnows`), and once no load later
  than the one shown is under way, the group shows them (`ShownKnows`). `Numbered` says that
  the loads of a group have numbers of their own. `NotYetShown` is why a report put in front of
  the list is not there twice: a list that has not been answered since the form was sent cannot
  hold it. `FailureTold` says that a group whose load rejected has its message until every load
that shares the message is under way again or an action took it away, and that one whose request
was caught is empty; it needs that the loads of a page share no group (`Apart`).

**Types.** `ComplaintTypeCorrect`, `LedgerTypeCorrect`, `RowTypeCorrect` (`RowAssumption`: the
bound on transactions is a natural), `SecurityTypeCorrect` (`HomeCompany` as above),
`ViewTypeCorrect`, `WizardTypeCorrect` and `PageTypeCorrect` are the seven conjuncts of the
type invariant of `components`, each of its component's specification. Their conjunction,
`TypeOK`, is checked by the run, each behaviour of which steps one component, and is not a
theorem of its own; the components share no variable, so nothing more is in it.

**Recursive definitions.** The library's induction theorems take an operator as a
parameter and cannot be used here. Four proofs need induction nevertheless and do
it over sets: `SetInduction` says that a set of naturals with 0 and the successors
of its members is `Nat`; the scheduler's proof has it from counting, the others from the
least number principle. With it the series of a schedule, the balance of a user, the total of
a column and the tour of a collector, which are recursive functions or folds, are shown
to exist and to obey their equations.

**Only model-checked:** `DueIsServed` and `QueueIsServed`, because liveness and ENABLED are
outside the prover's reach; and the four violations, each of which is a behaviour.

## 5. Where code and documentation differ

With a run that shows it:

1. `pickup_stale`: `tests/test_pickups.py:108` and `models/enums.py:37` say that
   a COLLECTED pickup cannot change; two requests that read ARRIVED can both
   commit (`pickup_service.py:149`).
2. `scheduler_duplicate`: `docs/recurring-pickups.md` says that running twice a
   day makes no duplicate; two overlapping runs do (`scheduler_service.py:53`).
3. `scheduler_blocked`: `tests/test_scheduler_hardening.py:112` says a broken
   schedule does not block later runs; after a refused INSERT the handler
   raises at `scheduler_service.py:115`, before it rolls back and advances.
4. `rls_transparent`: `docs/multi-tenancy.md:49-53` and `:71` say that the
   policies grant what the application grants and are transparent to legitimate
   traffic; `notifications` has no policy for UPDATE (`core/rls.py:72`), so
   `mark_read` matches no row and fails. The shipped configuration connects as a
   superuser, whom the policies do not bind.

Met while modelling, and part of the models:

* `models/pickup.py:81` ties completion to a proof of collection;
  `update_pickup_status` (`pickup_service.py:208`) completes without one.
* `docs/authentication.md:40-41` limits a leaked refresh token to a single use; two refreshes
  that overlap both get a pair (`RotationIsFinal` says how many can).
* `AuthContext.test.tsx:95` expects no token left in localStorage after a logout; a
  refresh under way at that moment writes its pair back (`lateWrite`). If another user has
  logged in by then, his calls read that pair from localStorage when they refresh (`api.ts:61-84`)
  and store the one they get for it, so that the tab shows him and stores a pair of the
  user before.
* `docs/operational-metrics.md:117` and `:126` have the zone of a pickup set
  during assignment; no code sets it, and the figures of zones are zero.
* The header of `pickups/new/page.tsx` has every request reviewed before it is
  sent; Enter in step 1 or 2, and the click on Continue that becomes one on
  Submit, send it before.
* The rollback at `scheduler_service.py:119` undoes the `app.*` settings of the
  request, so that under the restricted role the rest of the administrator's run is refused;
  `scripts/run_scheduler.py` never sets any.
* Pages: the administrator's complaints count as loaded before they are; the
  collector's page does not load again after an action if it is offline by then;
  a new location of an organization is not loaded.
* What the tab and the pages do, and no property forbids: a refresh that is answered badly
  empties localStorage while the session is shown (`api.ts:72-75`); a refreshed token does not reach
  React, so that every later request is refused once; an older answer is drawn over a newer one;
  a reload of an organization empties its locations or schedules in silence
  (`organization/page.tsx:38-39`).
* The pages of schedules (64-69) and of an organization (69-81) use coordinates
  of Kampala when the device is not found, without saying so; not modelled.

## 6. Plan, and what is not modelled

Left of the plan, in this order:

1. `CollectorSync`, which composes `OfflineQueue` with the pickup service, so
   that the answers are the service's. Abstract specification: an action of the
   collector takes effect at most once, or its refusal is shown and final. The
   hazard at `useOfflineQueue.ts:128` has no property until then.
2. `change_role` in `Sessions` and `RowSecurity`.
3. More of the pages: the sections of the collector's page and the map layers, each of
   which loads on its own.

Not modelled, and why:

* The rate limiter: one atomic counter per client and minute. The number of the
  minute is part of its key, so a counter that never got its expiry is only never
  deleted.
* Hotspots: a clustering done by PostGIS. Estimates of the environment: constant
  factors over floating point. The map layers and the list of things to attend to:
  single queries rendered as they come.
* Storage, the layout of PDF and CSV files, headers, configuration, seeds,
  migrations and infrastructure: no state of the kind this project is about.
* `AssignmentsSection`, `LocationWorkflow` and `SystemStatusBanner`: no page
  imports them.
* Inserts of organizations, companies, zones and members of staff: single rows whose correctness
  is their validation; what the policies say of them is in `RowSecurity`.
