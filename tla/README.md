# gofin in TLA+

gofin is a personal finance application: Go services behind a gateway, React
applications in the browser, PostgreSQL for most services and immudb, an
append-only database, for the ledger of expenses. This directory specifies the
parts of it that are hard to test: writes that consist of several statements
and remote calls, requests that overlap, processes that die in between, answers
that are lost, and work that has to end some day.

Three subsystems carry most of the program's risk: the **expense ledger**, the
**budget periods and pro-rata schedules** of the finance service, and the **job
engines** of the data rights service. Each has a module in which every statement
and every call of another service is a step of its own, configurations that TLC
checks, and theorems that TLAPS proves for every number of users, handlers and
rows. So have the **login sessions**, the **accounts with their settings and
tags**, the **immudb session**, the **export** of a user's data, the **FX
service** and the **stored health scores**. Around them, the arithmetic of the
scores, the figures of the **dashboard**, the listings and the routes of the
**gateway** are specified and checked by TLC.

## Inventory

Paths are relative to `src/`. "Hard" names what a unit test hardly reaches.

| Part | State | Operations | Hard | Correct when |
|---|---|---|---|---|
| Expense ledger, `services/expense` | table `expenses` in immudb; no transactions, no unique keys besides the id | create (with idempotency key), correct, delete, pro-rata installment, erase a user | lookup and insert are two statements, a correction is two statements, the month turns, erasure runs beside requests | one row per key; one active row per chain; superseded rows are retired; rows are only ever retired |
| Correction history | none | walk `corrects_id` back and forward | entry in the middle of a chain | lists the whole chain in order |
| Expense reads, stream | none (a producer goroutine and two channels per stream) | list, count, suggestions, stream all rows | hand-over between goroutines, keyset pages while rows are written | every row once and in order; terminal status; no goroutine left |
| immudb session client | one session and its generation | query, execute, reconnect | heartbeat and requests find the same dead session; one closes the client that another holds; the reopening fails | one loss fails no statement that finds it; the client heals |
| Budget periods and pro-rata, `services/finance` | `budget_periods`, `pro_rata_schedules` | create period (back-fill missed months, apply schedules), create plan | no transaction over database and ledger, no idempotency key, lost answers, two requests for one month | each installment posted at most once; statuses agree with the ledger; nothing lost of the total; no missing month |
| Onboarding, defaults, tags | `default_settings`, `tags` | complete onboarding, update defaults, seed, create, rename, delete tags | check-then-insert; references counted in two services | tags in use stay; default tags come together; onboarded users have settings |
| Dashboard, health score | `health_scores` | compute, store once for a finished month | stored value against later changes; arithmetic | a stored score is what would be computed now; the cards agree on a month |
| Data rights, `services/datarights` | `export_jobs`, `deletion_jobs`, two pools in memory | file, run, recover jobs | crash anywhere, deadlines, full pool, retries, deduplication | jobs end once; completed means done; none runs twice at once |
| Auth, `services/auth` | users, consumed refresh tokens, revocation times | register, log in, refresh, log out, change password, assume identity, erase, clean up | rotation under overlapping refreshes, second precision, lost answers | a refresh token is used once; revocation covers what it should; whoever registered can log in |
| FX, `services/fx` | one cached set of rates | convert, capture a snapshot | overlapping misses store out of order; rounding | no rates older than the cache's age; the nearest amount |
| Gateway, `services/gateway`, `services/access` | none | route, authorise, probe | fan-out of probes | a request reaches only a handler its caller may use |
| Frontend client, `frontend/packages/api` | one refresh in flight | fetch, refresh, retry | requests that fail around one refresh | one refresh at a time, one retry |
| Process shell, `services/serverkit`, `services/errkit` | none | serve, shut down, recover, report | two servers, one failed | always stops |

How they interact: the browser reaches every service through the gateway, which
asks auth to validate the token. Expense asks finance for the period of a row
(`GetPeriodContext`) and FX for a conversion. Finance writes pro-rata
installments into the ledger through expense's gRPC interface and asks FX for
the rates a plan is bound to. Data rights reads from all of them for an export
and, for a deletion, calls finance, expense and auth in that order. Nothing is
queued between services: every interaction is a synchronous call whose answer
can be lost, and no transaction spans two services. The deployment runs one
process of each service.

## Modules

| Module | What it models |
|---|---|
| `ExpenseLedger` | the ledger's write path, one step per statement or call |
| `AtomicLedger` | what the ledger promises, one step per operation |
| `ExpenseHistory` | `GetCorrectionHistory` over the ledger of `ExpenseLedger` |
| `ExpenseLedgerProofs` | theorems about `ExpenseLedger`, and that its handlers implement `AtomicLedger` |
| `ExpenseHistoryProofs` | theorems about chains and the walks along them |
| `ProRata` | periods and schedules, with the rows they put into the ledger |
| `ProRataProofs` | theorems about `ProRata` |
| `FiniteLemmas` | lemmas about finite sets that stand in for induction: least numbers, places in an order, sums and their parts; used by the two modules above and `ServicesProofs` |
| `DataRights` | handlers, pools, engines, crash and recovery of both kinds of jobs |
| `JobLifecycle` | what a job promises, whatever its kind |
| `DataRightsProofs` | theorems about `DataRights`, with and without overlapping requests, and that it implements `JobLifecycle` |
| `Sessions` | browser tabs with the API client, the gateway's check, tokens, blacklist, revocation |
| `SessionsProofs` | theorems about `Sessions` |
| `Accounts` | users in auth; settings and tags in finance; registration, onboarding, erasure |
| `AccountsProofs` | theorems about `Accounts` |
| `Export` | one run of an export job with its providers and the expense service's stream |
| `ImmudbSession` | statements, heartbeat and reconnect over one session |
| `RateCache` (extends `Conversion`) | requests to the FX service over one cached set of rates |
| `Conversion` | the FX service's rounding |
| `StoredScores` | the table `health_scores` against writes, edits, deployments and the calendar |
| `HealthScore` | how a score and its insight are computed |
| `Dashboard` (extends `ExpenseReads`) | the figures of the dashboard's cards |
| `ExpenseReads` | listings, counts and suggestions of the expense service |
| `Gateway` | registry, resolver, access check, proxy choice, and the services' dispatch |
| `Services` | the nine modules above, from `Export` on, in one specification: its four machines and the calculations share no state, and a behaviour is one of them |
| `ServicesProofs` | theorems about `Services`: the immudb session, FX, the export, the listings, the dashboard's figures, the score of a month, the stored scores, the gateway |
| `MCExpenseLedger`, `MCProRata`, `MCDataRights`, `MCSessions`, `MCAccounts`, `MCServices` | values, bounds and symmetry for TLC |

### Expense ledger

`ledger` is the table `expenses` in commit order and a row's id is its
position: the code only ever compares the uuid it generates. A row keeps its
owner, status, the row it corrects, its period, the month of `created_at`, its
idempotency key, and whether its reporting amount is zero; names, tags and
currencies tell no property anything. `month` is the wall clock, which turns at
any moment. A request handler is a worker with a program counter `pc` and its
locals `req`.

| Code | Steps |
|---|---|
| `CreateExpense` | `BeginCreate`, `Replay` or `NoReplay`, `LoadPeriod`, `Convert`, `InsertRow` |
| `CreateProRataInstallment` | `BeginInstallment`, `Convert`, `InsertRow` |
| `CorrectExpense` | `BeginCorrect` (read and checks), `LoadPeriod`, `Convert`, `MarkCorrected`, `InsertRow` |
| `DeleteExpense` | `BeginDelete` (read and checks), `Deactivate` |
| `AnonymizeAllUserExpenses` | one UPDATE |
| error return, cancelled request, death of the process | `Fail`, after any statement |

The read of a row and the checks on it are one step, as no state changes
between them. An answer that does not reach the client needs no step: the
client may send the key again whatever happened. The immudb client repeats a
statement once after it lost its session; an INSERT repeated with its id fails
and the UPDATEs are idempotent, so a repeated statement is one step too.

`SerialSpec` adds the premise written down in `repository/correction.go`: one
user, one request at a time. Failures and crashes between statements stay.
`ImplementsAtomicLedger` shows that under this premise the handlers implement
`AtomicLedger`: the status of a half-made correction's original is mapped to
"active", and a correction that stops half-way is mapped to a deletion.

The correction's stamp is taken in UTC and the period lock compares local time.
The containers run in UTC; the model has one clock.

### Periods and pro-rata

All rows belong to a user, so there is one. `periods` is `budget_periods` (the
reporting currency of each month, the one value schedules depend on),
`schedule` is `pro_rata_schedules` by group and index, `ledger` the pro-rata
rows as the expense service committed them, and `plan` remembers what a request
asked for and how it was answered. A post to the ledger appends the row or not,
and its answer arrives or is lost, in any combination the services can produce.

| Code | Steps |
|---|---|
| `CreatePeriodWithProRata`, `createMissedPeriods`, `computeMissedMonths` | `BeginPeriod`, `ReadLatest`, then for each month `CreatePeriod`, `LoadPending`, the schedules, `FinishMonth` |
| `applyPendingProRata`, `applyOneProRataSchedule` | `FailUncovered` (either service's check of the snapshot); `PostInstallment` then `MarkApplied` or `LeaveUnmarked`; `LeavePending` |
| `CreateProRataExpense` | `BeginProRata`, `CaptureSnapshot`, `PostFirst`, one `CreateSchedule` per later month |
| error return or crash | `Fail` |

### Data rights jobs

`jobs` is both job tables in filing order. `run` holds the goroutine of a job:
waiting for a slot, starting, at work on its n-th part in its k-th attempt,
completing, failing; and whether its deadline has passed. `process` goes through
start, recovery of exports, recovery of deletions, serving, and down. `held` is
the data the three services hold of a user. A crash empties `run` and the
handlers and keeps the tables. A job has one goroutine; that this is no
restriction is `OneRunnerPerJob`.

### Sessions

A token pair is its position in `pairs`, which is the refresh token's `jti` too.
`blacklist`, `revokedAt` and `accounts` are the auth service's tables, `cookie`
the pair in the browser, `leader` each tab's `refreshPromise`. Time runs in
ticks: claims hold whole seconds, `tokens_revoked_at` is as fine as the clock. A
call of the API client runs through browser, gateway and auth service.

| Code | Steps |
|---|---|
| `AccessControl`, `ValidateToken` | `Refuse`, `Forbid` or `Admit` |
| `Login`, `Logout`, `AssumeIdentity`, `RestoreIdentity`, other handlers | one step each; `Sign` issues a pair |
| `ChangePassword` | `ComparePassword`, `ChangePassword`, `RevokeAllUserTokens`, `Reissue` |
| `RefreshToken` | `ValidateRefresh`, `ConsumeToken` (one INSERT ... ON CONFLICT), `ReadUser` |
| `apiClient`, `refreshTokens` | `Receive`, `StartRefresh` or `AwaitRefresh`, `Refreshed` (which also resumes the calls that wait), `RefreshRefused`, `GoToLogin` |
| lost answer, server error | `Lose`, `Fail` |
| the cleanup job; erasure by data rights | `CleanupExpired`; `DeleteRefreshTokenBlacklist`, `DeleteUserRow` |

### Accounts

`users` is `auth.users`; `settings` and `tags` belong to the finance service. A
request is the sequence of statements its service function makes (`todo`), and
each statement is a step: `Register` is `userByMail`, `userByName`,
`createUser`; `DeleteTag` is `getTag`, `countExpenses`, `countSchedules`,
`deleteTag`; onboarding is the finance transaction and then the auth service's
UPDATE. `SeedAll` inserts the default tags in one statement and fails as a whole
where the unique index on the folded name is hit. `Spend` and `Plan` are other
users of a tag in the ledger and in schedules.

### Export

`FetchFinance` is the engine's one read of the finance service, `CollectMapper`
a provider that turns it into files, `Wait` the errgroup. The stream has a
producer (`ReadPage`, `Feed`, `Report`), a consumer in the gRPC handler
(`SendRow`, `ReturnResult`) with the channels `rows` and `errc` between them, and
the expense provider at the other end of the wire (`ReceiveRow`, `EndStream`). A
row is stamped before it is inserted and its id is random, so it may appear at
any place of the stream's order. Rows are active or corrected alike, and a tag
that only corrected rows carry can be deleted (the count before a deletion looks
at active rows): `GoneTags` had been deleted when the job began, `DeleteTag`
deletes one meanwhile, and `Shown` calls a tag that the response of finance does
not name "Unknown". Which deletions the counts let pass, and their race, is in
`Accounts`; here any tag may go. A tag that is created meanwhile is left out, as no
row that the archive owes the user can carry it. `Break` stands for an error or a recovered
panic of one provider, `Stop` for the cancellation of the others, `Timeout` for
the job's deadline.

### immudb session

A session is a number in the order of the openings. `client`, `generation` and
the mutex (`holder`) are the struct's fields; a statement takes a client and a
generation together, calls without the mutex, and on a lost session reconnects
unless the generation has moved (`SkipReconnect`). `Miss` is a failed heartbeat
of a session; the heartbeat then reconnects proactively. A reconnect closes the
client first, which other statements may hold. What a closed client answers is
the SDK's matter (immudb v1.11.0, outside the repository): "not connected", which
`isSessionError` does not know, so that such a statement ends as "refused" and
neither reconnects nor is retried (`Outcome`).

### FX

`Conversion` computes with fractions as the code does with `big.Rat`. In
`RateCache` a request looks, fetches with retries, stores, and, when the fetch
failed, looks again; two requests that miss fetch both, and store in any order.

### Scores and dashboard

`HealthScore` follows the code's components, weights, bands and insight in
integers: a quotient is kept as numerator and denominator, so ties are exact
where the code's floating point may round. `StoredScores` keeps for each month
the inputs its row was computed from; a reader's request is one step per query.
`UpdatePeriod`'s check for a closed month and its UPDATE are two steps.
`ExpenseReads` and `Dashboard` are functions of the rows and periods.

### Gateway

A path is the sequence of its segments. `Resolve` is the registry's
classification, `Dispatch` what the router of a service does with the same path;
`RoutesAreGuarded` compares the level under which a request was admitted with
the handler it reaches, and the identity the service is told with that of the
validated token.

## Runs

| Run | Question | Bounds and why they are enough |
|---|---|---|
| `ledger_overlapping` | what holds with any overlap, failure, crash, erasure and turn of the month | 2 handlers, 3 rows, 2 months, 1 user, 1 key: two handlers suffice for any race of two statements, three rows for a correction of a correction or two corrections of one row; rows of different users never meet in a query |
| `ledger_serial` | what holds one request at a time, and the refinement | 2 users (to tell their rows apart), 3 rows, 1 month |
| `prorata_overlapping` | installments, statuses, totals and missed months under overlap and lost answers | 2 handlers, December to February (the year turns, a month can be missed), 2 currencies (a schedule may not cover the period's), 1 plan of up to 3 months, totals 5 (a remainder) and 2 (below the spread) |
| `datarights_overlapping` | one goroutine per job, completed means done, account last | 2 handlers, 2 jobs, 1 slot per pool (jobs wait), 1 crash |
| `datarights_serial` | deduplication and the rate limit | 1 handler, 3 jobs (a failed one in between), 1 crash |
| `datarights_steady` | every job ends | 2 jobs, 1 slot, 1 crash |
| `auth_sessions` | rotation, revocation, shared refresh | 2 users (one an administrator), 1 tab, 2 calls, 6 ticks of half a second, token lifetimes of 2 and 3 seconds (both expire within the run), 3 pairs, 3 requests, 1 fault: enough for a refresh of a refreshed pair and for a call that overlaps a refresh or a password change |
| `accounts_overlapping` | names, onboarding, tags under overlap and failure | 2 handlers, 3 users, 4 tags, 2 default tags, 2 requests besides onboarding, 1 fault; an address and a tag name that differ from another in case only |
| `services` | the parts of `Services`, each behaviour one part | export: up to 2 rows, one of them written meanwhile or both there before, 2 seconds, pages of 1 row, a tag that is kept or deleted, one that was deleted before, 1 error (a full page, a last page, an equal stamp; `ArchivesAreWhole` has any table); immudb: 3 statements, 2 losses, 1 failure; FX: 2 requests, 5 ticks, 1 retry, an offer without a rate; scores: 3 months, window of 2, 1 write, a new formula; calculations: thousands of inputs around every threshold, and a request to every route |
| `ledger_history` | expected violation: history from a later entry | one request at a time |
| `accounts_onboarding` | expected violation: the form, submitted again and again, gets through | 1 handler, 1 fault |
| `finance_totals` | expected violation: totals count every expense of a month | pages of 3 rows, 4 expenses |

Handlers, groups and users are interchangeable in every definition, so the
safety runs use symmetry; the liveness runs do not. Deadlock is checked wherever
requests can always arrive; in `services` and `finance_totals` a
behaviour ends, when its input is chosen or its job is over, and it is not.

The properties, in one line each, stand above their definitions. The ones to
read first: `SupersededIsRetired` (an amount is never counted twice through one
link of a chain, whatever overlaps), `ImplementsAtomicLedger`,
`OneExpensePerInstallment` (no key protects the post, only the order of insert,
load, post and mark), `SettledAgreesWithLedger`, `ImplementsLifecycle`,
`JobsEnd`, `RotatedOnce`, `OldAccessEnds`, `DefaultTagsTogether`,
`ArchiveIsComplete`, `ExportEnds`, `StoredScoreIsFinal` and `RoutesAreGuarded`.

Several say "unless": each exception is a behaviour the code has, listed under
"What the code does not promise", and is as narrow as TLC allows. History
variables (`takenBy`, `forgotten`, `owed`, `broken`, `hasty`, `outdated`, `plan`)
serve these exceptions and the bounds only; no step of the program reads them.

### What the expected violations show

Each contradicts a sentence of the repository, quoted in `PROJECT.json`:

1. `GetCorrectionHistory`, asked for a later entry, returns the root alone: the
   walk forward stops at the rows the walk back has marked.
2. When onboarding has reached the finance service and its answer, or the second
   call, is lost, every resubmission fails: it inserts the default tags again and
   the unique index refuses them. The user cannot finish.
3. Every total of the dashboard counts the 50 latest expenses of a month only:
   the finance service asks for a page of 10000 and the expense service replaces
   a size above 100 by 50.

### What the code does not promise

These follow from the same modules and are no properties of the project. Some
contradict a comment or a document, which is then named.

Ledger and periods:

- Two overlapping creates with one idempotency key leave two rows: the lookup
  and the insert are two statements (`service/expense.go:773-774`).
- A correction that stops between its statements has retired the original and
  written nothing; the client sees an error (`service/expense.go:238-240`).
- An amount that converts to zero is written, and refused by every read that
  maps the row (`repository/row_mapping.go:38-40`).
- A schedule left pending after a transient error "for retry"
  (`service/prorata.go:323-324`, `docs/data-model.md:118`) is never read again:
  only the creation of its month reads it, and a month is created once.
- Neither expenses nor plans check that their tag exists.
- Two overlapping corrections of one expense both succeed and leave two active
  rows; two overlapping posts of a user file two jobs of a kind. The checks are
  read-then-write and no constraint backs them.
- A plan whose month is created while its schedules are still being inserted
  keeps a pending schedule behind an existing period.
- A plan that fails after its first installment leaves that row in the ledger.
- A total smaller than the number of months yields installments of 0. The
  expense service refuses them each time; finance takes that for transient.

Data rights:

- A deadline that passes between the work and `CompleteJob` leaves the job
  running until the process restarts (`docs/data-export.md:219` has it failed).
- The export conflict is checked when a deletion is filed, never when an export
  is.
- A user whose account is not erased yet can write to a service that a running
  deletion has already been through.
- An export that is recovered after a crash between the e-mail and
  `CompleteJob` is sent again.
- A job whose insert was committed without an answer, or whose transition to
  running failed, waits for the next restart.
- A blacklist row that a refresh or a logout inserts between the two statements
  of a user's deletion makes the second fail; data rights tries again.
- An archive may miss a row that was stamped before the page it belongs to was
  read and inserted after. Its tag, if newer than the job's read of the finance
  data, would be called "Unknown".
- A row whose tag is deleted while the job runs has the tag's name or "Unknown",
  as the job's read of the finance data came before or after.

Sessions and accounts:

- `RefreshToken` does not look at `tokens_revoked_at`: a refresh token from
  before a password change gets a new pair.
- The pair that a refresh issues for an assumed session is no longer marked as
  assumed (`docs/auth.md:128`).
- Tabs share the cookies and not the refresh: two tabs may refresh at once, and
  the later is refused. A call that is tried again runs under the cookies of
  that moment, perhaps of another user.
- A refresh token that is validated in its last moment may be consumed again
  after the cleanup has removed its row.
- An access token of an erased user is accepted until it expires.
- The admin seeder's insert and its onboarding flag are two statements; after a
  crash in between, the next start finds the user and leaves the flag unset. The
  seeder does not fold the address, as the login does.
- `DeleteTag` counts in two services at two moments: a tag that is first used
  in between is deleted.
- A user who renames all default tags and is seeded again, by an onboarding that
  is submitted once more, gets a second set.

immudb session, FX, scores, dashboard, gateway:

- A heartbeat that fails once closes a session that immudb still knows, under
  the statements that use it (`immudb_prod.go:105-116`; the comment at 54-57 has
  a dead session in mind).
- A statement that took the client before another statement or the heartbeat
  closed it, and calls after, is refused and not retried: one lost session may
  fail as many statements as were about to call (`immudb_prod.go:150`, `190-197`).
- When the reopening of a lost session fails, the service does not heal
  (`immudb_prod.go:17-18` says it does): `reconnectLocked` has closed the client,
  which stays in place (150, 155), its heartbeat has ended with it, and what it
  answers makes no statement reconnect. In `ImmudbSession` every later statement
  is then refused. It rests on the SDK's answer, so it is no expected violation.
- A request whose fetch was slow may store rates older than those another has
  stored meanwhile. `expires_at` counts from the request's first reading of the
  clock, and may have passed when a slow answer names it.
- Expenses may be written to closed months, and a stored score stays as it was.
  A request that spans the end of a month or overlaps a write may store inputs
  that are outdated at once. A month ahead of the server's calendar is stored as
  if it were final (`healthscore.go:138-142`; `docs/data-model.md:124` has closed
  months only). A score that is stored late survives an erasure.
- An insight may name a component that has all its points, with 0 points to
  gain. `isOnTrack` compares with a pace that is rounded down.
- Pages of a listing move when rows are inserted. The suggestions' page times
  page size is an int32 and may wrap.
- The graceful stop of the gRPC server has no time limit, contrary to its
  comment in `serve.go`.

## Fairness

Safety properties assume none. Three specifications have fairness.

`DataRights!SteadySpec` (run `datarights_steady`): the database answers (no
lost answer of an INSERT or of a status update) and a deadline only passes
during the work. Then each goroutine keeps running (weak fairness of its work),
a goroutine that waits for a slot gets one (strong fairness: the runtime serves
the senders that block on a channel in turn, and every holder releases its
slot), a handler that inserted its job submits it, a dead process is restarted
(the container's restart policy) and recovery runs. Providers may fail, time
out or panic every time: the job then fails, which is an end.

`Export!Spec` (property `ExportEnds` of run `services`): weak fairness of the
program as a whole, that is, some goroutine that can take a step takes one. No
bound or failure is needed for the end: errors, the deadline and new rows may
come or not. A call whose context has ended returns, as gRPC and database
clients do. `ExportEnds` says that no goroutine of the stream stays behind
either.

`Accounts!SpecRetried` (run `accounts_onboarding`) is as generous as the
program's surroundings could be: statements proceed, one failure at most, and
the user submits the form whenever they can (strong fairness). The violation
shows that no submission gets through.

## Theorems

All proofs are for arbitrary constants, under the modules' named assumptions:

- `LedgerAssumption`: the empty key is no key, the erased user is no user,
  converted amounts are naturals;
- `ProRataAssumption`: months form an interval of the calendar, totals are
  positive;
- `DataRightsAssumption`: a pool has a slot, the bounds are naturals, "no user" is
  no user;
- `SessionsAssumption`: lifetimes and bounds are naturals, a second has a tick,
  the values that stand for "none" are none of the others;
- `AccountsAssumption`: folding to lower case is idempotent and leaves the seeder's
  address alone, names and addresses are texts, the bounds are naturals;
- `ExportAssumption`: a table has finitely many rows, numbered and stamped; a tag
  was not both deleted before the job and there when it began; a page has a row;
  "expenses" and "none" are none of the other providers;
- `ImmudbAssumption`: statements are not sessions;
- `FxAssumption`: the provider's offers are lists of rates, a second has a tick,
  and the conversions are those the service's validation lets through (positive
  rates, positive amounts up to a largest);
- `ScoresAssumption`: there is a last month;
- `ReadsAssumption`: the sets of expenses that are listed are finite, their rows have
  ids of their own, and the default page has a row;
- `FiguresAssumption`: a listed expense has one of the three types and a day that its
  month has; the month that is shown has a period, whose budget and percentages
  are naturals (the handlers validate both), and now is a date;
- `MonthsAssumption`: a month is scored by naturals, its budget, percentages,
  spending and the desires of recent months;
- `RequestsAssumption`: a path is a sequence of segments, a cookie and a valid
  session are there or not, what can be reached is a set of the services.

TLC evaluates each of them in every run of its module.

**ExpenseLedger.** `LedgerTypes`, `SupersededRowsStayRetired`,
`CorrectionsKeepTheirPeriod`. The inductive invariant `LedgerInv` adds to the
three what a handler's locals know: a correction in progress, up to its insert,
has as target an existing row of its period, of its user or erased, its clock
reading lies in that period, and once past `MarkCorrected` the target is not
active. That this stays so while others run holds because no statement
reactivates a row, changes a period, or gives a row to anyone but `Deleted`;
`LedgerRowsOnlyRetire` is that fact as an action property.

`CreatesAreIdempotent` (one request of a user at a time): between its lookup and
its insert a handler's key is free (`KeysFree`), because nobody else works for
that user. `LedgerImplementsAtomicLedger`, under the same premise, goes step by
step: a handler that has retired the original and not yet written the correction
holds its target, which no other handler touches (`TargetsHeld`), so the mapping,
which shows that row as active, changes only in the step that inserts the
correction or gives up; every other step maps to a step of the abstract ledger
or leaves it alone.

**ExpenseHistory.** `ChainsCountOnce` and `FirstEntryListsItsChain`, one request of a
user at a time. `ChainInv` adds to the ledger's invariants that no row is corrected
twice (`OneCorrection`), and, so that this survives the INSERT of a correction,
that the original it has marked is corrected by no row yet (`MarkedUncorrected`):
the UPDATE finds it active, an active row is uncorrected (`SupersededIsRetired`),
and nobody else holds it. A correction comes after its original, so each chain is
a line. The walks are recursive functions; `WalkBackEquation` and
`WalkForwardEquation` show that they satisfy their defining equations (a function
that does exists, by the least length at which there is none). From
a first entry the walk forward then meets every row of its chain, each correcting
the one before (`Stretch`, `AnswerIsChain`): the answer is the chain in its order,
and every row of it but the last is retired (`LastIsActive`).

**ProRata.** `InstallmentsArePostedOnce`, `SettledSchedulesTellTheTruth`,
`SettlingIsFinal`, `ProRataTypes`, and `InstallmentsAddUp` about the integer
division. Posting at most once is not inductive: it depends on who may post.
`ProRataInv` says that the month a handler is past inserting exists (`Owners`) and
that one handler at most owns it (`OneOwner`); that a schedule in a handler's
queue is pending for that month and not in the ledger (`Queues`); that the
schedule being marked is pending, out of the queue and has its row (`Marks`);
that a schedule whose row exists is pending or applied, in a month that exists
and that no handler is still about to load (`Rows`); that an applied schedule has
its row (`Applied`); and that a group has no row and no schedule before its own
request writes them (`Fresh`). The unique key on (user, year, month) carries the
whole argument: weaken it (`MonthFreeAlways`) and TLC finds the second post.

`NoMonthIsMissing` adds that the walk skips no month and that periods are never
removed. `CreatedPlansAddUp` adds that the installments a request has written so
far are in their places (`Placed`); then the sum over them, which the property
defines recursively, is brought into closed form and compared with
`InstallmentsAddUp`. The induction on the number of installments takes the least
index at which the two differ; that there is one follows from the
well-foundedness of the subsets of a finite set (`LeastElement`, in
`FiniteLemmas`).

**DataRights.** `JobsHaveOneRunner`, `AccountsAreErasedLast` and
`DataRightsImplementsLifecycle` from `DataRightsInv`: handlers run only while the
process serves; a job about to be submitted is pending, has one handler and no
goroutine; a goroutine's job is open and its table has been recovered; and what
a goroutine has counted as done is done. The order of the providers, finance,
expense, auth, gives the erasure of the account as the last. With requests that
do not overlap, a handler's checks still hold at its insert (`ChecksHold`), and
all other steps only end jobs (`JobsOnlyEnd`): `JobsAreNotFiledTwice` and
`ExportsAreLimited`.

**Sessions.** `TokensAreRotatedOnce`: a consumed token stays in the blacklist until
it has expired or its user is erased (`ConsumedIsKept`), so of the refreshes with
one token one gets past `ConsumeToken` (`OneRotates`) and none has issued a pair
yet (`RotatingHaveNoChild`). `RevocationEndsAccess`: a call remembers no
revocation later than the one stored, and the gateway compares with that one.
`FreshPairsPass`: rounding down is monotone.

`TabsDoNotRaceThemselves` (no tab is refused for a token that it has consumed
itself, as long as no answer is lost, no call fails and no account is erased)
needs the whole path of a refresh. `RefreshInv` says that the refresh a tab's
calls share is run by the call they wait for (`RefreshesLead`); that a pair on its
way to the browser is in no cookie, no other request and consumed by nobody
(`PairsAreUndelivered`); and that, with no fault so far, a consumed token that is
still in the cookies belongs to the tab's refresh, which is about to replace it
(`Faultless`). The first gives the tab's other calls the wait instead of a second
refresh, the last gives every new refresh an unconsumed token.

**Accounts.** `EveryoneCanLogIn`, `RaceLosersAreTold`, `SettingsComeFirst`,
`DefaultTagsAreWhole`, `TagsInUseAreKept`. A request is the list of statements it
has left, so `AccountsInv` reads off that list what the request knows
(`RequestsOK`): that an address is folded before it is stored, that settings are
written before the flag is asked for, and that a deletion that has seen a
reference to its tag does not come to its DELETE. The tables keep what their unique
indexes give them (`TablesOK`), and seeding inserts all default tags or none.

The theorems of `ServicesProofs` are about `Services!Spec`; a step of another part
leaves the variables of a part alone.

**immudb session.** `OneLossIsSurvived`. With one loss and no other fault the client
passes through three phases, `Living`, `Lost`, `Replaced`; a statement that found
the first session dead carries generation 0, so after the reconnect it skips its
own and is retried on the session that lives (`SessionInv`). Only the first client
is ever closed, and only a statement with generation 0 can hold it then: the ones
that the theorem lets be refused.

**FX.** `ServedRatesAreFresh`. A snapshot names an expiry at most `MaxAge` after its
capture, and a request that missed serves one captured after its own reading of
the clock, whatever others have stored meanwhile (`CacheInv`). The expiry is
formatted in whole seconds, which only rounds down (`FormattingRoundsDown`).
`ConversionsAreNearest`, for all rates and minor units: the rounded quotient is
within half a unit of the fraction (`RoundedIsNearest`) and grows with it
(`RoundedGrows`), two lemmas about integer division.

**Export.** `BlamesAreDeserved`: what is written down as a job's failure is the
first provider that failed by itself, because a provider can be stopped, and the
stream can end in an error, only once there is a first failure or the deadline
has passed (`FaultInv`). `ArchivesAreWhole`: `ArchiveInv` looks at all rows that
were read and not dropped as one sequence, archive, wire, channel and the
producer's page (`Line`). It is sorted, nothing in it lies behind the cursor, and
every row that is owed is in it or behind the cursor (`Flowing`), so each hand-over
only moves a boundary in the sequence (`HeadMoves`). A read appends the first rows
behind the cursor (`PageIsNext`, `FirstRowsAreFirst`), and a page that is not full
was the last (`Produced`); therefore a stream that ends well has sent everything
(`Delivered`). New rows appear anywhere in the order, and are not owed. The response
of finance came first: of the tags that the job found it names those that are
still there, and none of those that were deleted before (`Named`).

**Listings.** `ListingsAreWhole`, for every finite set of expenses and every page
size. `InOrder` puts a row at its rank; an order of a finite set gives each element
a place of its own, and every place an element (`PlacesCount`), so the list has the
set once and in order. That the listing is an order takes the numbers of dates,
which differ for different dates (`DatesAreNumbered`). The pages that a client
follows are those up to the first that reaches the end (`PagesEnd`), and put
together they are the list (`PagesJoin`, by the least page at which they are not);
no promised page is empty (`PromisesHold`). Each name in use has one suggestion
(`SuggestionsAre`), whose frequency is at most the number of its rows, because the
rows of a plan map onto plans (`FrequencyCounts`).

**Gateway.** `RequestsAreGuarded`, for every path and identity. gin's dispatch, a
recursion over the segments of the path, has a closed form: of the routes it can
reach it ends at the one that is static at the first segment where two differ
(`Best`, `DispatchIsBest`, by the last segment from which it would not). The
resolver's comparison of patterns is the same preference (`MoreSpecificIsBetter`),
and no two routes of the registry differ in the names of parameters only
(`RoutesDiffer`, from the four tables), so both name the same route, in the
service that the path's prefix is proxied to (`DispatchedIsClassified`,
`ClassifiedIsOne`, `ProxiedToItsService`). What is answered then depends on the
level of that route alone (`AnsweredByLevel`).

**Figures.** `FiguresAreOne`, for any expenses, periods, dates and limits. Every
card folds the same fetched rows along its own parts of them: by type, by tag, by
the day they are put on. A fold over a finite set computes the one function that
adds an element at a time (`SumsAgree`, by a smallest subset on which two such
functions differ), that function is additive (`AdditiveUnion`), and so it is over the
classes of a partition (`AdditivePartition`): types and tags partition the rows
(`TypesPartition`, `TagsPartition`), and the days up to the last hold all of them
(`LineEnds`). The allocations spread the budget because the remainder of the
rounded ones is added to the largest (`AllocationsSpread`), the pace is a quotient
rounded down (`QuotientAndRemainder`), and a trend ends at the month it is asked
for (`TrendsFollow`).

**Scores.** `ScoresFollowThePlan`, for any budget, percentages, spending and window.
There are four sets of components that a month can have, and for each the rounded
weights come to 100 without a remainder (`MaximaAre`). A rounded quotient grows
with its fraction (`QuotientsGrow`: cross products, which are compared without
division), so each component does: savings up to the target (`SavingsFollow`),
the budget (`BudgetFollows`), stability (`StabilityFollows`). The allocation is the
hard one, because one more spent in a category moves all three shares. Over the
common denominator the others lose exactly what the one gains (`OtherShareFalls`,
`ShareRises`). What desires gain above their share is penalised at least as much as
the others are spared (`PenaltiesGrow`), and what missing savings gain spares at
least as much as the others are penalised (`PenaltiesFall`); that compares the
penalties (`DesiresRaisePenalties`, `SavingsLowerPenalties`), their shares
(`SharesFollow`) and the totals (`TotalsCompare`). Deviations add up to nothing, so an allocation below its maximum
has one above and one below (`ExtremesExist`).

**Stored scores.** `StoredScoresAreFinal`. A request that no write, edit or turn of
the month has overtaken holds what is in the tables, query by query (`InStep`), and
therefore stores what would be computed at that moment; from then on a row stays
right because a month that is over has a window that depends on earlier months
only (`WindowKept`), and a write outdates the rows from its month on (`Final`).

## What is only model-checked

- Liveness and everything that needs ENABLED: `JobsEnd`, `ExportEnds`, and the
  violated `OnboardingCompletes`.
- The other two expected violations, which are counterexamples.

## What is not modelled, and why

- Validation of requests, formatting, logging, metrics, error reports. In the
  ledger also names, tags, dates within a month and currencies: no property of
  it depends on them, and FX is the choice of its answers.
- The process shell (`Serve`): what it waits for is the shutdown of net/http and
  gRPC, which are libraries; that a process dies and starts again is in the
  modules it matters to.
- The in-memory immudb client and the static rate provider, which serve local
  runs and tests.
- The layout of CSV files and archives, the names of tags (an id stands for its
  name), the sentences of insights, password
  hashing and the signature of tokens.
- The React applications and their polling; of the frontend only the API client
  and the onboarding form's two calls are modelled.
- The shared libraries and the monitoring proxy keep no state; generated
  protobuf and sqlc code is read through its callers.

## Plan

Built: everything above. What would come next, in this order:

1. An abstract specification of a login session (a chain of pairs, each
   exchanged once), and `Sessions` as its implementation one tab at a time.
2. An abstract export (a snapshot that is delivered whole, or a named failure),
   and `Export` as its implementation; `ArchiveInv` has the mapping.
3. The composition of `Accounts` with the erasure jobs of `DataRights`.
