# Greysight: TLA+ models, model checking and proofs

Greysight shows an organization its Snowflake spend and, with Automated Savings,
suspends its idle warehouses. This directory holds TLA+ models of the parts whose
correctness depends on the order in which independent actors take their steps,
the configurations that model-check them with TLC, and proofs checked by TLAPS.
Paths below are relative to the repository root.

## 1. The system

| Part | Where | State | Operations |
|---|---|---|---|
| Automated Savings tick | `apps/auto-savings/.../engine.py`, `decision.py`, `warehouse_snapshot.py`, `store.py` | none between ticks | SHOW WAREHOUSES, list enrollments, per enrollment: skip, delete stale, authorize, suspend, record |
| Savings tables and RPCs | `supabase/migrations/202607120001_automated_savings.sql` | settings, enrollments (identity `created_on`, version `updated_at`), events | upsert, disable, authorize, delete stale, insert event |
| Savings API | `apps/api/app/routes/automated_savings.py` | none | agree, global switch, warehouse toggle (capture identity, then upsert), lists and statistics |
| Tenant loop | `apps/auto-savings/.../tenant_loop.py`, `snowflake_session.py` | attempt counter, stop event, warm connection, a thread | submit tick, time out, drain, back off, close |
| Supervisor | `tenant_loop.supervisor`, `main.py`, `sharding.py` | dict of running loops | enumerate, start, drain, recycle, drop, shut down |
| Dashboard run | `apps/api/app/routes/dashboard_runs.py`, `services/dashboard_datasets.py`, `parallel_source_runner.py` | in-memory run: status, datasets, source states, metadata | create, stream outcomes, finalize, view, claim and settle the deferred source, delete, expire |
| Run cache | `services/dashboard_run_cache.py`, `routes/dashboard_runs.py`, `routes/onboarding.py` | one row per organization, registry of snapshots | persist, load or reuse, fold deferred rows, drop |
| Authentication | `apps/api/app/auth.py`, `services/auth_cache.py`, `ttl_cache.py`, `membership_directory.py` | two TTL caches, two registries of fetches in flight, a generation | verify, look up, invalidate |
| Onboarding | `routes/onboarding.py`, `organizations.py`, `services/connect_rate_limit.py`, `org_provisioning.py`, `org_invitations.py`, the `2026061*` and `2026062*` migrations | two limiters; people, memberships, connections, keys in the vault | connect, disconnect, invite |
| Connection resolver | `shared/connect/.../org_connection_resolver.py` | none | read metadata, read secret, fingerprint |
| Snowflake client | `shared/connect/.../snowflake_client.py` | none | connect, query, classify errors |
| View builder | `services/dashboard_view_builder.py`, `cost_metrics.py`, `ai_consumption.py`, `dataset_bounds.py` | none | ranges, prices, sections, forecast, summary: pure functions of a run's rows |
| Web client | `apps/web/src` | query cache, epochs, polls, optimistic toggles | switch user or organization, poll, reveal, toggle |

How they interact. The worker and the API share only the Supabase tables; the
worker and the customer share the Snowflake account, where a warehouse name may be
dropped and created again at any time. Inside the worker one supervisor task starts
one asyncio task per organization; each runs its ticks on a pool thread and may
have to close the connection under that thread. Inside the API a run's worker
thread and pool threads write a repository that requests read under one lock; the
finished run goes to a durable row, from which later requests rebuild an in-memory
snapshot. Every request passes two caches whose misses share a fetch on the event
loop, while routes on other threads invalidate.

What is hard, and what makes each part correct:

* **Tick.** Five network calls per warehouse and no transaction across Postgres and
  Snowflake. Correct: a withdrawn consent lets at most the one authorized command
  through; a row rewritten since it was listed is neither authorized nor deleted;
  a warehouse that replaced the enrolled one under its name gets at most one command;
  the audit table never overstates; idle warehouses are suspended in the end.
* **Tenant loop.** A timed-out tick keeps its thread. Correct: ticks of a tenant
  never overlap, no connection leaks, a stop always ends in a closed session.
* **Supervisor.** Tables and connections change between its awaits. Correct: one
  loop per organization, no session lost, healthy loops left alone, convergence.
* **Dashboard run.** Rows and status are stored under two lock acquisitions; late
  threads outlive the worker. Correct: ready implies rows, sections only settle, a
  completed run renders, one deferred fetch at a time, rows expire together.
* **Run cache.** Read-modify-write of a row that others replace, and a registry
  that concurrent readers change. Correct: the row is one run's, an answer is the
  run that was read, nothing is served after a disconnect, except to a request that
  joined a retried fetch of the memberships.
* **Authentication.** Shared fetches, cancelled waiters, invalidations during a
  fetch, fetches that outlast the TTL. Correct: a cache answers with what is stale by
  less than a TTL, a fetch with what was true when it was sent, no stale publication,
  nobody waits for a fetch that is gone.
* **Onboarding.** Connecting and inviting are chains of remote calls without a
  transaction around them, in front of which stand limiters created without a lock.
  Correct: an account is never claimed twice, a limiter locks nobody out, success
  means what it says, a configuration is only handed out while its key exists.
* **View.** Rows arrive in any order and from sources that may be missing, and the
  same dollars are added up in several places. Correct: the sums agree, a poll is
  never refused, the numbers do not move when the run settles.

`PROJECT.json` lists every component with its status and the hazards line by line.

## 2. The modules

| Module | Models | Kind | Proofs |
|---|---|---|---|
| `SuspendPermit` | what Automated Savings promises about its commands | abstract | |
| `SuspendCycle` | the tick, the API, the tables, Snowflake's users | implements `SuspendPermit` | `SuspendCycle_proofs` |
| `TenantTick` | one tenant's loop, thread and connection | detailed | `TenantTick_proofs` |
| `Supervisor` | the supervisor and its loops | detailed | `Supervisor_proofs` |
| `RunLifecycle` | what a polling client relies on | abstract | |
| `DashboardRun` | one run: repository, worker, pool, requests | implements `RunLifecycle` | `DashboardRun_proofs` |
| `MembershipCache` | one user's slot of the membership cache, for `RunCache` and `Onboarding` | operators | |
| `RunCache` | the durable row, snapshots, readers, folds, disconnect | detailed | `RunCache_proofs` |
| `AuthCache` | token and membership caches | detailed | `AuthCache_proofs` |
| `AccountClaims` | who may hold a Snowflake account, and its key | abstract | |
| `Onboarding` | connect, disconnect, invite, resolve | implements `AccountClaims` | `Onboarding_proofs` |
| `SpendView` | the arithmetic of the views | operators | |
| `DashboardView` | the rows of a run as they land, and every view of them | uses `SpendView` | `DashboardView_proofs` |
| `MC_*` | symmetry sets, sample rows and a constraint for TLC | model checking | |

### SuspendCycle

One action per network call of the worker, because that is where others get in
between; the Python between two calls belongs to the next call. `ShowWarehouses` is
SHOW plus the correlation by unique name (`engine._correlate_snapshots`), with
names listed twice and unreadable `created_on` values as faults. `ListEnrollments`
takes the rows. `IsStale` and `EligibleCreatedOn` are the branches of
`_eligible_created_on` and `should_suspend`; `Skip`, `DeleteStaleEnrollment` and
`AuthorizeSuspend` are the three ways of the loop body, the latter two with the RPC's
own conditions (`RowMatches`, `Authorized`) on the snapshot's `created_on` and the
listed row's version. `SuspendAccepted`, `SuspendUnknown` (error 90064) and
`SuspendError` are the outcomes of ALTER WAREHOUSE; `RecordAcceptedEvent` may lose the
event; `AbortTick` is any propagated failure or a restart. On the API side
`CaptureWarehouseIdentity` and `UpsertEnrollment` are the two halves of enabling a
warehouse. Identities and row versions are counters per name.

`touched`, `late`, `lateOff`, `stray` and `outcome` are history: they record what the
properties speak about and guard nothing. `stray` counts the commands at a warehouse
that no enrollment has named since it replaced the enrolled one.

### TenantTick

`pc` is where `tenant_loop` awaits; `thread` is where the pool thread is. `Fail` is
the `except BaseException` of `run_tenant_once` with its two ways: a queued work item
is cancelled and leaves the session alone, a started one has the connection closed
under it and is waited for. `Timeout` may come although the thread has just finished:
`wait_for` decides by the clock. `Drained` closes once more, since the thread may have
reconnected. Two slots suffice: the current tick and its predecessor. The backoff
is the ceiling of `next_backoff`, in half seconds. A tick makes at least one call,
SHOW WAREHOUSES, which is the assumption on `MaxCalls`.

### Supervisor

`pc` names the awaits of one refresh; each organization of a phase is one step.
`StartLoop` is `_start_loop`, with session and fingerprint from one resolve. `Revalidate`
is the per-entry check; `DrainEntry`, `CloseDrained` and `PopDrained` are `_drain_loop`
around its await. `SwitchTenant` and `ChangeConnection` are what the API, and others, do
to the tables. A loop record is reused once its loop is over and its session closed
(`Reuse`), so a session that nobody closes keeps its record.

`Shutdown` is the cancellation of `main`. `awaited` are the drains that the supervisor
waits for, done or not, and `Resumes` is when `gather` gives the wait up: all are over, or
one that was cancelled has raised. So `Finally` and `Exit`, the finally clause and the
return, may run while other removed loops are still draining.

### DashboardRun

Each method of the repository is one step, because it holds the lock throughout.
`ExpireRun` is the lazy expiry that any of them may perform first. `StoreOutcome` then
`CompleteOutcome` are the two calls of `on_outcome`. `BuildDone` and `BuildRaises` end
the worker, the latter while pool threads may still deliver. `ClaimSource`,
`FetchDeferred` and `SettleDeferred` are one request for the deferred source.
`Effective`, `RollUp` and `OverviewStatus` are the reconciliation that a view applies.

### RunCache

Each call of the store is one step. `CreateRun` to `Upsert` is a worker, `LookUp` to
`Reuse` or `Load` a `/cached` request, `Claim` to `Patch` a deferred source and its fold
(`update_datasets_if_current` compares run id and completion time), `Invalidate` to
`FlushMemberships` a disconnect. The readers' requests are authorized by a slot of
`MembershipCache`: `LookUp` hits it, joins the fetch in flight or starts one,
`FetchMembership` reads, or reads again, and `Settle` answers everyone who waits.
`OthersInvalidate` is the invalidation of another user or organization, `CallFails`
any failed call, the fetch's included. A run is here a status, the run whose rows it
shows (`base`) and its deferred rows.

### AuthCache

One token of one user. A lookup is a hit (`VerifyHit`, `LookUpHit`), or a miss that joins
the fetch in flight or starts one (`VerifyMiss`, `LookUpMiss`): one step, since it runs on
the event loop without an await in between. A fetch takes any time, also more than a
TTL, because the HTTP client's timeouts are per phase (`http_pool.py:58`) and the TTL is
configured. `Verified` publishes until `VerifyDeadline`, counted from the start of the
fetch, and accepts everyone who waits; `VerifyFails` is a 401 or a 503. `ReadMemberships`,
`Publish`, `Refetch` and `AnswerRetried` are `_fetch_memberships`: the generation is
compared once, and an overtaken fetch is repeated once. `Invalidate` comes from
another thread at any time; `InvalidateOthers` is that of another user, who bumps the
one generation of the process too. `Cancel` is a client that hangs up; the shield keeps
the fetch. `accepted` and `answer` remember what the last step accepted or answered, and
when the fetch behind it was sent, for the properties.

### MembershipCache

The slot of one user as the modules need it whose requests are authorized by it: an
entry, and a shared fetch that is a first one, one that an invalidation has overtaken, or
its retry. Operators say what each step of the cache makes of a slot (`Joined`, `Fetched`,
`Invalidated`, `Refetched`, `Settled`, `Abandoned`); `RunCache` and `Onboarding` have the
actions. It has `AuthCache`'s races without its clock: an entry may expire at any time.

### Onboarding and AccountClaims

One action per remote call, each with its lost answer: the call took effect and the
request fails all the same. A Postgres function is one transaction. `SeeNoLimiter`
and `CreateLimiter` are the two halves of `get_connect_limiter` and
`get_invite_limiter`, which take no lock, so that two threads may each create a
limiter; `EnterGuard` and `LeaveGuard` are `guard`, whose rolling window may be full
at any time. `Validate`, `Provision` and `InvalidateUser` are `_validate_and_create`;
`Provision` has the unique index on active accounts. `AddStatus` is the order of
tests in `add_org_member_by_email`, which `AddMemberFirst` and `AddMemberAgain` call
before and after `InviteUser`. `ReadMetadata` and `ReadSecret` are the resolver's two
requests, used by the API and by the worker.

Every request begins with `Authenticate`, on its user's slot of `MembershipCache`: a hit, or
a fetch that is shared (`FetchMemberships`, `Authorize`, `FetchFails`). What the slot
answered is the request's `context`, by which the route then admits it or answers 403
(`Forbid`). `told` and `due` are history: the organizations that a user was told of, and
those among them that a request's memberships have to show. Owner and admin are one role
here: no route modelled tells them apart. An account is an identifier, as submitted and in
upper case, since that is what the unique index compares (`202606180001`, lines 26-28).

`AccountClaims` has two actions, `Claim` and `Release`. The mapping takes the account
of an active connection for the claim and the vault for the keys.

### SpendView and DashboardView

`SpendView` is a set of operators on the rows of a source, one per function or section
of the view builder: ranges (`ResolveRange`, `WindowStart`), metadata, the rate sheet
(`PutRate`, `RateIndex`, `PricePerCredit`), the amounts of each section, series,
ranking and bars, the forecast (`DaysToZero`, `Forecast`), the bounded users, the
summary. Dates, amounts and names are integers and storage dollars are counted in
thirtieths, which keeps every sum exact. `BuildView` puts a view together.

The rows of a source are a function from their places in the list, and a filter leaves
some of the places (`RestrictValues`): order and multiplicity are kept, and a
filtered list is a part of the list it came from. Only the rate sheet, whose order
decides, is read as a sequence. A sort is `Arranged`: it is given, for each element,
the elements that come before it, which is the sort key of the code.

`DashboardView` has as state what a view is computed from: the rows of each source, the
stored bounds, the status, the stored metadata and summary. `Land` and `LandDeferred`
store a source, `Finalize` and `Fail` settle the run as the build does, emptying a
group with a failed source and folding all but the top users into one. A view changes
nothing, so `ReadView` and `ReadSource` are operators, and the properties say what
every possible request would be answered in every reachable state.

`RowAssumption` asks of a row what its readers ask of it: a date, and numbers where the
code converts one (`_required_float_field` and its two nullable forms raise on anything
else). Compute credits and the credits attributed to queries are not negative:
`_warehouse_row_dollars` and `_warehouse_idle_pct` refuse rows that contradict it, and the
metering views meter use. All other amounts may have any sign. `ValueAssumption` has
`SummaryWindow` at least 1, which is `window_days > 0` of `DashboardRun` (`models.py:80`).

## 3. The runs

Every property has a seeded defect of the modelled code (an operator marked
"Mutant" in its module, never part of `Next`) under which TLC refutes it.

| Run | Instance | Shows |
|---|---|---|
| `savings` | 1 name, 2 identities, 3 row versions, 2 faults | `OneStrayCommand`; `AuthorizationSeesNoRewrite`; `DeleteSparesRewrite`; the permit protocol; `IdleWarehouseSuspended` |
| `savings_pair` | 2 names, 1 identity, 2 versions, 1 fault | `OneLateCommand`, also for the organization's switch, and `AuditAndCadence`: both need several commands in one tick |
| `tenant_tick` | 3 connections, 2 calls per tick, 4 attempts | `OneTickAtATime`, `NoLeakedConnection`, `StopReleases`, `TickSettles` |
| `supervisor` | 2 organizations, 4 loop records, 2 connection versions, 3 changes, 1 fault | `OneLoopPerOrg`, `NoSessionLost`, `HealthyLoopKept`, `ConvergesUnlessShutdown`, `ShutdownDrains` |
| `dashboard_run` | 3 gating sources, 2 requests and 2 fetches of the deferred source | `ReadyHasRows`, `OneDeferredFetch`, `RowsExpireTogether`, `SectionsOnlySettle`, the lifecycle, `DeferredSettles` |
| `run_cache` | 2 runs, 2 snapshots, 2 readers, 1 deferred request, 1 change | `RowIsOneRun`, `OneLiveSnapshot`, `NothingServedAfterDisconnect`, `AnswerIsTheCachedRun` |
| `auth_cache` | 2 requests, TTL 2, exp 3, clock to 4, 1 change, 2 invalidations | `NoStrandedWaiter`, `AcceptanceBounded`, `MembershipsBounded`, `FreshUnlessRetried` |
| `onboarding` | 2 people, 1 account, 2 threads, 4 requests, 2 organizations, 1 change | `LimiterTracksRequests`, `ConnectedIsVisible`, `InvitationsAttach`, `ResolvedIsLive`, the claims |
| `dashboard_view` | up to 3 rows over 8 sources, 28 sample rows, windows of 1 to 3 days | `RunningViewAnswers`, `SectionsAgree`, `RatesAreOrderFree`, `ForecastRunsOut`, `SettlingKeepsTheNumbers` |
| `savings_stale_delete`, `supervisor_exit`, `auth_retry` | small | the three disagreements of section 6 |

The type invariants are proved (section 4) and are not repeated in these runs. Each
inductive invariant of section 4 was first checked on the instance of its run.

Why the bounds are enough. Each property speaks of at most two things of a kind (an
old and a new identity, a listed and a rewritten row, a live and a draining loop, two
runs that race for the row), and each bound leaves room for one more event than the
shortest violation of its seeded defects needs. `savings` has three row versions:
enroll, disable and enroll again within one tick. Three connections let a thread
reconnect after a close and once more. Four loop records hold a live and a draining
loop of both organizations, and `StartLoop` always finds a free one: `ConvergesUnlessShutdown`
would fail if it did not. With two organizations, removed loops that are still draining
and entries that remain are not met together at a shutdown; three exceed what TLC can
do in minutes, so there the safety proofs, which are for any number, stand alone. The
clock of `auth_cache` runs two units past the TTL and one past exp, so that a fetch may
outlast both; two invalidations overtake a fetch and its retry. `onboarding` needs four requests: one to connect, one that invites, a
disconnect and a resolution around it. `dashboard_view` needs three rows, since two rates
for one usage, or two days of one service and a gap, are the smallest inputs on which
its sums could differ; windows are one to three days long where the code has 7, 30 and
90, since only their ends matter.

`run_cache` explores two requests at a time (`TwoAtATime`): every race in question is
between two readers, or a reader and a fold, next to both workers and the disconnect.
Symmetry is declared over warehouse names, requests, runs, snapshots and readers, and
only in runs without liveness.

`CHECK_DEADLOCK FALSE` stands where the system may really stop: a released tenant, an
exited supervisor, a deleted run, spent clocks and bounds.

### Fairness

* `SuspendCycle`: weak fairness of the tick's steps. `tenant_loop` starts the next tick
  after a bounded wait and each call has a timeout. Nothing is assumed of the API
  or of Snowflake's users.
* `TenantTick`: weak fairness of the loop's steps, and of a thread that has
  *started*: its calls have timeouts. A free pool thread is not assumed, so a tick may
  stay queued for ever.
* `Supervisor`: weak fairness of the supervisor's steps, of the drains it awaits and of
  a loop told to stop, which is `StopReleases` of `TenantTick`.
* `DashboardRun`: weak fairness of a request's own fetch and settlement. The fetch runs
  its branches on the same pool as the base queries (`ai_consumption.py:149`,
  `parallel_source_runner.py:74`), so it ends because every query there ends, its own
  or one that it queues behind, by the timeouts given to the driver (`snowflake_client.py:141`). The run's worker need not finish, and
  clients may stop polling.

`RunCache`, `AuthCache`, `Onboarding` and `DashboardView` state safety only: their
requests end by timeouts of libraries, and nothing waits for them.

## 4. The proofs

Each proof module holds for all values of its constants: any set of warehouses, loops,
organizations, requests, runs, sources or people, any rows and prices, and any bound. The assumptions are the
named ones of the modules: bounds are naturals, a null value is none of the data, and
where the code relies on more it is said below. The argument is everywhere the
same: an invariant `IInv` that is inductive, one step per action, each property from
`IInv` or from one step under it.

| Module | `IInv` is `TypeOK` and ... | Theorems |
|---|---|---|
| `SuspendCycle_proofs` | `VersionInv`, `LateInv`, `StrayInv`; apart from them `LedgerInv` | `TypeCorrectness`, `LateCommandsBounded`, `AuthorizationIsVersioned`, `DeletionIsVersioned`, `LedgerIsHonest`, `StraysBounded`, `Refinement` |
| `TenantTick_proofs` | `TickInv`, `SessionInv`; apart from them `BusyInv`, `VerdictInv`, `WaitInv` | `TypeCorrectness`, `TicksExclude`, `NothingLeaks`, `BackoffIsCapped`, `WaitsAreBounded` |
| `Supervisor_proofs` | `EntryInv`, `PhaseInv` | `TypeCorrectness`, `LoopsExclude`, `SessionsAreKept`, `HealthyLoopsStay` |
| `DashboardRun_proofs` | `RunInv`, `RowsInv`, `DeferredInv`, `ShownInv` | `TypeCorrectness`, `StatusHasRows`, `RetentionIsShared`, `DeferredFetchIsAlone`, `ShownSettles`, `Refinement`, `CompletedRunsRender` |
| `RunCache_proofs` | `HoldInv`, `RowsInv`, `StampInv`, `SnapshotInv`, `DisconnectInv` | `TypeCorrectness`, `RowsNeverMix`, `SnapshotsReplaced`, `AnswersAreTheRow`, `DisconnectHolds` |
| `AuthCache_proofs` | `Announced`, `ClockInv`, `TokenInv`, `MemberInv`, `FreshInv` and the four properties | `TypeCorrectness`, `NobodyStranded`, `RevocationBounded`, `StalenessBounded`, `InvalidationHolds` |
| `Onboarding_proofs` | `RequestInv`, `GuardInv`, `ConnectionInv`; with them `VisibleInv` | `TypeCorrectness`, `LimitersTrack`, `ConnectionIsVisible`, `InvitationsAreSound`, `ResolutionIsLive`, `Refinement`, `AccountsAreHeldOnce` |
| `DashboardView_proofs` | `DataOK`, `BoundsOK`, `Landed`, `SettledFrom` | `Inductive`, `RunningViewIsAnswered`, `RatesNeverDependOnOrder`, `ForecastEndsAtZero`, `EveryTotalAgrees`, `BoundedSum`, `SettlingIsSeamless` |

Why the strengthenings are needed:

* `SuspendCycle`. Neither property about rewrites is inductive: that a match means
  "untouched" follows from versions never being reissued, hence from stamps
  bounding every row and every listed copy, and from rows written after the listing
  being strictly newer (`VersionInv`). `LateInv` adds that the counters are zero while
  consent lasts and while an authorization is in hand. `StrayInv`: a tick can only command a
  warehouse that its row does not name when its snapshot is older than that warehouse; only
  the tick that was running when the name was recreated has such a snapshot, and it
  takes each name once. `LedgerInv` says the latter of what is recorded: a warehouse is
  taken once in a tick, so what is recorded of it stays true.
* `TenantTick`. The properties look at two slots and at what is open; `TickInv` says
  where the loop knows each slot to be, the earlier one always over, and `SessionInv`
  that what is open is the session's one connection, a connecting thread having found
  none. The second close after the drain is what keeps it: without it the
  thread of a timed-out tick may have reconnected. `BackoffIsCapped` goes through the
  recursion of `Ceiling`: it starts at the base, never falls and never passes the cap;
  hence no wait exceeds 30 seconds after any number of failures. `BusyInv` counts a
  thread's calls together with where it stands.
* `Supervisor`. `EntryInv` ties the dict, the drains and the loops together: whoever runs
  or holds a session is an entry or is being drained. `PhaseInv` says that nothing starts while anything drains, that a
  recycled entry stays in the dict until its drain is over, and that only a shutdown
  leaves drains behind. One loop per organization follows from the two (`HeldIsUnique`).
* `DashboardRun`. `RunInv`: while the run is running its source states are those of its
  jobs, so a late thread can only repeat what is there. `DeferredInv`: whoever
  fetches holds the claim. `ShownInv` relates the next view to the last one shown,
  which is what makes "only settles" inductive; it holds because the gating sources
  are among the base sources (`SourceAssumption`).
* `RunCache`. `RowsInv`: every row, stored or in a reader's hand, was written by one
  worker. `StampInv`: no two runs share a `completed_at`, which the code compares instead
  of the run's id. `SnapshotInv`: a completed snapshot is the registered one.
  `DisconnectInv`: once the disconnect has returned, neither the entry of the user's slot nor
  a first fetch, which may still become one, shows the connection; so a reader that began
  later knows better, unless it waits for a retry that it joined.
* `AuthCache`, for a TTL of at least a second and fetches of any length. `TokenInv` and
  `MemberInv` say that what is cached, or in flight, was true when it was asked for, and
  that an entry's deadline counts from there; so an entry dies within a TTL of the
  moment it stopped being true, while a late answer can only be one that was sent
  for in time. `ClockInv` orders the moments of a fetch. `FreshInv` says that a fetch whose
  generation is current has seen every announced change.
* `Onboarding`. `GuardInv` says both ways that a limiter's users are those of the requests
  inside, one each; `RequestInv` what a request knows at each place, for instance that a
  resend is only reached by a member; `ConnectionInv` that a key is kept exactly as long as
  its connection is active, hence that reading a key shows that the connection is
  active at that moment. `VisibleInv` is for `ConnectionIsVisible`: neither an entry nor a
  first fetch that may become one misses an organization its user was told of, because
  the invalidation comes before the answer (`SlotInv`, `NewInv`), and what a retry has read
  shows whatever is due to those who waited before it was one (`AuthInv`).
* `DashboardView`. `DataOK` types the rows and says that there are finitely many, without
  which no sum means anything. `BoundsOK`: every row of a base source lies within the stored
  bounds, so the through date of a running run, which is the date of one of its rows, does
  too, and the clamped window is never empty nor outside the bounds. `SettledFrom`: the stored
  metadata and summary are those of the stored rows, which relates the summary of a
  completed run to the view of it. A running run has no stored metadata, its users are
  still unbounded, and a source that has landed has rows (`Landed`), so that an
  available group is recognized by its rows: `SettlingIsSeamless` begins there.

Three refinements are proved: each step of `SuspendCycle`, `DashboardRun` and `Onboarding`
is a step of `SuspendPermit`, `RunLifecycle` and `AccountClaims`, or a stutter. Two facts
are drawn from them, by proving the abstract promise of every abstract state and
reading it through the mapping: `AccountsAreHeldOnce` and `CompletedRunsRender`.

### The arithmetic of the views

The sums of `SpendView` are the folds of the community modules, which unfold by choosing
one element of a finite set after the other. `NatSetInduction` and `FiniteSetInduction` are
induction with a set of numbers, or of sets, in place of a predicate: both are proved
from the well-foundedness of the orders, by a smallest counterexample. From them follow, in this
order: a sum exists and does not depend on the elements chosen (`SumExists`,
`AddsAnywhere`), sums over parts, zeros and pairs of functions (`SumSubset`, `SumPlus`),
and the three that the views need: `SumSwap` (rows first or days first), `SumFibers`
(rows, or rows by name), `SumReindex` (the same rows in another order).

* *Totals.* `SectionOfAmounts` states once, for any amounts within a range, that the series
  and the ranking add up to the amounts; each section is then shown to make such
  amounts of its rows. `ArrangedSorts` says that a sort lists every element once, for any
  strict total order; it is what keeps a name from being lost or counted twice among
  ties. Bars are percentages because the first of a ranking has the greatest spend.
* *Rates.* `SheetGrows` is the loop invariant of `_build_rate_index`: after each row every
  entry is the best rate of the rows so far under its key, COMPUTE rates before others where
  the key has no rating. The property compares it with the set of all rows.
* *Forecast.* `DaysToZeroCovers` is the division rounded up: the last day but one is
  above zero, the last one at or below.
* *Users.* `BoundedSum`: folding the users below the top into one per date and warehouse keeps every
  sum of credits weighted by date, and the price of a user's credits depends on
  the date only. Hence the users cost the same in every range before and after.
* *Settling.* The stored metadata equals the reconstructed one, the range of the settled request
  is the clamped range of the running one wherever it is not refused, and all sources but
  the users are read unchanged.

Only model-checked: the six liveness properties (`IdleWarehouseSuspended`, `StopReleases`,
`TickSettles`, `ConvergesUnlessShutdown`, `ShutdownDrains`, `DeferredSettles`), since fairness and
ENABLED are beyond the prover. Every other property of a passing run is a theorem.

## 5. What is abstracted or left out

* An ALTER that takes effect after its tick has ended. `SuspendUnknown` covers
  executed or not, at the time of the call.
* `should_suspend` is one verdict per incarnation and moment; its fields (type,
  state, activity, uptime floor) are not modelled one by one.
* The version `updated_at` is taken to be never reissued; in Postgres it is a
  microsecond timestamp written by a trigger.
* A tick runs whatever `worker_tenants` says now: that is `Supervisor`'s matter.
* The executor is one pool that runs an item once or not at all. The per-tenant
  lock of the session is folded into the thread's steps.
* A second cancellation of the supervisor during its finally clause.
* The optional capacity source, which gates no section. Rows themselves: a dataset is
  stored or not, with the clock that expires it.
* The API is one process with in-memory state, as deployed; another replica
  appears in `AuthCache` only as unannounced changes.
* `reset()` of the caches at start and shutdown, and the passthrough of a TTL of 0, where
  nothing is cached or shared.
* A drain of the supervisor that is cancelled before its first step, whose session would
  stay open until the process ends.
* One Snowflake account under two spellings, an organization-and-account name and a locator: the
  code compares identifiers, and so do the models.
* `Settings()` after a deferred source is claimed (`dashboard_runs.py:1314`): it stands
  outside the `try`, so an exception there would leave the claim pending.
* Work-email and account syntax, `validate_snowflake_connection` itself and the audit
  events of onboarding. Memberships that an admin inserts through the row policies
  past the API are not modelled, roles changed or removed there are.
* Of the views: floating point, labels, the monthly projection, the daily average, the
  line of billed storage, demo mode, and the errors raised for malformed rows. Currencies of
  rates: among equal rates of different currencies the first row's wins, so that whether
  a price is shown as unsupported may depend on the order of the rows.
* A row written by a deferred fold and expired in the same instant; retention is a
  nondeterministic event.

Not modelled:

* **The web client.** Its state lives in an external query library (keys, cancellation,
  stale times) of which `src/` only shows the calls, and in React's effects; a
  model would be mostly a model of those. The hazard is listed: an answer of a
  superseded run, user or organization that arrives after the switch.
* **The Snowflake client.** Loading a key, running a query and classifying an error around
  an external driver; each call is one outcome in `DashboardRun` and `TenantTick`.
* **HTTP pool, lifespan, configuration, audit log.** Wiring and I/O.
* **Demo data, presentation, contracts, authentication pages, SQL text.** No state that is
  shared between actors.

## 6. Where the code and its texts disagree

Three disagreements are kept as runs, each with TLC's counterexample:

* `savings_stale_delete`: the snapshot is older than the list of enrollments, so a
  recreation and enrollment in between is judged stale and removed, although
  it names the live warehouse (`engine.py:274`).
* `supervisor_exit`: a shutdown during a recycle leaves a cancelled entry in the dict;
  its second drain raises at once and `gather` returns before the others are drained
  (`tenant_loop.py:487`). `ShutdownDrains` still holds: the sessions close later.
* `auth_retry`: a request after a second invalidation joins the retry in flight and
  reads what the retry had read (`auth_cache.py:259`).

Others were met while modelling. The models have the behaviour, no run is kept:

* A fetch slower than the TTL accepts whoever waits for it, joined at the end included, on
  the word of an auth server that answered more than a TTL ago; `auth_cache.py:3-6` calls
  the TTL the maximum revocation delay. `AcceptanceBounded` and `MembershipsBounded`
  have a second disjunct for it. What is cached keeps the bound.
* The retry of `auth_retry` reaches further than one answer: a request that joins it after a
  disconnect may be served the cached run, and one that joins it after a connect may be
  refused by the new organization. `NothingServedAfterDisconnect` and
  `ConnectedIsVisible` exempt exactly these requests and fail without the exemption.
* Neither the toggle nor the upsert reads `agreed_at`, though
  `docs/automated-savings.md` says an organization must agree before it can enroll. The
  models leave the recorded time out, since nothing else reads it.
* A cancellation that lands in the drain of a timed-out tick leaves
  `run_tenant_once` with the thread still running (`tenant_loop.py:179`); `interrupted`
  exempts that case from `NoLeakedConnection`. No further tick is submitted then, and
  `StopReleases` still closes the session.
* A shutdown during a drain signals the other tenants only when that drain has ended or
  raised (`tenant_loop.py:322`).
* A deferred fetch that fails after its run was dropped records a state for it
  (`dashboard_runs.py:637`).
* A run deleted or expired before finalization is persisted all the same
  (`dashboard_runs.py:1830`).
* A registered snapshot past its retention is reused and then refused by its view
  (`dashboard_runs.py:1021`).
* `upsert` is unconditional, so a delayed worker replaces a newer run by its older
  one (`dashboard_run_cache.py:149`), though `RunCacheStore` (line 39) promises to read the
  latest one.
* Deferred rows of a snapshot are folded into the row of a newer run
  (`dashboard_runs.py:1394`).
* Provisioning whose answer is lost is reported as 502, though the organization exists;
  the cached memberships are not invalidated then, and the owner's retry is
  answered 409, with the advice to ask the owner for an invitation.
* Two first requests may create two connect limiters, each with its own counts
  (`connect_rate_limit.py:74`), so that a user may have two attempts in flight, which
  line 21 rules out.
* Who disconnects is checked by the route against cached memberships only; the Postgres
  function does not check again, as the one for invitations does.
* A running run ignores the dates of a custom range and clamps its window, so the same
  request may be answered while the run is streaming and refused with 409 once it has
  settled with less data than the window asks for.
* `_price_for_database_latest` ends in `or fallback`, so a billed rate of zero is
  replaced by the configured price (`dashboard_view_builder.py:1605`), against the comment
  at line 1586.
* Databases are ranked by the period's spend and their bars drawn from the month's, against
  the first in rank, so a bar may be wider than 100 percent.
* The details of a warehouse price its compute credits only, the section's total all of
  its credits.
* A deferred source that ends before its run is persisted never reaches the cache
  (`dashboard_runs.py:1374`).

## 7. Plan

Done: Automated Savings (`SuspendPermit`, `SuspendCycle`, `TenantTick`, `Supervisor`), the
dashboard (`RunLifecycle`, `DashboardRun`, `RunCache`, `SpendView`, `DashboardView`),
authentication (`AuthCache`), onboarding and the resolver (`AccountClaims`, `Onboarding`).

The modules meet at contracts instead of in one large composition. `RunCache` and
`Onboarding` share the slots of `MembershipCache`, which have the retry that
`FreshUnlessRetried` of `AuthCache` exempts; that a slot does what `AuthCache` does is by
its map, not by a proof.
`Supervisor` uses that a loop told to stop ends, which is `StopReleases` of `TenantTick`.
`Onboarding` uses a disconnect as one transaction and leaves the cached run to `RunCache`.
`DashboardView` takes the order in which sources land and settle from `DashboardRun`.

What is left, in this order: the request generations and polls of the web client, with
the query library as an external module; the optimistic toggles of the savings panels
against their answers; the order of the lifespan's teardown; a composition that
follows one organization's connection from `Onboarding` through `RunCache`.

## 8. Running

    tlasany SuspendCycle.tla
    tlc -workers 2 -config MC_SuspendCycle.cfg MC_SuspendCycle
    tlapm SuspendCycle_proofs.tla

Each run of section 3 names its module and configuration in `PROJECT.json`; each ends
within a minute or two on a laptop. The proofs take a few seconds to a
few minutes each, those of `DashboardView_proofs` longest.
