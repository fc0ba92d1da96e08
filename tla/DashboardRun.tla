---------------------------- MODULE DashboardRun ----------------------------
(***************************************************************************)
(* One dashboard run of the API process (apps/api/app/routes/               *)
(* dashboard_runs.py): the lock-guarded in-memory repository, the worker    *)
(* thread that drives the base sources through the query pool, the pool     *)
(* threads that stream each outcome into the repository, and the requests   *)
(* that read, delete and extend the run meanwhile. Every method of the      *)
(* repository is one step, since it holds the lock throughout; expiry is    *)
(* lazy, a side effect of whichever method looks first.                     *)
(*                                                                         *)
(* Rows are abstracted to "stored", with the clock that expires them. The   *)
(* optional capacity source gates nothing and is left out.                  *)
(***************************************************************************)
EXTENDS Naturals, FiniteSets

CONSTANTS
    AccountSource,    \* base sources of the Account Usage group
    OrgSource,        \* base sources of the Organization Usage group
    EstimatedBasis,   \* service_spend_daily
    BilledBasis,      \* org_spend_daily
    WarehouseBasis,   \* warehouse_spend_daily
    Deferred,         \* the deferred source
    Requester,        \* concurrent requests for the deferred source
    MaxFetches        \* bound: deferred fetches of one run

ASSUME SourceAssumption ==
    /\ {EstimatedBasis, WarehouseBasis} \subseteq AccountSource
    /\ BilledBasis \in OrgSource
    /\ AccountSource \cap OrgSource = {}
    /\ Deferred \notin AccountSource \cup OrgSource
ASSUME BoundAssumption == MaxFetches \in Nat

Base    == AccountSource \cup OrgSource
Key     == Base \cup {Deferred}
Gating  == {EstimatedBasis, WarehouseBasis, BilledBasis}
Section == {"overview", "warehouse"}

VARIABLES
    status,      \* DashboardRun.status
    datasets,    \* _datasets: which clock expires the stored rows, or "absent"
    states,      \* _source_states, "idle" where there is no entry
    metadata,    \* _metadata: the groups available at finalize, "none" if not stored
    deadline,    \* the running deadline has passed
    aged,        \* retention clocks that have passed
    job,         \* each base source's job
    worker,      \* the worker thread
    request,     \* each request for the deferred source
    fetches,     \* deferred fetches so far
    shown        \* history: section statuses of the last view served

repository  == <<status, datasets, states, metadata>>
clocks      == <<deadline, aged>>
workerVars  == <<job, worker>>
requestVars == <<request, fetches>>
vars == <<status, datasets, states, metadata, deadline, aged, job, worker, request, fetches, shown>>

Gone     == {"expired", "deleted"}
Terminal == Gone \cup {"completed", "failed"}
Group    == {"account_usage", "organization_usage"}

TypeOK ==
    /\ status \in Terminal \cup {"running"}
    /\ datasets \in [Key -> {"absent", "run", "fallback"}]
    /\ states \in [Key -> {"idle", "pending", "ready", "completed", "unavailable", "failed"}]
    /\ metadata \in {{"none"}} \cup SUBSET Group
    /\ deadline \in BOOLEAN
    /\ aged \in SUBSET {"run", "fallback"}
    /\ job \in [Base -> {"none", "queued", "fetched", "lost", "stored", "landed", "unavailable",
                         "crashed"}]
    /\ worker \in {"resolving", "fetching", "over"}
    /\ request \in [Requester -> {"idle", "fetching", "fetched", "raised"}]
    /\ fetches \in 0..MaxFetches
    /\ shown \in [Section -> {"none", "pending", "ready", "unavailable"}]
    \* a dropped run holds no rows, a settled one no streaming state
    /\ status \in Gone => metadata = {"none"} /\ \A k \in Key : datasets[k] = "absent"
    /\ status = "completed" => \A s \in Base : states[s] = "ready"
    /\ status = "running" => \A s \in Base : states[s] \in {"pending", "ready", "unavailable"}

Nothing(value) == [k \in Key |-> value]

\* create_running_run, or create_completed_snapshot for a cached run, which may
\* carry the deferred rows and may lack metadata.
Init ==
    /\ \/ /\ status = "running" /\ worker = "resolving"
          /\ datasets = Nothing("absent") /\ metadata = {"none"}
          /\ states = [k \in Key |-> IF k \in Base THEN "pending" ELSE "idle"]
       \/ /\ status = "completed" /\ worker = "over"
          /\ metadata \in {{"none"}} \cup ((SUBSET Group) \ {{}})
          /\ \E carried \in BOOLEAN :
               /\ datasets = [k \in Key |-> IF k \in Base \/ carried THEN "run" ELSE "absent"]
               /\ states = [k \in Key |-> IF k \in Base THEN "ready"
                                          ELSE IF carried THEN "completed" ELSE "idle"]
    /\ deadline = FALSE /\ aged = {}
    /\ job = [s \in Base |-> "none"]
    /\ request = [r \in Requester |-> "idle"] /\ fetches = 0
    /\ shown = [c \in Section |-> "none"]

-----------------------------------------------------------------------------
(* The repository.                                                          *)

\* _expire_run_locked
ExpireRun ==
    /\ status' = "expired"
    /\ datasets' = Nothing("absent")
    /\ states' = Nothing("idle")
    /\ metadata' = {"none"}

Stale     == status = "running" /\ deadline            \* what _is_running_locked expires
IsExpired == \E k \in Key : datasets[k] \in aged       \* _is_run_expired

SetDataset(s) ==
    IF Stale THEN ExpireRun
    ELSE IF status # "running" THEN UNCHANGED repository
    ELSE /\ datasets' = [datasets EXCEPT ![s] = "run"]
         /\ UNCHANGED <<status, states, metadata>>

\* Deferred rows inherit the retention of the rows already stored; the fallback
\* of seven days applies while there are none.
InheritedClock ==
    IF \E k \in Key : datasets[k] = "run" THEN "run" ELSE "fallback"

\* Mutant: a late base source updates a settled run.
CompleteSourceLate(k) ==
    IF Stale THEN ExpireRun
    ELSE IF status \in Gone THEN UNCHANGED repository
    ELSE /\ states' = [states EXCEPT ![k] = IF k \in Base THEN "ready" ELSE "completed"]
         /\ datasets' = IF k \in Base THEN datasets ELSE [datasets EXCEPT ![k] = InheritedClock]
         /\ UNCHANGED <<status, metadata>>

CompleteSource(k) ==
    IF Stale THEN ExpireRun
    ELSE IF status \in Gone \/ (k \in Base /\ status # "running") THEN UNCHANGED repository
    ELSE /\ states' = [states EXCEPT ![k] = IF k \in Base THEN "ready" ELSE "completed"]
         /\ datasets' = IF k \in Base THEN datasets ELSE [datasets EXCEPT ![k] = InheritedClock]
         /\ UNCHANGED <<status, metadata>>

\* A failed deferred source is recorded whatever the status of the run.
FailSource(k) ==
    IF Stale THEN ExpireRun
    ELSE IF k \in Base /\ status # "running" THEN UNCHANGED repository
    ELSE /\ states' = [states EXCEPT ![k] = IF k \in Base THEN "unavailable" ELSE "failed"]
         /\ UNCHANGED <<status, datasets, metadata>>

\* Mutants: finalize replaces the datasets and states wholesale, keeps the
\* deferred rows' own clock, or does not check that the run is still running.
FinalizeWipesDeferred(how, groups) ==
    IF Stale THEN ExpireRun
    ELSE IF status # "running" THEN UNCHANGED repository
    ELSE /\ status' = how
         /\ metadata' = groups
         /\ datasets' = [k \in Key |-> IF k \in Base /\ how = "completed" THEN "run" ELSE "absent"]
         /\ states' = [k \in Key |-> IF k = Deferred THEN "idle"
                                     ELSE IF how = "completed" THEN "ready" ELSE "unavailable"]

FinalizeKeepsClock(how, groups) ==
    IF Stale THEN ExpireRun
    ELSE IF status # "running" THEN UNCHANGED repository
    ELSE /\ status' = how
         /\ metadata' = groups
         /\ datasets' = [k \in Key |-> IF k = Deferred THEN datasets[k]
                                       ELSE IF how = "completed" THEN "run" ELSE "absent"]
         /\ states' = [k \in Key |-> IF k = Deferred THEN states[k]
                                     ELSE IF how = "completed" THEN "ready" ELSE "unavailable"]

FinalizeAnyway(how, groups) ==
    /\ status' = how
    /\ metadata' = groups
    /\ datasets' = [k \in Key |-> IF k = Deferred THEN datasets[k]
                                  ELSE IF how = "completed" THEN "run" ELSE "absent"]
    /\ states' = [k \in Key |-> IF k = Deferred THEN states[k]
                                ELSE IF how = "completed" THEN "ready" ELSE "unavailable"]

\* finalize_run: a completed run stores every base key, a failed one none; the
\* deferred rows stay and get the run's own retention.
FinalizeRun(how, groups) ==
    IF Stale THEN ExpireRun
    ELSE IF status # "running" THEN UNCHANGED repository
    ELSE /\ status' = how
         /\ metadata' = groups
         /\ datasets' = [k \in Key |->
                           IF k = Deferred THEN (IF datasets[k] = "absent" THEN "absent" ELSE "run")
                           ELSE IF how = "completed" THEN "run" ELSE "absent"]
         /\ states' = [k \in Key |-> IF k = Deferred THEN states[k]
                                     ELSE IF how = "completed" THEN "ready" ELSE "unavailable"]

-----------------------------------------------------------------------------
(* The worker thread and the pool threads (_run_dashboard_worker,           *)
(* build_snowflake_dashboard_data, run_sources_parallel).                   *)

\* Without an account locator the organization's sources are skipped.
ResolveLocator ==
    /\ worker = "resolving"
    /\ worker' = "fetching"
    /\ \E submitted \in {Base, AccountSource} :
         job' = [s \in Base |-> IF s \in submitted THEN "queued" ELSE "none"]
    /\ UNCHANGED <<repository, clocks, requestVars, shown>>

\* The query returns rows, fails as unavailable, or raises something else.
FetchSource(s) ==
    /\ job[s] = "queued"
    /\ job' \in {[job EXCEPT ![s] = result] : result \in {"fetched", "lost", "crashed"}}
    /\ UNCHANGED <<repository, worker, clocks, requestVars, shown>>

\* on_outcome: the rows first, then the status, each under the lock.
StoreOutcome(s) ==
    /\ job[s] = "fetched"
    /\ job' = [job EXCEPT ![s] = "stored"]
    /\ SetDataset(s)
    /\ UNCHANGED <<worker, clocks, requestVars, shown>>

CompleteOutcome(s) ==
    /\ job[s] = "stored"
    /\ job' = [job EXCEPT ![s] = "landed"]
    /\ CompleteSource(s)
    /\ UNCHANGED <<worker, clocks, requestVars, shown>>

\* Mutant: the status first, then the rows.
CompleteBeforeStore(s) ==
    /\ \/ job[s] = "fetched" /\ CompleteSource(s) /\ job' = [job EXCEPT ![s] = "stored"]
       \/ job[s] = "stored" /\ SetDataset(s) /\ job' = [job EXCEPT ![s] = "landed"]
    /\ UNCHANGED <<worker, clocks, requestVars, shown>>

StreamOutcome(s) == StoreOutcome(s) \/ CompleteOutcome(s)

FailOutcome(s) ==
    /\ job[s] = "lost"
    /\ job' = [job EXCEPT ![s] = "unavailable"]
    /\ FailSource(s)
    /\ UNCHANGED <<worker, clocks, requestVars, shown>>

Landed(sources) == \A s \in sources : job[s] = "landed"

\* _group_from_outcomes: one lost source collapses its group.
AvailableGroups == {g \in Group : Landed(IF g = "account_usage" THEN AccountSource ELSE OrgSource)}

\* Every submitted job is over.
BuildDone ==
    /\ worker = "fetching"
    /\ \A s \in Base : job[s] \in {"none", "landed", "unavailable"}
    /\ worker' = "over"
    /\ IF AvailableGroups = {} THEN FinalizeRun("failed", {"none"})
                               ELSE FinalizeRun("completed", AvailableGroups)
    /\ UNCHANGED <<job, clocks, requestVars, shown>>

\* An exception anywhere in the build, or in the success finalize itself: the
\* run fails while other jobs may still be at work.
BuildRaises ==
    /\ \/ worker = "resolving"
       \/ worker = "fetching" /\ \/ \E s \in Base : job[s] = "crashed"
                                 \/ \A s \in Base : job[s] \in {"none", "landed", "unavailable"}
    /\ worker' = "over"
    /\ FinalizeRun("failed", {"none"})
    /\ UNCHANGED <<job, clocks, requestVars, shown>>

-----------------------------------------------------------------------------
(* Requests.                                                                *)

\* get_run, which every route calls first.
GetRun ==
    /\ Stale
    /\ ExpireRun
    /\ UNCHANGED <<clocks, workerVars, requestVars, shown>>

\* _reconcile_completed_source_statuses
Effective(s) ==
    IF /\ status # "running" /\ metadata # {"none"} /\ s \in Gating
       /\ (IF s \in AccountSource THEN "account_usage" ELSE "organization_usage") \notin metadata
    THEN "unavailable" ELSE states[s]

RollUp(state) == IF state = "ready" THEN "ready"
                 ELSE IF state \in {"unavailable", "failed"} THEN "unavailable" ELSE "pending"

\* _overview_status: either basis while streaming, the basis of the finalized
\* mode afterwards. (Metadata rebuilt from rows is billed when organization rows
\* are stored, as they are in a snapshot.)
OverviewStatus ==
    LET either == {Effective(BilledBasis), Effective(EstimatedBasis)}
        billed == IF metadata = {"none"} THEN datasets[BilledBasis] # "absent"
                                         ELSE "organization_usage" \in metadata
    IN  IF status # "running" THEN RollUp(Effective(IF billed THEN BilledBasis ELSE EstimatedBasis))
        ELSE IF "ready" \in either THEN "ready"
        ELSE IF either \subseteq {"unavailable", "failed"} THEN "unavailable" ELSE "pending"

\* read_dashboard_run_view, from get_view_inputs on: one consistent snapshot.
View ==
    /\ status \notin Gone
    /\ IF IsExpired THEN ExpireRun /\ UNCHANGED shown
       ELSE /\ shown' = [c \in Section |-> IF c = "overview" THEN OverviewStatus
                                           ELSE RollUp(Effective(WarehouseBasis))]
            /\ UNCHANGED repository
    /\ UNCHANGED <<clocks, workerVars, requestVars>>

DeleteRun ==
    /\ status' = "deleted"
    /\ datasets' = Nothing("absent") /\ states' = Nothing("idle") /\ metadata' = {"none"}
    /\ UNCHANGED <<clocks, workerVars, requestVars, shown>>

\* trigger_dashboard_source: claim_source ...
Claimable == status \in {"running", "completed"} /\ states[Deferred] \notin {"pending", "completed"}

ClaimSource(r) ==
    /\ request[r] = "idle" /\ fetches < MaxFetches
    /\ IF Stale \/ (status = "completed" /\ IsExpired) THEN ExpireRun /\ UNCHANGED requestVars
       ELSE /\ Claimable
            /\ states' = [states EXCEPT ![Deferred] = "pending"]
            /\ request' = [request EXCEPT ![r] = "fetching"]
            /\ fetches' = fetches + 1
            /\ UNCHANGED <<status, datasets, metadata>>
    /\ UNCHANGED <<clocks, workerVars, shown>>

FetchDeferred(r) ==
    /\ request[r] = "fetching"
    /\ request' \in {[request EXCEPT ![r] = result] : result \in {"fetched", "raised"}}
    /\ UNCHANGED <<repository, clocks, workerVars, fetches, shown>>

\* Mutant: a failed fetch leaves the claim in place.
SettleOnlySuccess(r) ==
    /\ request[r] \in {"fetched", "raised"}
    /\ request' = [request EXCEPT ![r] = "idle"]
    /\ IF request[r] = "fetched" THEN CompleteSource(Deferred) ELSE UNCHANGED repository
    /\ UNCHANGED <<clocks, workerVars, fetches, shown>>

\* ... and complete_source or fail_source when the fetch is over.
SettleDeferred(r) ==
    /\ request[r] \in {"fetched", "raised"}
    /\ request' = [request EXCEPT ![r] = "idle"]
    /\ IF request[r] = "fetched" THEN CompleteSource(Deferred) ELSE FailSource(Deferred)
    /\ UNCHANGED <<clocks, workerVars, fetches, shown>>

-----------------------------------------------------------------------------

\* Minutes for the deadline, days for retention: rows age only after the run.
DeadlinePasses == /\ ~deadline
                  /\ deadline' = TRUE
                  /\ UNCHANGED <<repository, aged, workerVars, requestVars, shown>>
RowsAge(clock) == /\ status # "running" /\ clock \notin aged
                  /\ aged' = aged \cup {clock}
                  /\ UNCHANGED <<repository, deadline, workerVars, requestVars, shown>>

Next ==
    \/ ResolveLocator
    \/ \E s \in Base : FetchSource(s) \/ StreamOutcome(s) \/ FailOutcome(s)
    \/ BuildDone
    \/ BuildRaises
    \/ GetRun
    \/ View
    \/ DeleteRun
    \/ \E r \in Requester : ClaimSource(r) \/ FetchDeferred(r) \/ SettleDeferred(r)
    \/ DeadlinePasses
    \/ \E clock \in {"run", "fallback"} : RowsAge(clock)

Spec == Init /\ [][Next]_vars

\* A claimed fetch ends, by the timeouts of the Snowflake client if not before: it
\* runs on the pool of the base queries, of which none holds a thread for ever. The
\* settlement is the request's own thread. Nothing is assumed of the run's worker,
\* which need not finish, nor of clients, which may stop polling.
FairSpec ==
    /\ Spec
    /\ \A r \in Requester : WF_vars(FetchDeferred(r)) /\ WF_vars(SettleDeferred(r))

-----------------------------------------------------------------------------
(* Properties.                                                              *)

\* "A concurrent worker write can never split a ready status from a stale empty
\* dataset": whatever a reader sees as ready or completed has its rows.
ReadyHasRows ==
    \A k \in Key : states[k] \in {"ready", "completed"} => datasets[k] # "absent"

\* Two requests never fetch the deferred source of one run at once, even when
\* the run is finalized under the first.
OneDeferredFetch ==
    Cardinality({r \in Requester : request[r] # "idle"}) <= 1

\* Once a run has settled all its rows expire together, so none of them takes
\* the others away early (finalize_run, complete_source).
RowsExpireTogether ==
    status # "running" => ~(\E j, k \in Key : datasets[j] = "run" /\ datasets[k] = "fallback")

\* What a client was shown it can rely on: a settled section never goes back to
\* pending, an unavailable one stays so, and a ready overview is only ever taken
\* back by a failed run.
SettledStays ==
    /\ \A c \in Section : /\ shown[c] \in {"ready", "unavailable"} => shown'[c] # "pending"
                         /\ shown[c] = "unavailable" => shown'[c] = "unavailable"
    /\ shown["overview"] = "ready" /\ shown'["overview"] # "ready" => status = "failed"
SectionsOnlySettle == [][SettledStays]_vars

\* A deferred source in flight is settled or dropped in the end.
DeferredSettles == states[Deferred] = "pending" ~> states[Deferred] # "pending"

\* The repository implements what clients rely on.
Lifecycle == INSTANCE RunLifecycle WITH
    AccountGating <- {EstimatedBasis, WarehouseBasis},
    OrgGating     <- {BilledBasis},
    ready         <- {s \in Gating : Effective(s) = "ready"}
ImplementsLifecycle == Lifecycle!Spec
=============================================================================
