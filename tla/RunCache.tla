------------------------------ MODULE RunCache ------------------------------
(***************************************************************************)
(* The durable dashboard cache of one organization (apps/api/app,           *)
(* routes/dashboard_runs.py, routes/onboarding.py and                       *)
(* services/dashboard_run_cache.py): one row that every finished worker     *)
(* overwrites, that /cached loads back as an in-memory snapshot, that a     *)
(* deferred source is folded into and that a disconnect drops, while rows,  *)
(* runs and snapshots age. Each call of the store is one step.              *)
(*                                                                         *)
(* DashboardRun models the inside of a run; here a run is its status, the   *)
(* run whose rows it shows and its deferred rows. completed_at is a         *)
(* counter. The API is one process, and the readers are one user's: their    *)
(* requests share the user's slot of the membership cache, fetches in       *)
(* flight included.                                                         *)
(***************************************************************************)
EXTENDS Naturals, FiniteSets, MembershipCache

CONSTANTS
    Run,            \* runs created from Snowflake
    Snapshot,       \* ids of runs loaded from the cache
    Reader,         \* concurrent /cached requests
    Trigger,        \* concurrent requests for the deferred source
    MaxChanges      \* bound: flips, agings, deletions and failures

\* None also stands for no row and no run.
ASSUME IdAssumption == Run \cap Snapshot = {} /\ None \notin Run \cup Snapshot
ASSUME BoundAssumption == MaxChanges \in Nat

VARIABLES
    connection,   \* is the organization's connection active?
    disconnect,   \* where the disconnect request is
    membership,   \* the user's slot: the connection as memberships carry it
    enabled,      \* cache_enabled
    clock,        \* last completed_at issued
    runs,         \* the in-memory repository: runs and snapshots
    worker,       \* where each run's worker is, and the completed_at it persists
    row,          \* dashboard_run_cache
    registry,     \* _cached_snapshot_registry
    reader,       \* /cached requests in progress
    trigger,      \* deferred requests in progress
    changes

connectionVars == <<connection, disconnect, membership>>
worldVars == <<connectionVars, enabled, changes>>
vars == <<worldVars, clock, runs, worker, row, registry, reader, trigger>>

Id    == Run \cup Snapshot
Stamp == Nat

\* base is the run whose rows the entry shows; aged says that their retention
\* has passed.
Entry == [status : {"absent", "running", "completed", "failed", "expired", "deleted"},
          base : Run \cup {None}, completed_at : Stamp,
          deferred : {"none", "pending", "stored"}, aged : BOOLEAN]
Absent == [status |-> "absent", base |-> None, completed_at |-> 0, deferred |-> "none",
           aged |-> FALSE]

\* located: the run's metadata has the account locator; compatible: the datasets
\* meet the contract of this release.
Row == [run_id : Run \cup {None}, base : Run \cup {None}, completed_at : Stamp,
        deferred : BOOLEAN, located : BOOLEAN, compatible : BOOLEAN, aged : BOOLEAN]
PreviousRelease == [run_id |-> None, base |-> None, completed_at |-> 0, deferred |-> FALSE,
                    located |-> TRUE, compatible |-> FALSE, aged |-> FALSE]

\* late: begun after the disconnect returned; joinedRetry: waits, or has waited, for
\* a fetch of the memberships that was being retried.
ReaderState == [pc : {"idle", "looking", "known", "read"}, connected : BOOLEAN,
                late : BOOLEAN, joinedRetry : BOOLEAN, cached : Row \cup {None}]

Registered == [completed_at : Stamp, run_id : Snapshot]

ASSUME NoneAssumption == /\ None \notin Row /\ None \notin Registered
                         /\ None \notin BOOLEAN

TypeOK ==
    /\ connection \in BOOLEAN
    /\ disconnect \in {"none", "invalidated", "dropped", "returned"}
    /\ membership \in SlotOf(BOOLEAN)
    /\ enabled \in BOOLEAN
    /\ clock \in Stamp
    /\ runs \in [Id -> Entry]
    /\ worker \in [Run -> [pc : {"none", "building", "finalized", "persisting", "over"}, at : Stamp]]
    /\ row \in Row \cup {None}
    /\ registry \in Registered \cup {None}
    /\ reader \in [Reader -> ReaderState]
    /\ trigger \in [Trigger -> [pc : {"idle", "claimed", "fetched", "folding", "read", "matched"},
                                target : Id \cup {None}, cached : Row \cup {None}]]
    /\ changes \in 0..MaxChanges
    \* a run that serves rows knows whose they are
    /\ \A id \in Id : runs[id].status # "absent" => runs[id].base \in Run

IdleReader  == [pc |-> "idle", connected |-> FALSE, late |-> FALSE, joinedRetry |-> FALSE,
                cached |-> None]
IdleTrigger == [pc |-> "idle", target |-> None, cached |-> None]

Init ==
    /\ connection = TRUE /\ disconnect = "none" /\ membership = EmptySlot
    /\ enabled = TRUE
    /\ clock = 0
    /\ runs = [id \in Id |-> Absent]
    /\ worker = [r \in Run |-> [pc |-> "none", at |-> 0]]
    /\ row \in {None, PreviousRelease}
    /\ registry = None
    /\ reader = [q \in Reader |-> IdleReader]
    /\ trigger = [d \in Trigger |-> IdleTrigger]
    /\ changes = 0

-----------------------------------------------------------------------------
(* The world. A connection is made with its organization and never comes    *)
(* back after a disconnect.                                                 *)

FlipCache ==
    /\ enabled' = ~enabled
    /\ UNCHANGED <<membership, runs, row>>

MembershipExpires ==
    /\ membership' = Expired(membership)
    /\ UNCHANGED <<enabled, runs, row>>

\* Someone else connects or disconnects: invalidate_user, invalidate_all_memberships.
OthersInvalidate ==
    /\ membership' \in {Overtaken(membership), Invalidated(membership)}
    /\ UNCHANGED <<enabled, runs, row>>

RowAges ==
    /\ row # None
    /\ row' = [row EXCEPT !.aged = TRUE]
    /\ UNCHANGED <<membership, enabled, runs>>

\* Retention passes (a day for a snapshot); the status follows only when read.
RunAges(id) ==
    /\ runs[id].status = "completed"
    /\ runs' = [runs EXCEPT ![id].aged = TRUE]
    /\ UNCHANGED <<membership, enabled, row>>

\* A view or a claim finds the rows aged, or the running deadline is over.
ExpireRun(id) ==
    /\ runs[id].status = "running" \/ (runs[id].status = "completed" /\ runs[id].aged)
    /\ runs' = [runs EXCEPT ![id].status = "expired", ![id].deferred = "none"]
    /\ UNCHANGED <<membership, enabled, row>>

DeleteRun(id) ==
    /\ runs[id].status \notin {"absent", "deleted"}
    /\ runs' = [runs EXCEPT ![id].status = "deleted", ![id].deferred = "none"]
    /\ UNCHANGED <<membership, enabled, row>>

WorldStep ==
    /\ changes < MaxChanges /\ changes' = changes + 1
    /\ \/ FlipCache
       \/ MembershipExpires \/ OthersInvalidate
       \/ RowAges
       \/ \E id \in Id : RunAges(id) \/ ExpireRun(id) \/ DeleteRun(id)
    /\ UNCHANGED <<connection, disconnect, clock, worker, registry, reader, trigger>>

-----------------------------------------------------------------------------
(* POST /disconnect: the RPC, the row (best effort), the membership cache.  *)

Invalidate ==
    /\ disconnect = "none"
    /\ disconnect' = "invalidated"
    /\ connection' = FALSE
    /\ UNCHANGED <<membership, row>>

DropCachedRun ==
    /\ disconnect = "invalidated"
    /\ disconnect' = "dropped"
    /\ row' \in {None, row}
    /\ UNCHANGED <<connection, membership>>

\* Mutant: the membership cache is left to its TTL.
KeepMemberships ==
    /\ disconnect = "dropped"
    /\ disconnect' = "returned"
    /\ UNCHANGED <<connection, membership, row>>

FlushMemberships ==
    /\ disconnect = "dropped"
    /\ disconnect' = "returned"
    /\ membership' = Invalidated(membership)
    /\ UNCHANGED <<connection, row>>

DisconnectStep ==
    /\ Invalidate \/ DropCachedRun \/ FlushMemberships
    /\ UNCHANGED <<enabled, changes, clock, runs, worker, registry, reader, trigger>>

-----------------------------------------------------------------------------
(* A run's worker: finalize_run, then _persist_completed_run_to_cache.      *)

\* The credentials are resolved once, when the run is created.
CreateRun(r) ==
    /\ runs[r].status = "absent" /\ connection
    /\ runs' = [runs EXCEPT ![r].status = "running", ![r].base = r]
    /\ worker' = [worker EXCEPT ![r].pc = "building"]
    /\ UNCHANGED <<clock, row>>

\* A no-op on a run that was deleted or expired meanwhile; the worker goes on.
Finalize(r) ==
    /\ worker[r].pc = "building"
    /\ worker' = [worker EXCEPT ![r].pc = "finalized"]
    /\ IF runs[r].status = "running"
       THEN /\ clock' = clock + 1
            /\ runs' = [runs EXCEPT ![r].status = "completed", ![r].completed_at = clock + 1]
       ELSE UNCHANGED <<clock, runs>>
    /\ UNCHANGED row

\* The run and the settings are read; a run without completed_at gets "now".
ReadSettings(r) ==
    /\ worker[r].pc = "finalized"
    /\ IF ~enabled
       THEN worker' = [worker EXCEPT ![r].pc = "over"] /\ UNCHANGED clock
       ELSE IF runs[r].completed_at # 0
       THEN worker' = [worker EXCEPT ![r] = [pc |-> "persisting", at |-> runs[r].completed_at]]
            /\ UNCHANGED clock
       ELSE worker' = [worker EXCEPT ![r] = [pc |-> "persisting", at |-> clock + 1]]
            /\ clock' = clock + 1
    /\ UNCHANGED <<runs, row>>

\* The worker's own base datasets, whatever else the run holds by now and
\* whatever became of the connection.
Upsert(r) ==
    /\ worker[r].pc = "persisting"
    /\ worker' = [worker EXCEPT ![r].pc = "over"]
    /\ \E located \in BOOLEAN :
         row' = [run_id |-> r, base |-> r, completed_at |-> worker[r].at, deferred |-> FALSE,
                 located |-> located, compatible |-> TRUE, aged |-> FALSE]
    /\ UNCHANGED <<clock, runs>>

WorkerStep ==
    /\ \E r \in Run : CreateRun(r) \/ Finalize(r) \/ ReadSettings(r) \/ Upsert(r)
    /\ UNCHANGED <<worldVars, registry, reader, trigger>>

\* The build fails, or the store does: nothing is persisted.
WorkerFails(r) ==
    /\ worker[r].pc \in {"building", "finalized", "persisting"}
    /\ changes < MaxChanges /\ changes' = changes + 1
    /\ worker' = [worker EXCEPT ![r].pc = "over"]
    /\ runs' = IF worker[r].pc = "building" /\ runs[r].status = "running"
               THEN [runs EXCEPT ![r].status = "failed"] ELSE runs
    /\ UNCHANGED <<connectionVars, enabled, clock, row, registry, reader, trigger>>

-----------------------------------------------------------------------------
(* GET /cached.                                                             *)

\* The request's auth context: a hit, or a fetch that is shared.
LookUp(q) ==
    /\ reader[q].pc = "idle"
    /\ IF Cached(membership)
       THEN /\ reader' = [reader EXCEPT ![q] =
                 [pc |-> "known", connected |-> membership.entry, cached |-> None,
                  late |-> disconnect = "returned", joinedRetry |-> FALSE]]
            /\ UNCHANGED membership
       ELSE /\ reader' = [reader EXCEPT ![q] =
                 [pc |-> "looking", connected |-> FALSE, cached |-> None,
                  late |-> disconnect = "returned", joinedRetry |-> RetryInFlight(membership)]]
            /\ membership' = Joined(membership)
    /\ UNCHANGED <<runs, row, registry>>

FetchMembership ==
    /\ \/ Reading(membership) /\ membership' = Fetched(membership, connection)
       \/ Outdated(membership) /\ membership' = Refetched(membership)
    /\ UNCHANGED <<runs, row, registry, reader>>

\* Everyone who waits for the fetch is answered.
Settle ==
    /\ Ready(membership)
    /\ membership' = Settled(membership)
    /\ reader' = [q \in Reader |->
                    IF reader[q].pc = "looking"
                    THEN [reader[q] EXCEPT !.pc = "known", !.connected = membership.seen]
                    ELSE reader[q]]
    /\ UNCHANGED <<runs, row, registry>>

\* The settings, then store.get_active: only the toggle could come between them.
GetActive(q) ==
    /\ reader[q].pc = "known"
    /\ reader' = IF ~enabled \/ row = None THEN [reader EXCEPT ![q] = IdleReader]
                 ELSE IF row.aged THEN [reader EXCEPT ![q] = IdleReader]
                 ELSE [reader EXCEPT ![q].pc = "read", ![q].cached = row]
    /\ UNCHANGED <<membership, runs, row, registry>>

\* A row of an older contract is deleted, by organization alone; best effort.
DropIncompatible(q) ==
    /\ reader[q].pc = "read" /\ ~reader[q].cached.compatible
    /\ reader' = [reader EXCEPT ![q] = IdleReader]
    /\ row' \in {None, row}
    /\ UNCHANGED <<membership, runs, registry>>

\* A disconnected organization, or a row without a fingerprint, is a miss.
SameConnection(q) == reader[q].cached.located /\ reader[q].connected

Mismatch(q) ==
    /\ reader[q].pc = "read" /\ reader[q].cached.compatible /\ ~SameConnection(q)
    /\ reader' = [reader EXCEPT ![q] = IdleReader]
    /\ UNCHANGED <<membership, runs, row, registry>>

Accepted(q) == reader[q].pc = "read" /\ reader[q].cached.compatible /\ SameConnection(q)

\* Mutant: any live snapshot of the organization is reused.
ReusableWhenLive(q) == registry # None /\ runs[registry.run_id].status = "completed"

\* The registered snapshot is of the same cached run, and get_run still calls it
\* completed.
Reusable(q) ==
    /\ registry # None
    /\ registry.completed_at = reader[q].cached.completed_at
    /\ runs[registry.run_id].status = "completed"

Reuse(q) ==
    /\ Accepted(q) /\ Reusable(q)
    /\ reader' = [reader EXCEPT ![q] = IdleReader]
    /\ UNCHANGED <<membership, runs, row, registry>>

\* create_completed_snapshot from the row the request read.
LoadedFrom(cached) ==
    [status |-> "completed", base |-> cached.base, completed_at |-> cached.completed_at,
     deferred |-> IF cached.deferred THEN "stored" ELSE "none", aged |-> FALSE]

\* Mutant: the previous snapshot is not evicted.
LoadBeside(q) ==
    /\ Accepted(q) /\ ~Reusable(q)
    /\ reader' = [reader EXCEPT ![q] = IdleReader]
    /\ \E id \in Snapshot :
         /\ runs[id].status = "absent"
         /\ runs' = [runs EXCEPT ![id] = LoadedFrom(reader[q].cached)]
         /\ registry' = [completed_at |-> reader[q].cached.completed_at, run_id |-> id]
    /\ UNCHANGED <<membership, row>>

Load(q) ==
    /\ Accepted(q) /\ ~Reusable(q)
    /\ reader' = [reader EXCEPT ![q] = IdleReader]
    /\ \E id \in Snapshot :
         /\ runs[id].status = "absent"
         /\ runs' = [i \in Id |->
                       IF i = id THEN LoadedFrom(reader[q].cached)
                       ELSE IF registry # None /\ i = registry.run_id
                       THEN [runs[i] EXCEPT !.status = "deleted", !.deferred = "none"]
                       ELSE runs[i]]
         /\ registry' = [completed_at |-> reader[q].cached.completed_at, run_id |-> id]
    /\ UNCHANGED <<membership, row>>

ReaderStep ==
    /\ \/ \E q \in Reader : \/ LookUp(q) \/ GetActive(q) \/ DropIncompatible(q)
                             \/ Mismatch(q) \/ Reuse(q) \/ Load(q)
       \/ FetchMembership
       \/ Settle
    /\ UNCHANGED <<connection, disconnect, enabled, changes, clock, worker, trigger>>

-----------------------------------------------------------------------------
(* POST /{run_id}/sources/{source_id}, on a run or on a snapshot.           *)

Claim(d, id) ==
    /\ trigger[d].pc = "idle"
    /\ runs[id].status \in {"running", "completed"} /\ ~runs[id].aged
    /\ runs[id].deferred = "none"
    /\ runs' = [runs EXCEPT ![id].deferred = "pending"]
    /\ trigger' = [trigger EXCEPT ![d].pc = "claimed", ![d].target = id]
    /\ UNCHANGED row

\* The connection is resolved again. Without one, or when the query fails, the
\* source fails and can be claimed again.
FetchDeferred(d) ==
    LET id == trigger[d].target
    IN  /\ trigger[d].pc = "claimed"
        /\ \/ /\ connection
              /\ trigger' = [trigger EXCEPT ![d].pc = "fetched"]
              /\ UNCHANGED runs
           \/ /\ trigger' = [trigger EXCEPT ![d] = IdleTrigger]
              /\ runs' = [runs EXCEPT ![id].deferred = IF @ = "pending" THEN "none" ELSE @]
        /\ UNCHANGED row

\* complete_source, a no-op on a dropped run; the fold follows in any case.
CompleteDeferred(d) ==
    LET id == trigger[d].target
    IN  /\ trigger[d].pc = "fetched"
        /\ trigger' = [trigger EXCEPT ![d].pc = "folding"]
        /\ runs' = IF runs[id].status \in {"running", "completed", "failed"}
                   THEN [runs EXCEPT ![id].deferred = "stored"] ELSE runs
        /\ UNCHANGED row

\* _update_cached_run_datasets: get_active ...
ReadRow(d) ==
    /\ trigger[d].pc = "folding"
    /\ trigger' = IF row = None THEN [trigger EXCEPT ![d] = IdleTrigger]
                  ELSE IF row.aged THEN [trigger EXCEPT ![d] = IdleTrigger]
                  ELSE [trigger EXCEPT ![d].pc = "read", ![d].cached = row]
    /\ UNCHANGED <<runs, row>>

\* ... _cached_row_matches_run ...
RowMatchesRun(d) ==
    \/ trigger[d].cached.run_id = trigger[d].target
    \/ registry # None /\ registry.run_id = trigger[d].target

Match(d) ==
    /\ trigger[d].pc = "read"
    /\ trigger' = IF RowMatchesRun(d) THEN [trigger EXCEPT ![d].pc = "matched"]
                                      ELSE [trigger EXCEPT ![d] = IdleTrigger]
    /\ UNCHANGED <<runs, row>>

\* Mutant: the row is updated by organization alone.
PatchByOrganization(d) ==
    /\ trigger[d].pc = "matched"
    /\ trigger' = [trigger EXCEPT ![d] = IdleTrigger]
    /\ row' = IF row = None THEN None
              ELSE [row EXCEPT !.base = trigger[d].cached.base, !.deferred = TRUE]
    /\ UNCHANGED runs

\* ... update_datasets_if_current: all datasets of the row that was read, plus
\* the new one, if the row is still that one.
Patch(d) ==
    /\ trigger[d].pc = "matched"
    /\ trigger' = [trigger EXCEPT ![d] = IdleTrigger]
    /\ row' = IF row = None THEN None
              ELSE IF /\ row.run_id = trigger[d].cached.run_id
                      /\ row.completed_at = trigger[d].cached.completed_at
              THEN [row EXCEPT !.base = trigger[d].cached.base, !.deferred = TRUE]
              ELSE row
    /\ UNCHANGED runs

TriggerStep ==
    /\ \E d \in Trigger : \/ \E id \in Id : Claim(d, id)
                          \/ FetchDeferred(d) \/ CompleteDeferred(d)
                          \/ ReadRow(d) \/ Match(d) \/ Patch(d)
    /\ UNCHANGED <<worldVars, clock, worker, registry, reader>>

\* A call fails: a miss for a reader of the store, nothing folded, and 503 for
\* everyone who waits for the memberships.
CallFails ==
    /\ changes < MaxChanges /\ changes' = changes + 1
    /\ \/ \E q \in Reader : /\ reader[q].pc = "known"
                            /\ reader' = [reader EXCEPT ![q] = IdleReader]
                            /\ UNCHANGED <<trigger, membership>>
       \/ \E d \in Trigger : /\ trigger[d].pc \in {"folding", "matched"}
                             /\ trigger' = [trigger EXCEPT ![d] = IdleTrigger]
                             /\ UNCHANGED <<reader, membership>>
       \/ /\ membership.fetch # "none"
          /\ membership' = Abandoned(membership)
          /\ reader' = [q \in Reader |-> IF reader[q].pc = "looking" THEN IdleReader ELSE reader[q]]
          /\ UNCHANGED trigger
    /\ UNCHANGED <<connection, disconnect, enabled, clock, runs, worker, row, registry>>

Next ==
    \/ WorldStep
    \/ DisconnectStep
    \/ WorkerStep
    \/ \E r \in Run : WorkerFails(r)
    \/ ReaderStep
    \/ TriggerStep
    \/ CallFails

Spec == Init /\ [][Next]_vars

-----------------------------------------------------------------------------
(* Properties.                                                              *)

\* The row is one run's: a fold that lost a race against another run's upsert
\* never mixes the datasets of the two (update_datasets_if_current).
RowIsOneRun == row # None => row.base = row.run_id

\* "At most ONE live snapshot per org", whatever requests read which rows.
OneLiveSnapshot == Cardinality({id \in Snapshot : runs[id].status = "completed"}) <= 1

\* The request is answered with the registered snapshot.
Answers(q) == Reuse(q) \/ Load(q)

\* A /cached answer shows the run of the row it read, whatever other requests
\* have registered or evicted in between (_load_or_reuse_cached_snapshot).
AnswerIsTheCachedRun ==
    [][\A q \in Reader : Answers(q) =>
         LET answer == runs'[registry'.run_id]
         IN  /\ answer.base = reader[q].cached.run_id
             /\ answer.completed_at = reader[q].cached.completed_at]_vars

\* A request that begins after the disconnect has returned is not served, even
\* when a worker that was still running has brought the dropped row back, unless
\* its memberships come from a fetch that was being retried when it joined.
NothingServedAfterDisconnect ==
    [][\A q \in Reader : Answers(q) => ~reader[q].late \/ reader[q].joinedRetry]_vars
=============================================================================
