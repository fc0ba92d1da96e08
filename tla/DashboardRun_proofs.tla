-------------------------- MODULE DashboardRun_proofs --------------------------
(***************************************************************************)
(* The safety of a dashboard run for any number of sources, requests and    *)
(* deferred fetches: no status without rows, one deferred fetch at a time,  *)
(* one retention for all rows, sections that only settle, and the           *)
(* refinement of RunLifecycle.                                              *)
(***************************************************************************)
EXTENDS DashboardRun, TLAPS, FiniteSetTheorems

(***************************************************************************)
(* The inductive invariant.                                                 *)
(***************************************************************************)

\* The status that a job's outcome so far gives its source.
Progress(s) == IF job[s] = "landed" THEN "ready"
               ELSE IF job[s] = "unavailable" THEN "unavailable" ELSE "pending"

\* While the run is running its states tell how far the jobs are; afterwards
\* they tell how it ended.
RunInv ==
    /\ worker = "resolving" => \A s \in Base : job[s] = "none"
    /\ status = "running" => \A s \in Base :
         /\ states[s] = Progress(s)
         /\ job[s] \in {"stored", "landed"} => datasets[s] # "absent"
    /\ status = "failed" => metadata = {"none"} /\ \A s \in Base : states[s] = "unavailable"
    /\ status = "completed" => metadata # {}

RowsInv == ReadyHasRows /\ RowsExpireTogether

\* The one request at work has the claim, as long as a claim can be made.
Alone == \A q, r \in Requester : request[q] # "idle" /\ request[r] # "idle" => q = r
DeferredInv ==
    /\ Alone
    /\ status \in {"running", "completed"} =>
         \A r \in Requester : request[r] # "idle" => states[Deferred] = "pending"

\* What the next view will say agrees with what the last one said.
Current(c) == IF c = "overview" THEN OverviewStatus ELSE RollUp(Effective(WarehouseBasis))
Agrees(c) ==
    /\ shown[c] \in {"ready", "unavailable"} => Current(c) # "pending"
    /\ shown[c] = "unavailable" => Current(c) = "unavailable"
ShownInv ==
    status \notin Gone =>
      /\ \A c \in Section : Agrees(c)
      /\ shown["overview"] = "ready" /\ Current("overview") # "ready" => status = "failed"

IInv == TypeOK /\ RunInv /\ RowsInv /\ DeferredInv /\ ShownInv

\* The part of the types that the repository's methods decide, and the rest.
RepositoryOK ==
    /\ status \in Terminal \cup {"running"}
    /\ datasets \in [Key -> {"absent", "run", "fallback"}]
    /\ states \in [Key -> {"idle", "pending", "ready", "completed", "unavailable", "failed"}]
    /\ metadata \in {{"none"}} \cup SUBSET Group
    /\ status \in Gone => metadata = {"none"} /\ \A k \in Key : datasets[k] = "absent"
    /\ status = "completed" => \A s \in Base : states[s] = "ready"
    /\ status = "running" => \A s \in Base : states[s] \in {"pending", "ready", "unavailable"}

OthersOK ==
    /\ deadline \in BOOLEAN
    /\ aged \in SUBSET {"run", "fallback"}
    /\ job \in [Base -> {"none", "queued", "fetched", "lost", "stored", "landed", "unavailable",
                         "crashed"}]
    /\ worker \in {"resolving", "fetching", "over"}
    /\ request \in [Requester -> {"idle", "fetching", "fetched", "raised"}]
    /\ fetches \in 0..MaxFetches
    /\ shown \in [Section -> {"none", "pending", "ready", "unavailable"}]

LEMMA TypeParts == TypeOK <=> RepositoryOK /\ OthersOK
BY DEF TypeOK, RepositoryOK, OthersOK

LEMMA KeyFacts == /\ Deferred \in Key /\ Deferred \notin Base /\ Deferred \notin Gating
                  /\ Base \subseteq Key /\ Gating \subseteq Base
                  /\ EstimatedBasis \in AccountSource /\ WarehouseBasis \in AccountSource
                  /\ BilledBasis \in OrgSource /\ BilledBasis \notin AccountSource
                  /\ \A k \in Key : k = Deferred \/ k \in Base
BY SourceAssumption DEF Key, Base, Gating

(***************************************************************************)
(* What the sections say, by status.                                        *)
(***************************************************************************)
RunningSays ==
    status = "running" =>
      /\ \A s \in Key : Effective(s) = states[s]
      /\ Current("warehouse") = RollUp(states[WarehouseBasis])
      /\ Current("overview") =
           IF "ready" \in {states[BilledBasis], states[EstimatedBasis]} THEN "ready"
           ELSE IF {states[BilledBasis], states[EstimatedBasis]} \subseteq {"unavailable", "failed"}
                THEN "unavailable" ELSE "pending"

CompletedSays ==
    RepositoryOK /\ status = "completed" /\ metadata # {} =>
      /\ Current("overview") = "ready"
      /\ Current("warehouse") = IF metadata # {"none"} /\ "account_usage" \notin metadata
                                THEN "unavailable" ELSE "ready"
      /\ {s \in Gating : Effective(s) = "ready"} =
           IF metadata = {"none"} THEN Gating
           ELSE {s \in Gating : (IF s \in AccountSource THEN "account_usage"
                                 ELSE "organization_usage") \in metadata}

FailedSays ==
    status = "failed" /\ metadata = {"none"} /\ (\A s \in Base : states[s] = "unavailable") =>
      \A c \in Section : Current(c) = "unavailable"

LEMMA RunningView == RunningSays
<1> SUFFICES ASSUME status = "running" PROVE RunningSays
  BY DEF RunningSays
<1>1. \A s \in Key : Effective(s) = states[s]
  BY DEF Effective
<1> QED
  BY <1>1, KeyFacts DEF RunningSays, Current, OverviewStatus, Gating

LEMMA CompletedView == CompletedSays
<1> SUFFICES ASSUME RepositoryOK, status = "completed", metadata # {} PROVE CompletedSays
  BY DEF CompletedSays
<1>1. \A s \in Gating : states[s] = "ready" /\ s \in Base
  BY KeyFacts DEF RepositoryOK
<1>2. EstimatedBasis \in Gating /\ WarehouseBasis \in Gating /\ BilledBasis \in Gating
  BY DEF Gating
<1>3. \A s \in Gating : Effective(s) =
         IF metadata # {"none"} /\ (IF s \in AccountSource THEN "account_usage"
                                    ELSE "organization_usage") \notin metadata
         THEN "unavailable" ELSE "ready"
  BY <1>1 DEF Effective
<1>4. Current("warehouse") = IF metadata # {"none"} /\ "account_usage" \notin metadata
                             THEN "unavailable" ELSE "ready"
  BY <1>2, <1>3, KeyFacts DEF Current, RollUp
<1>5. Current("overview") = "ready"
  <2>1. CASE metadata = {"none"}
    BY <2>1, <1>2, <1>3 DEF Current, OverviewStatus, RollUp
  <2>2. CASE metadata # {"none"} /\ "organization_usage" \in metadata
    BY <2>2, <1>2, <1>3, KeyFacts DEF Current, OverviewStatus, RollUp
  <2>3. CASE metadata # {"none"} /\ "organization_usage" \notin metadata
    <3>1. metadata \in SUBSET Group
      BY <2>3 DEF RepositoryOK
    <3>2. "account_usage" \in metadata
      BY <2>3, <3>1 DEF Group
    <3> QED
      BY <2>3, <3>2, <1>2, <1>3, KeyFacts DEF Current, OverviewStatus, RollUp
  <2> QED
    BY <2>1, <2>2, <2>3
<1> QED
  BY <1>3, <1>4, <1>5 DEF CompletedSays

LEMMA FailedView == FailedSays
<1> SUFFICES ASSUME status = "failed", metadata = {"none"}, \A s \in Base : states[s] = "unavailable"
             PROVE  FailedSays
  BY DEF FailedSays
<1>1. \A s \in Gating : Effective(s) = "unavailable"
  BY KeyFacts DEF Effective
<1>2. EstimatedBasis \in Gating /\ WarehouseBasis \in Gating /\ BilledBasis \in Gating
  BY DEF Gating
<1> QED
  BY <1>1, <1>2 DEF FailedSays, Current, OverviewStatus, RollUp, Section

LEMMA Views == /\ RunningSays /\ CompletedSays /\ FailedSays
               /\ RunningSays' /\ CompletedSays' /\ FailedSays'
BY RunningView, CompletedView, FailedView, PTL

(***************************************************************************)
(* The effects of the repository's methods.                                 *)
(***************************************************************************)
Dropped == /\ status' \in Gone
           /\ datasets' = Nothing("absent") /\ states' = Nothing("idle") /\ metadata' = {"none"}

\* A dropped run satisfies the invariant, whatever the other threads are at.
LEMMA DropInv ==
  ASSUME IInv, OthersOK', Dropped, Alone',
         worker' = "resolving" => \A s \in Base : job'[s] = "none"
  PROVE  IInv'
<1>1. /\ \A k \in Key : datasets'[k] = "absent" /\ states'[k] = "idle"
      /\ datasets' \in [Key -> {"absent"}] /\ states' \in [Key -> {"idle"}]
  BY DEF Dropped, Nothing
<1>2. status' \notin {"running", "completed", "failed"}
  BY DEF Dropped, Gone
<1>3. RepositoryOK'
  BY <1>1, <1>2 DEF RepositoryOK, Dropped, Terminal
<1>4. RunInv' /\ DeferredInv' /\ ShownInv'
  BY <1>2 DEF RunInv, DeferredInv, ShownInv, Dropped
<1>5. RowsInv'
  BY <1>1 DEF RowsInv, ReadyHasRows, RowsExpireTogether
<1> QED
  BY <1>3, <1>4, <1>5, TypeParts DEF IInv, TypeOK, RepositoryOK, OthersOK

\* What the sections say does not change while no settled source does.
LEMMA ShownKept ==
  ASSUME IInv, RepositoryOK', RunInv', status' = status, metadata' = metadata, shown' = shown,
         \A s \in Base : states[s] # "pending" => states'[s] = states[s]
  PROVE  ShownInv'
<1> USE DEF IInv
<1>1. RepositoryOK
  BY TypeParts
<1>2. BilledBasis \in Base /\ EstimatedBasis \in Base /\ WarehouseBasis \in Base
  BY KeyFacts DEF Gating
<1>3. CASE status = "running"
  <2>1. Current("warehouse") # "pending" => Current("warehouse")' = Current("warehouse")
    BY <1>1, <1>2, <1>3, Views DEF RunningSays, RollUp, RepositoryOK
  <2>2. Current("overview") # "pending" => Current("overview")' = Current("overview")
    BY <1>1, <1>2, <1>3, Views DEF RunningSays, RepositoryOK
  <2> QED
    BY <2>1, <2>2, <1>3 DEF ShownInv, Agrees, Section, Gone
<1>4. CASE status = "completed"
  <2>1. metadata # {} /\ metadata' # {}
    BY <1>4 DEF RunInv
  <2>2. \A c \in Section : Current(c)' = Current(c)
    BY <1>1, <1>4, <2>1, Views DEF CompletedSays, Section
  <2> QED
    BY <2>2, <1>4 DEF ShownInv, Agrees, Section, Gone
<1>5. CASE status = "failed"
  <2>1. \A c \in Section : Current(c)' = "unavailable"
    BY <1>5, Views DEF FailedSays, RunInv
  <2> QED
    BY <2>1, <1>5 DEF ShownInv, Agrees, Section, Gone
<1>6. CASE status \in Gone
  BY <1>6 DEF ShownInv
<1> QED
  BY <1>1, <1>3, <1>4, <1>5, <1>6 DEF RepositoryOK, Terminal

\* A step that leaves the repository alone and no outcome delivered.
LEMMA KeepInv ==
  ASSUME IInv, OthersOK', UNCHANGED <<repository, shown>>, DeferredInv',
         worker' = "resolving" => \A s \in Base : job'[s] = "none",
         status = "running" => \A s \in Base :
           /\ Progress(s)' = Progress(s)
           /\ job'[s] \in {"stored", "landed"} => job[s] \in {"stored", "landed"}
  PROVE  IInv'
<1> USE DEF IInv
<1>1. RepositoryOK'
  BY TypeParts DEF RepositoryOK, repository
<1>2. RunInv'
  BY DEF RunInv, repository
<1>3. RowsInv'
  BY DEF RowsInv, ReadyHasRows, RowsExpireTogether, repository
<1>4. ShownInv'
  BY <1>1, <1>2, ShownKept DEF repository
<1>5. TypeOK'
  BY <1>1 DEF TypeOK, RepositoryOK, OthersOK
<1> QED
  BY <1>1, <1>2, <1>3, <1>4, <1>5

\* ExpireRun is one way to drop a run.
LEMMA ExpireDrops == ASSUME ExpireRun PROVE Dropped
BY DEF ExpireRun, Dropped, Gone

(***************************************************************************)
(* The worker and the pool.                                                 *)
(***************************************************************************)
LEMMA ResolveInv == ASSUME IInv, ResolveLocator PROVE IInv'
<1> USE DEF IInv
<1>1. OthersOK'
  BY DEF ResolveLocator, OthersOK, TypeOK, clocks, requestVars
<1>2. \A s \in Base : job[s] = "none" /\ job'[s] \in {"none", "queued"}
  BY DEF ResolveLocator, RunInv
<1>3. DeferredInv'
  BY DEF ResolveLocator, DeferredInv, Alone, repository, requestVars
<1> QED
  BY <1>1, <1>2, <1>3, KeepInv DEF ResolveLocator, Progress

LEMMA FetchInv == ASSUME IInv, NEW s \in Base, FetchSource(s) PROVE IInv'
<1> USE DEF IInv
<1>1. /\ job[s] = "queued" /\ job'[s] \in {"fetched", "lost", "crashed"}
      /\ \A t \in Base \ {s} : job'[t] = job[t]
      /\ job' \in [Base -> {"none", "queued", "fetched", "lost", "stored", "landed", "unavailable",
                            "crashed"}]
  BY DEF FetchSource, TypeOK
<1>2. OthersOK'
  BY <1>1 DEF FetchSource, OthersOK, TypeOK, clocks, requestVars
<1>3. DeferredInv'
  BY DEF FetchSource, DeferredInv, Alone, repository, requestVars
<1>4. worker # "resolving" /\ worker' = worker
  BY <1>1 DEF FetchSource, RunInv
<1> QED
  BY <1>1, <1>2, <1>3, <1>4, KeepInv DEF FetchSource, Progress

LEMMA StoreInv == ASSUME IInv, NEW s \in Base, StoreOutcome(s) PROVE IInv'
<1> USE DEF IInv
<1>1. /\ job[s] = "fetched" /\ job'[s] = "stored"
      /\ \A t \in Base \ {s} : job'[t] = job[t]
      /\ job' \in [Base -> {"none", "queued", "fetched", "lost", "stored", "landed", "unavailable",
                            "crashed"}]
  BY DEF StoreOutcome, TypeOK
<1>2. OthersOK'
  BY <1>1 DEF StoreOutcome, OthersOK, TypeOK, clocks, requestVars
<1>3. worker # "resolving" /\ worker' = worker /\ shown' = shown /\ request' = request
  BY <1>1 DEF StoreOutcome, RunInv, requestVars
<1>4. CASE Stale
  <2>1. Dropped
    BY <1>4, ExpireDrops DEF StoreOutcome, SetDataset
  <2> QED
    BY <2>1, <1>2, <1>3, DropInv DEF DeferredInv, Alone
<1>5. CASE status # "running"
  <2>1. UNCHANGED repository
    BY <1>5 DEF StoreOutcome, SetDataset, Stale
  <2>2. DeferredInv'
    BY <2>1, <1>3 DEF DeferredInv, Alone, repository
  <2> QED
    BY <2>1, <2>2, <1>2, <1>3, <1>5, KeepInv
<1>6. CASE status = "running" /\ ~Stale
  <2>1. /\ datasets' = [datasets EXCEPT ![s] = "run"]
        /\ UNCHANGED <<status, states, metadata>>
    BY <1>6 DEF StoreOutcome, SetDataset
  <2>2. s \in Key /\ \A k \in Key : datasets'[k] = IF k = s THEN "run" ELSE datasets[k]
    BY <2>1, KeyFacts DEF TypeOK
  <2>3. RepositoryOK'
    BY <2>1, <1>6, TypeParts DEF RepositoryOK, Gone
  <2>4. RunInv'
    BY <2>1, <2>2, <1>1, <1>3, <1>6, KeyFacts DEF RunInv, Progress
  <2>5. RowsInv'
    BY <2>1, <2>2, <1>6 DEF RowsInv, ReadyHasRows, RowsExpireTogether
  <2>6. DeferredInv'
    BY <2>1, <1>3 DEF DeferredInv, Alone
  <2>7. ShownInv'
    BY <2>1, <2>3, <2>4, <1>3, ShownKept
  <2>8. TypeOK'
    BY <2>3, <1>2 DEF TypeOK, RepositoryOK, OthersOK
  <2> QED
    BY <2>4, <2>5, <2>6, <2>7, <2>8
<1> QED
  BY <1>4, <1>5, <1>6

\* An outcome that settles its source in a running run.
LEMMA SettleBase ==
  ASSUME IInv, NEW s \in Base, NEW value \in {"ready", "unavailable"}, status = "running",
         states' = [states EXCEPT ![s] = value], UNCHANGED <<status, datasets, metadata>>,
         UNCHANGED <<worker, request, shown>>, OthersOK',
         worker # "resolving", Progress(s) = "pending", Progress(s)' = value,
         \A t \in Base \ {s} : job'[t] = job[t],
         value = "ready" => datasets[s] # "absent"
  PROVE  IInv'
<1> USE DEF IInv
<1>1. s \in Key /\ s # Deferred /\ \A k \in Key : states'[k] = IF k = s THEN value ELSE states[k]
  BY KeyFacts DEF TypeOK
<1>2. RepositoryOK'
  BY <1>1, KeyFacts, TypeParts DEF RepositoryOK, Gone
<1>3. RunInv'
  BY <1>1, KeyFacts DEF RunInv, Progress
<1>4. RowsInv'
  BY <1>1 DEF RowsInv, ReadyHasRows, RowsExpireTogether
<1>5. DeferredInv'
  BY <1>1, KeyFacts DEF DeferredInv, Alone
<1>6. states[s] = "pending"
  BY DEF RunInv
<1>7. ShownInv'
  BY <1>1, <1>2, <1>3, <1>6, KeyFacts, ShownKept
<1>8. TypeOK'
  BY <1>2 DEF TypeOK, RepositoryOK, OthersOK
<1> QED
  BY <1>3, <1>4, <1>5, <1>7, <1>8

LEMMA CompleteInv == ASSUME IInv, NEW s \in Base, CompleteOutcome(s) PROVE IInv'
<1> USE DEF IInv
<1>1. /\ job[s] = "stored" /\ job'[s] = "landed"
      /\ \A t \in Base \ {s} : job'[t] = job[t]
      /\ job' \in [Base -> {"none", "queued", "fetched", "lost", "stored", "landed", "unavailable",
                            "crashed"}]
  BY DEF CompleteOutcome, TypeOK
<1>2. OthersOK'
  BY <1>1 DEF CompleteOutcome, OthersOK, TypeOK, clocks, requestVars
<1>3. worker # "resolving" /\ worker' = worker /\ shown' = shown /\ request' = request
  BY <1>1 DEF CompleteOutcome, RunInv, requestVars
<1>4. CASE Stale
  <2>1. Dropped
    BY <1>4, ExpireDrops DEF CompleteOutcome, CompleteSource
  <2> QED
    BY <2>1, <1>2, <1>3, DropInv DEF DeferredInv, Alone
<1>5. CASE status # "running"
  <2>1. UNCHANGED repository
    BY <1>5 DEF CompleteOutcome, CompleteSource, Stale
  <2>2. DeferredInv'
    BY <2>1, <1>3 DEF DeferredInv, Alone, repository
  <2> QED
    BY <2>1, <2>2, <1>2, <1>3, <1>5, KeepInv
<1>6. CASE status = "running" /\ ~Stale
  <2>1. /\ states' = [states EXCEPT ![s] = "ready"]
        /\ UNCHANGED <<status, datasets, metadata>>
    BY <1>6 DEF CompleteOutcome, CompleteSource, Gone
  <2>2. Progress(s) = "pending" /\ Progress(s)' = "ready"
    BY <1>1 DEF Progress
  <2> QED
    BY <2>1, <2>2, <1>1, <1>2, <1>3, <1>6, SettleBase DEF RunInv
<1> QED
  BY <1>4, <1>5, <1>6

LEMMA FailInv == ASSUME IInv, NEW s \in Base, FailOutcome(s) PROVE IInv'
<1> USE DEF IInv
<1>1. /\ job[s] = "lost" /\ job'[s] = "unavailable"
      /\ \A t \in Base \ {s} : job'[t] = job[t]
      /\ job' \in [Base -> {"none", "queued", "fetched", "lost", "stored", "landed", "unavailable",
                            "crashed"}]
  BY DEF FailOutcome, TypeOK
<1>2. OthersOK'
  BY <1>1 DEF FailOutcome, OthersOK, TypeOK, clocks, requestVars
<1>3. worker # "resolving" /\ worker' = worker /\ shown' = shown /\ request' = request
  BY <1>1 DEF FailOutcome, RunInv, requestVars
<1>4. CASE Stale
  <2>1. Dropped
    BY <1>4, ExpireDrops DEF FailOutcome, FailSource
  <2> QED
    BY <2>1, <1>2, <1>3, DropInv DEF DeferredInv, Alone
<1>5. CASE status # "running"
  <2>1. UNCHANGED repository
    BY <1>5 DEF FailOutcome, FailSource, Stale
  <2>2. DeferredInv'
    BY <2>1, <1>3 DEF DeferredInv, Alone, repository
  <2> QED
    BY <2>1, <2>2, <1>2, <1>3, <1>5, KeepInv
<1>6. CASE status = "running" /\ ~Stale
  <2>1. /\ states' = [states EXCEPT ![s] = "unavailable"]
        /\ UNCHANGED <<status, datasets, metadata>>
    BY <1>6 DEF FailOutcome, FailSource
  <2>2. Progress(s) = "pending" /\ Progress(s)' = "unavailable"
    BY <1>1 DEF Progress
  <2> QED
    BY <2>1, <2>2, <1>1, <1>2, <1>3, <1>6, SettleBase
<1> QED
  BY <1>4, <1>5, <1>6

\* The run ends while its worker is at work: what the sections say afterwards
\* agrees with what they said.
LEMMA FinalizeInv ==
  ASSUME IInv, NEW how \in {"completed", "failed"}, NEW groups \in {{"none"}} \cup SUBSET Group,
         status = "running", ~Stale, FinalizeRun(how, groups), worker' = "over", OthersOK',
         UNCHANGED <<request, shown>>,
         how = "failed" => groups = {"none"},
         how = "completed" => groups = AvailableGroups /\ groups # {}
  PROVE  IInv'
<1> USE DEF IInv
<1>1. /\ status' = how /\ metadata' = groups
      /\ states' \in [Key -> {"idle", "pending", "ready", "completed", "unavailable", "failed"}]
      /\ datasets' \in [Key -> {"absent", "run", "fallback"}]
      /\ \A s \in Base : /\ states'[s] = IF how = "completed" THEN "ready" ELSE "unavailable"
                         /\ datasets'[s] = IF how = "completed" THEN "run" ELSE "absent"
      /\ states'[Deferred] = states[Deferred]
      /\ datasets'[Deferred] = IF datasets[Deferred] = "absent" THEN "absent" ELSE "run"
  BY KeyFacts DEF FinalizeRun, TypeOK
<1>2. RepositoryOK'
  BY <1>1 DEF RepositoryOK, Terminal, Gone
<1>3. RunInv'
  BY <1>1 DEF RunInv
<1>4. RowsInv'
  <2>1. \A k \in Key : datasets'[k] # "fallback"
    BY <1>1, KeyFacts DEF TypeOK
  <2>2. \A k \in Key : states'[k] \in {"ready", "completed"} => datasets'[k] # "absent"
    BY <1>1, KeyFacts DEF RowsInv, ReadyHasRows
  <2> QED
    BY <2>1, <2>2 DEF RowsInv, ReadyHasRows, RowsExpireTogether
<1>5. DeferredInv'
  BY <1>1 DEF DeferredInv, Alone
<1>6. ShownInv'
  <2>1. CASE how = "failed"
    <3>1. \A c \in Section : Current(c)' = "unavailable"
      BY <1>1, <2>1, Views DEF FailedSays
    <3> QED
      BY <3>1, <1>1, <2>1 DEF ShownInv, Agrees
  <2>2. CASE how = "completed"
    <3>1. /\ metadata' # {} /\ metadata' # {"none"}
          /\ Current("overview")' = "ready"
          /\ Current("warehouse")' = IF "account_usage" \notin metadata' THEN "unavailable" ELSE "ready"
      BY <1>1, <1>2, <2>2, Views DEF CompletedSays, AvailableGroups, Group
    <3>2. /\ EstimatedBasis \in Base /\ WarehouseBasis \in Base /\ BilledBasis \in Base
          /\ \A s \in Base : states[s] = Progress(s)
          /\ metadata' = AvailableGroups
      BY <1>1, <2>2, KeyFacts DEF RunInv, Gating
    <3>3. shown["overview"] # "unavailable"
      <4>1. SUFFICES ASSUME shown["overview"] = "unavailable" PROVE FALSE
        OBVIOUS
      <4>2. Current("overview") = "unavailable"
        BY <4>1 DEF ShownInv, Agrees, Section, Gone
      <4>3. states[BilledBasis] = "unavailable" /\ states[EstimatedBasis] = "unavailable"
        BY <4>2, <3>2, Views DEF RunningSays, Progress
      <4>4. job[BilledBasis] # "landed" /\ job[EstimatedBasis] # "landed"
        BY <4>3, <3>2 DEF Progress
      <4>5. ~Landed(OrgSource) /\ ~Landed(AccountSource)
        BY <4>4, KeyFacts DEF Landed
      <4> QED
        BY <4>5, <3>1, <3>2 DEF AvailableGroups, Group
    <3>4. shown["warehouse"] = "unavailable" => Current("warehouse")' = "unavailable"
      <4>1. SUFFICES ASSUME shown["warehouse"] = "unavailable"
                     PROVE  "account_usage" \notin metadata'
        BY <3>1
      <4>2. Current("warehouse") = "unavailable"
        BY <4>1 DEF ShownInv, Agrees, Section, Gone
      <4>3. states[WarehouseBasis] # "ready"
        BY <4>2, Views DEF RunningSays, RollUp
      <4>4. job[WarehouseBasis] # "landed"
        BY <4>3, <3>2 DEF Progress
      <4>5. ~Landed(AccountSource)
        BY <4>4, KeyFacts DEF Landed
      <4> QED
        BY <4>5, <3>2 DEF AvailableGroups
    <3> QED
      BY <3>1, <3>3, <3>4 DEF ShownInv, Agrees, Section
  <2> QED
    BY <2>1, <2>2
<1>7. TypeOK'
  BY <1>2 DEF TypeOK, RepositoryOK, OthersOK
<1> QED
  BY <1>3, <1>4, <1>5, <1>6, <1>7

LEMMA BuildInv == ASSUME IInv, BuildDone \/ BuildRaises PROVE IInv'
<1> USE DEF IInv
<1>1. worker' = "over" /\ UNCHANGED <<job, deadline, aged, request, fetches, shown>>
  BY DEF BuildDone, BuildRaises, clocks, requestVars
<1>2. OthersOK'
  BY <1>1 DEF OthersOK, TypeOK
<1>3. PICK how \in {"completed", "failed"}, groups \in {{"none"}} \cup SUBSET Group :
        /\ FinalizeRun(how, groups)
        /\ how = "failed" => groups = {"none"}
        /\ how = "completed" => groups = AvailableGroups /\ groups # {}
  <2>1. AvailableGroups \in SUBSET Group
    BY DEF AvailableGroups
  <2> QED
    BY <2>1 DEF BuildDone, BuildRaises
<1>4. CASE Stale
  <2>1. Dropped
    BY <1>3, <1>4, ExpireDrops DEF FinalizeRun
  <2> QED
    BY <2>1, <1>1, <1>2, DropInv DEF DeferredInv, Alone
<1>5. CASE status # "running"
  <2>1. UNCHANGED repository
    BY <1>3, <1>5 DEF FinalizeRun, Stale
  <2>2. DeferredInv'
    BY <2>1, <1>1 DEF DeferredInv, Alone, repository
  <2> QED
    BY <2>1, <2>2, <1>1, <1>2, <1>5, KeepInv
<1>6. CASE status = "running" /\ ~Stale
  BY <1>1, <1>2, <1>3, <1>6, FinalizeInv
<1> QED
  BY <1>4, <1>5, <1>6

(***************************************************************************)
(* The requests.                                                            *)
(***************************************************************************)
LEMMA ViewInv == ASSUME IInv, View PROVE IInv'
<1> USE DEF IInv
<1>1. CASE IsExpired
  <2>1. Dropped /\ OthersOK' /\ UNCHANGED <<worker, job, request>>
    BY <1>1, ExpireDrops DEF View, OthersOK, TypeOK, clocks, workerVars, requestVars
  <2> QED
    BY <2>1, DropInv DEF DeferredInv, Alone, RunInv
<1>2. CASE ~IsExpired
  <2>1. /\ shown' = [c \in Section |-> Current(c)] /\ UNCHANGED <<status, datasets, states, metadata>>
        /\ UNCHANGED <<deadline, aged, worker, job, request, fetches>>
    BY <1>2 DEF View, Current, Section, repository, clocks, workerVars, requestVars
  <2>2. \A c \in Section : Current(c)' = Current(c)
    BY <2>1 DEF Current, OverviewStatus, Effective, Section
  <2>3. \A c \in Section : Current(c) \in {"pending", "ready", "unavailable"}
    BY DEF Current, OverviewStatus, RollUp, Section
  <2>4. shown' \in [Section -> {"none", "pending", "ready", "unavailable"}]
    BY <2>1, <2>3
  <2>5. TypeOK'
    BY <2>1, <2>4 DEF TypeOK
  <2>6. RunInv' /\ RowsInv' /\ DeferredInv'
    BY <2>1 DEF RunInv, Progress, RowsInv, ReadyHasRows, RowsExpireTogether, DeferredInv, Alone
  <2>7. ShownInv'
    BY <2>1, <2>2 DEF ShownInv, Agrees, Section
  <2> QED
    BY <2>5, <2>6, <2>7
<1> QED
  BY <1>1, <1>2

\* The state and the rows of the deferred source change; a claim changes the
\* state only.
LEMMA DeferredStep ==
  ASSUME IInv, NEW value \in {"pending", "completed", "failed"}, NEW clock,
         states' = [states EXCEPT ![Deferred] = value],
         datasets' = [datasets EXCEPT ![Deferred] = clock],
         clock = (IF value = "completed" THEN InheritedClock ELSE datasets[Deferred]),
         value = "completed" => status \notin Gone,
         UNCHANGED <<status, metadata, worker, job, shown>>, OthersOK', DeferredInv'
  PROVE  IInv'
<1> USE DEF IInv
<1>1. clock \in {"absent", "run", "fallback"} /\ Deferred \in Key
  BY KeyFacts DEF InheritedClock, TypeOK
<1>2. /\ \A k \in Key : datasets'[k] = IF k = Deferred THEN clock ELSE datasets[k]
      /\ \A k \in Key : states'[k] = IF k = Deferred THEN value ELSE states[k]
      /\ \A s \in Base : datasets'[s] = datasets[s] /\ states'[s] = states[s]
  BY KeyFacts DEF TypeOK
<1>3. RepositoryOK'
  <2>1. status \in Gone => clock = datasets[Deferred]
    OBVIOUS
  <2> QED
    BY <1>1, <1>2, <2>1, TypeParts DEF RepositoryOK
<1>4. RunInv'
  BY <1>2 DEF RunInv, Progress
<1>5. RowsInv'
  <2>1. ReadyHasRows'
    BY <1>2 DEF RowsInv, ReadyHasRows, InheritedClock
  <2>2. RowsExpireTogether'
    BY <1>1, <1>2 DEF RowsInv, RowsExpireTogether, InheritedClock
  <2> QED
    BY <2>1, <2>2 DEF RowsInv
<1>6. ShownInv'
  BY <1>2, <1>3, <1>4, ShownKept
<1>7. TypeOK'
  BY <1>3 DEF TypeOK, RepositoryOK, OthersOK
<1> QED
  BY <1>4, <1>5, <1>6, <1>7

LEMMA ClaimInv == ASSUME IInv, NEW r \in Requester, ClaimSource(r) PROVE IInv'
<1> USE DEF IInv
<1>1. UNCHANGED <<deadline, aged, worker, job, shown>>
  BY DEF ClaimSource, clocks, workerVars
<1>2. CASE Stale \/ (status = "completed" /\ IsExpired)
  <2>1. Dropped /\ UNCHANGED <<request, fetches>>
    BY <1>2, ExpireDrops DEF ClaimSource, requestVars
  <2>2. OthersOK'
    BY <1>1, <2>1 DEF OthersOK, TypeOK
  <2> QED
    BY <1>1, <2>1, <2>2, DropInv DEF DeferredInv, Alone, RunInv
<1>3. CASE ~(Stale \/ (status = "completed" /\ IsExpired))
  <2>1. /\ Claimable /\ fetches < MaxFetches
        /\ states' = [states EXCEPT ![Deferred] = "pending"]
        /\ request' = [request EXCEPT ![r] = "fetching"]
        /\ fetches' = fetches + 1
        /\ UNCHANGED <<status, datasets, metadata>>
    BY <1>3 DEF ClaimSource
  <2>2. OthersOK'
    BY <1>1, <2>1, BoundAssumption DEF OthersOK, TypeOK
  <2>3. \A q \in Requester : request[q] = "idle"
    BY <2>1 DEF Claimable, DeferredInv
  <2>4. states'[Deferred] = "pending"
    BY <2>1, KeyFacts DEF TypeOK
  <2>5. DeferredInv'
    BY <2>1, <2>3, <2>4 DEF DeferredInv, Alone, TypeOK
  <2>6. datasets' = [datasets EXCEPT ![Deferred] = datasets[Deferred]]
    BY <2>1, KeyFacts DEF TypeOK
  <2> QED
    BY <1>1, <2>1, <2>2, <2>5, <2>6, DeferredStep
<1> QED
  BY <1>2, <1>3

LEMMA FetchDeferredInv == ASSUME IInv, NEW r \in Requester, FetchDeferred(r) PROVE IInv'
<1> USE DEF IInv
<1>1. /\ UNCHANGED <<repository, deadline, aged, worker, job, fetches, shown>>
      /\ request[r] = "fetching"
      /\ request' \in [Requester -> {"idle", "fetching", "fetched", "raised"}]
      /\ \A q \in Requester : request'[q] # "idle" => request[q] # "idle"
  BY DEF FetchDeferred, TypeOK, clocks, workerVars
<1>2. OthersOK'
  BY <1>1 DEF OthersOK, TypeOK
<1>3. DeferredInv'
  BY <1>1 DEF DeferredInv, Alone, repository
<1> QED
  BY <1>1, <1>2, <1>3, KeepInv DEF Progress, RunInv

LEMMA SettleInv == ASSUME IInv, NEW r \in Requester, SettleDeferred(r) PROVE IInv'
<1> USE DEF IInv
<1>1. /\ UNCHANGED <<deadline, aged, worker, job, fetches, shown>>
      /\ request' = [request EXCEPT ![r] = "idle"] /\ request[r] # "idle"
  BY DEF SettleDeferred, clocks, workerVars
<1>2. OthersOK'
  BY <1>1 DEF OthersOK, TypeOK
<1>3. \A q \in Requester : request'[q] = "idle"
  BY <1>1 DEF DeferredInv, Alone, TypeOK
<1>4. DeferredInv'
  BY <1>3 DEF DeferredInv, Alone
<1>5. CompleteSource(Deferred) \/ FailSource(Deferred)
  BY DEF SettleDeferred
<1>6. CASE Stale
  <2>1. Dropped
    BY <1>5, <1>6, ExpireDrops DEF CompleteSource, FailSource
  <2> QED
    BY <1>1, <1>2, <1>4, <2>1, DropInv DEF DeferredInv, RunInv
<1>7. CASE UNCHANGED repository
  BY <1>1, <1>2, <1>4, <1>7, KeepInv DEF Progress, RunInv
<1>8. CASE ~Stale /\ ~UNCHANGED repository
  <2>1. UNCHANGED <<status, metadata>>
    BY <1>5, <1>8, KeyFacts DEF CompleteSource, FailSource
  <2>2. CASE CompleteSource(Deferred)
    <3>1. /\ status \notin Gone
          /\ states' = [states EXCEPT ![Deferred] = "completed"]
          /\ datasets' = [datasets EXCEPT ![Deferred] = InheritedClock]
      BY <2>2, <1>8, KeyFacts DEF CompleteSource
    <3> QED
      BY <1>1, <1>2, <1>4, <2>1, <3>1, DeferredStep
  <2>3. CASE FailSource(Deferred)
    <3>1. states' = [states EXCEPT ![Deferred] = "failed"] /\ UNCHANGED datasets
      BY <2>3, <1>8, KeyFacts DEF FailSource
    <3>2. datasets' = [datasets EXCEPT ![Deferred] = datasets[Deferred]]
      BY <3>1, KeyFacts DEF TypeOK
    <3> QED
      BY <1>1, <1>2, <1>4, <2>1, <3>1, <3>2, DeferredStep
  <2> QED
    BY <1>5, <2>2, <2>3
<1> QED
  BY <1>6, <1>7, <1>8

LEMMA DropStepInv == ASSUME IInv, GetRun \/ DeleteRun PROVE IInv'
<1> USE DEF IInv
<1>1. Dropped /\ UNCHANGED <<deadline, aged, worker, job, request, fetches, shown>>
  BY ExpireDrops DEF GetRun, DeleteRun, Dropped, Gone, clocks, workerVars, requestVars
<1>2. OthersOK'
  BY <1>1 DEF OthersOK, TypeOK
<1> QED
  BY <1>1, <1>2, DropInv DEF DeferredInv, Alone, RunInv

LEMMA ClockInv ==
  ASSUME IInv, UNCHANGED vars \/ DeadlinePasses \/ \E clock \in {"run", "fallback"} : RowsAge(clock)
  PROVE  IInv'
<1> USE DEF IInv
<1>1. /\ UNCHANGED <<repository, worker, job, request, fetches, shown>>
      /\ deadline' \in BOOLEAN /\ aged' \in SUBSET {"run", "fallback"}
  BY DEF vars, DeadlinePasses, RowsAge, TypeOK, repository, workerVars, requestVars
<1>2. OthersOK' /\ DeferredInv'
  BY <1>1 DEF OthersOK, TypeOK, DeferredInv, Alone, repository
<1> QED
  BY <1>1, <1>2, KeepInv DEF Progress, RunInv

LEMMA InitInv == Init => IInv
<1> SUFFICES ASSUME Init PROVE IInv
  OBVIOUS
<1>1. /\ \A s \in Base : job[s] = "none"
      /\ \A r \in Requester : request[r] = "idle"
      /\ \A c \in Section : shown[c] = "none"
  BY DEF Init
<1>2. OthersOK
  <2>1. job \in [Base -> {"none"}] /\ request \in [Requester -> {"idle"}]
        /\ shown \in [Section -> {"none"}] /\ worker \in {"resolving", "over"}
        /\ deadline = FALSE /\ aged = {} /\ fetches = 0
    BY DEF Init
  <2>2. fetches \in 0..MaxFetches
    BY <2>1, BoundAssumption
  <2>3. aged \in SUBSET {"run", "fallback"}
    BY <2>1
  <2> QED
    BY <2>1, <2>2, <2>3 DEF OthersOK
<1>3. DeferredInv /\ ShownInv
  BY <1>1 DEF DeferredInv, Alone, ShownInv, Agrees, Section
<1>4. CASE status = "running"
  <2>1. /\ \A k \in Key : datasets[k] = "absent" /\ states[k] = IF k \in Base THEN "pending" ELSE "idle"
        /\ worker = "resolving" /\ metadata = {"none"}
        /\ datasets \in [Key -> {"absent"}] /\ states \in [Key -> {"pending", "idle"}]
    BY <1>4 DEF Init, Nothing
  <2>2. RepositoryOK
    BY <1>4, <2>1, KeyFacts DEF RepositoryOK, Terminal, Gone
  <2>3. RunInv /\ RowsInv
    BY <1>1, <1>4, <2>1, KeyFacts
    DEF RunInv, Progress, RowsInv, ReadyHasRows, RowsExpireTogether
  <2> QED
    BY <1>2, <1>3, <2>2, <2>3, TypeParts DEF IInv
<1>5. CASE status # "running"
  <2>1. /\ status = "completed" /\ worker = "over"
        /\ metadata \in {{"none"}} \cup ((SUBSET Group) \ {{}})
    BY <1>5 DEF Init
  <2>2. PICK carried \in BOOLEAN :
          /\ datasets = [k \in Key |-> IF k \in Base \/ carried THEN "run" ELSE "absent"]
          /\ states = [k \in Key |-> IF k \in Base THEN "ready"
                                     ELSE IF carried THEN "completed" ELSE "idle"]
    BY <1>5 DEF Init
  <2>3. /\ \A k \in Key : datasets[k] # "fallback"
        /\ datasets \in [Key -> {"absent", "run"}]
        /\ \A s \in Base : states[s] = "ready"
        /\ states \in [Key -> {"ready", "completed", "idle"}]
        /\ \A k \in Key : states[k] \in {"ready", "completed"} => datasets[k] # "absent"
    BY <2>2, KeyFacts
  <2>4. RepositoryOK
    BY <2>1, <2>3 DEF RepositoryOK, Terminal, Gone
  <2>5. RunInv /\ RowsInv
    BY <1>5, <2>1, <2>3, KeyFacts DEF RunInv, RowsInv, ReadyHasRows, RowsExpireTogether
  <2> QED
    BY <1>2, <1>3, <2>4, <2>5, TypeParts DEF IInv
<1> QED
  BY <1>4, <1>5

LEMMA StepInv == IInv /\ [Next]_vars => IInv'
<1> SUFFICES ASSUME IInv, [Next]_vars PROVE IInv'
  OBVIOUS
<1>1. CASE ResolveLocator \/ \E s \in Base : FetchSource(s) \/ StreamOutcome(s) \/ FailOutcome(s)
  BY <1>1, ResolveInv, FetchInv, StoreInv, CompleteInv, FailInv DEF StreamOutcome
<1>2. CASE \E r \in Requester : ClaimSource(r) \/ FetchDeferred(r) \/ SettleDeferred(r)
  BY <1>2, ClaimInv, FetchDeferredInv, SettleInv
<1> QED
  BY <1>1, <1>2, BuildInv, ViewInv, DropStepInv, ClockInv DEF Next

LEMMA InvHolds == Spec => []IInv
BY InitInv, StepInv, PTL DEF Spec

(***************************************************************************)
(* The promises of the run.                                                 *)
(***************************************************************************)

\* The repository and its threads stay well typed; a dropped run holds no rows,
\* and a settled one has no source in progress.
THEOREM TypeCorrectness == Spec => []TypeOK
<1>1. IInv => TypeOK
  BY DEF IInv
<1> QED
  BY <1>1, InvHolds, PTL

\* The comment of set_dataset: no reader ever sees a status whose rows are not
\* stored, whichever thread delivers, settles or drops the run.
THEOREM StatusHasRows == Spec => []ReadyHasRows
<1>1. IInv => ReadyHasRows
  BY DEF IInv, RowsInv
<1> QED
  BY <1>1, InvHolds, PTL

\* finalize_run and complete_source: all rows of a settled run share a retention.
THEOREM RetentionIsShared == Spec => []RowsExpireTogether
<1>1. IInv => RowsExpireTogether
  BY DEF IInv, RowsInv
<1> QED
  BY <1>1, InvHolds, PTL

\* claim_source: at most one request fetches the deferred source of a run.
THEOREM DeferredFetchIsAlone == Spec => []OneDeferredFetch
<1>1. IInv => OneDeferredFetch
  <2> SUFFICES ASSUME IInv PROVE OneDeferredFetch
    OBVIOUS
  <2> DEFINE busy == {r \in Requester : request[r] # "idle"}
  <2>1. busy = {} \/ \E r \in Requester : busy = {r}
    BY DEF IInv, DeferredInv, Alone
  <2>2. Cardinality({}) = 0 /\ \A r : Cardinality({r}) = 1
    BY FS_EmptySet, FS_Singleton
  <2> HIDE DEF busy
  <2>3. Cardinality(busy) \in {0, 1}
    BY <2>1, <2>2
  <2> QED
    BY <2>3 DEF OneDeferredFetch, busy
<1> QED
  BY <1>1, InvHolds, PTL

\* Only a view changes what was shown, to what the repository says now.
LEMMA OnlyViewsShow ==
  ASSUME [Next]_vars
  PROVE  shown' = shown \/ (status \notin Gone /\ shown' = [c \in Section |-> Current(c)])
<1>1. CASE View
  BY <1>1 DEF View, Current, Section
<1> QED
  BY <1>1 DEF Next, vars, ResolveLocator, FetchSource, StreamOutcome, StoreOutcome, CompleteOutcome,
     FailOutcome, BuildDone, BuildRaises, GetRun, DeleteRun, ClaimSource, FetchDeferred,
     SettleDeferred, DeadlinePasses, RowsAge

\* What a polling client was shown stays true: sections only settle, and only a
\* failed run takes a ready overview back.
THEOREM ShownSettles == Spec => SectionsOnlySettle
<1>1. IInv /\ [Next]_vars => SettledStays
  <2> SUFFICES ASSUME IInv, [Next]_vars PROVE SettledStays
    OBVIOUS
  <2>1. CASE shown' = shown
    BY <2>1 DEF SettledStays
  <2>2. CASE status \notin Gone /\ shown' = [c \in Section |-> Current(c)]
    BY <2>2 DEF SettledStays, IInv, ShownInv, Agrees, Section
  <2> QED
    BY <2>1, <2>2, OnlyViewsShow
<1> QED
  BY <1>1, InvHolds, PTL DEF Spec, SectionsOnlySettle

(***************************************************************************)
(* Refinement of RunLifecycle.                                              *)
(***************************************************************************)

\* The refinement mapping: the gating sources that may be rendered.
Ready == {s \in Gating : Effective(s) = "ready"}

LEMMA GatingFact == Lifecycle!Gating = Gating
BY DEF Lifecycle!Gating, Gating

\* A completed run renders whole groups.
GroupsWhole == RepositoryOK /\ status = "completed" /\ metadata # {} => Ready \in Lifecycle!Rendered

LEMMA CompletedGroups == GroupsWhole
<1> SUFFICES ASSUME RepositoryOK, status = "completed", metadata # {}
             PROVE  Ready \in Lifecycle!Rendered
  BY DEF GroupsWhole
<1>1. Ready = IF metadata = {"none"} THEN Gating
              ELSE {s \in Gating : (IF s \in AccountSource THEN "account_usage"
                                    ELSE "organization_usage") \in metadata}
  BY Views DEF CompletedSays, Ready
<1>2. metadata = {"none"} \/ metadata = {"account_usage"} \/ metadata = {"organization_usage"}
      \/ metadata = Group
  BY DEF RepositoryOK, Group
<1>3. \A s \in Gating : s \in AccountSource <=> s \in {EstimatedBasis, WarehouseBasis}
  BY KeyFacts DEF Gating
<1>4. Ready = Gating \/ Ready = {EstimatedBasis, WarehouseBasis} \/ Ready = {BilledBasis}
  <2>1. CASE metadata = {"none"} \/ metadata = Group
    BY <1>1, <2>1 DEF Group
  <2>2. CASE metadata = {"account_usage"}
    BY <1>1, <1>3, <2>2 DEF Gating
  <2>3. CASE metadata = {"organization_usage"}
    BY <1>1, <1>3, <2>3, KeyFacts DEF Gating
  <2> QED
    BY <1>2, <2>1, <2>2, <2>3
<1> QED
  BY <1>4, GatingFact DEF Lifecycle!Rendered

LEMMA CompletedGroupsNext == GroupsWhole'
BY CompletedGroups, PTL

LEMMA LifecycleInit == Init => Lifecycle!Init
<1> SUFFICES ASSUME Init
             PROVE  \/ status = "running" /\ Ready = {}
                    \/ status = "completed" /\ Ready \in Lifecycle!Rendered
  BY DEF Lifecycle!Init, Ready
<1>1. RepositoryOK /\ RunInv
  BY InitInv, TypeParts DEF IInv
<1>2. CASE status = "running"
  <2>1. \A s \in Gating : Effective(s) = "pending"
    BY <1>2, KeyFacts, Views DEF Init, RunningSays
  <2> QED
    BY <1>2, <2>1 DEF Ready
<1>3. CASE status = "completed"
  BY <1>1, <1>3, CompletedGroups DEF GroupsWhole, RunInv
<1> QED
  BY <1>2, <1>3 DEF Init

\* The four ways in which a step of the run is one of its lifecycle, or none.
Expires == /\ Dropped
           /\ status' = "deleted" \/ (status \notin Gone /\ status' = "expired")
Stutters == UNCHANGED <<status, metadata>> /\ \A s \in Base : states'[s] = states[s]
Lands(s) == /\ status = "running" /\ UNCHANGED <<status, metadata>>
            /\ states' = [states EXCEPT ![s] = "ready"]
Misses(s) == /\ status = "running" /\ UNCHANGED <<status, metadata>>
             /\ states' = [states EXCEPT ![s] = "unavailable"] /\ states[s] = "pending"

LEMMA ExpiresMaps == ASSUME Expires PROVE Lifecycle!Drop
<1>1. \A s \in Gating : Effective(s)' = "idle"
  BY KeyFacts DEF Expires, Dropped, Nothing, Effective
<1> QED
  BY <1>1 DEF Lifecycle!Drop, Expires, Gone

LEMMA StuttersMaps == ASSUME Stutters PROVE UNCHANGED <<status, Ready>>
<1>1. \A s \in Gating : Effective(s)' = Effective(s)
  BY KeyFacts DEF Stutters, Effective
<1> QED
  BY <1>1 DEF Ready, Stutters

LEMMA LandsMaps ==
  ASSUME TypeOK, NEW s \in Base, Lands(s)
  PROVE  (\E t \in Gating : Lifecycle!Land(t)) \/ UNCHANGED <<status, Ready>>
<1>1. \A k \in Gating : Effective(k) = states[k] /\ Effective(k)' = states'[k]
  BY KeyFacts, Views DEF Lands, RunningSays
<1>2. \A k \in Gating : states'[k] = IF k = s THEN "ready" ELSE states[k]
  BY KeyFacts DEF TypeOK, Lands
<1>3. Ready' = IF s \in Gating THEN Ready \cup {s} ELSE Ready
  BY <1>1, <1>2 DEF Ready
<1> QED
  BY <1>3 DEF Lifecycle!Land, Lands, Ready

LEMMA MissesMaps == ASSUME TypeOK, NEW s \in Base, Misses(s) PROVE UNCHANGED <<status, Ready>>
<1>1. \A k \in Gating : Effective(k) = states[k] /\ Effective(k)' = states'[k]
  BY KeyFacts, Views DEF Misses, RunningSays
<1>2. \A k \in Gating : states'[k] = IF k = s THEN "unavailable" ELSE states[k]
  BY KeyFacts DEF TypeOK, Misses
<1> QED
  BY <1>1, <1>2 DEF Ready, Misses

LEMMA SettlesMaps ==
  ASSUME IInv, IInv', status = "running", status' \in {"completed", "failed"}
  PROVE  Lifecycle!Complete \/ Lifecycle!Abort
<1>1. CASE status' = "completed"
  BY <1>1, CompletedGroupsNext
  DEF GroupsWhole, IInv, TypeOK, RepositoryOK, RunInv, Lifecycle!Complete, Ready
<1>2. CASE status' = "failed"
  <2>1. metadata' = {"none"} /\ \A s \in Base : states'[s] = "unavailable"
    BY <1>2 DEF IInv, RunInv
  <2>2. \A s \in Gating : Effective(s)' # "ready"
    BY <2>1, KeyFacts DEF Effective
  <2> QED
    BY <1>2, <2>2 DEF Lifecycle!Abort
<1> QED
  BY <1>1, <1>2

LEMMA StepWays ==
  ASSUME IInv, [Next]_vars
  PROVE  \/ Expires \/ Stutters
         \/ \E s \in Base : Lands(s) \/ Misses(s)
         \/ status = "running" /\ status' \in {"completed", "failed"}
<1>1. CASE \E s \in Base : StreamOutcome(s) \/ FailOutcome(s)
  <2>1. PICK s \in Base : StreamOutcome(s) \/ FailOutcome(s)
    BY <1>1
  <2>2. job[s] = "lost" /\ status = "running" => states[s] = "pending"
    BY DEF IInv, RunInv, Progress
  <2> QED
    BY <2>1, <2>2, ExpireDrops DEF StreamOutcome, StoreOutcome, CompleteOutcome, FailOutcome,
       SetDataset, CompleteSource, FailSource, Stale, ExpireRun, Expires, Stutters, Lands, Misses,
       Gone, repository
<1>2. CASE BuildDone \/ BuildRaises
  BY <1>2, ExpireDrops DEF BuildDone, BuildRaises, FinalizeRun, Stale, ExpireRun, Expires, Stutters,
     Gone, repository
<1>3. CASE \E r \in Requester : ClaimSource(r) \/ FetchDeferred(r) \/ SettleDeferred(r)
  BY <1>3, ExpireDrops, KeyFacts DEF ClaimSource, FetchDeferred, SettleDeferred, CompleteSource,
     FailSource, Stale, ExpireRun, Expires, Stutters, Gone, repository, IInv, TypeOK
<1>4. CASE GetRun \/ View \/ DeleteRun
  BY <1>4, ExpireDrops DEF GetRun, View, DeleteRun, Stale, ExpireRun, Expires, Stutters, Dropped,
     Gone, repository
<1>5. CASE UNCHANGED repository
  BY <1>5 DEF Stutters, repository
<1> QED
  BY <1>1, <1>2, <1>3, <1>4, <1>5 DEF Next, vars, repository, ResolveLocator, FetchSource,
     DeadlinePasses, RowsAge

LEMMA LifecycleStep == IInv /\ IInv' /\ [Next]_vars => [Lifecycle!Next]_(Lifecycle!vars)
<1> SUFFICES ASSUME IInv, IInv', [Next]_vars
             PROVE  Lifecycle!Next \/ UNCHANGED <<status, Ready>>
  BY DEF Lifecycle!vars, Ready
<1>1. CASE \E s \in Base : Lands(s)
  BY <1>1, LandsMaps, GatingFact DEF IInv, Lifecycle!Next
<1> QED
  BY <1>1, StepWays, ExpiresMaps, StuttersMaps, MissesMaps, SettlesMaps DEF IInv, Lifecycle!Next

\* The repository with all its threads implements what polling clients rely on.
THEOREM Refinement == Spec => ImplementsLifecycle
BY LifecycleInit, LifecycleStep, InvHolds, PTL DEF Spec, ImplementsLifecycle, Lifecycle!Spec

LEMMA RenderedStep ==
  (status = "completed" => Ready \in Lifecycle!Rendered) /\ [Lifecycle!Next]_(Lifecycle!vars)
    => (status = "completed" => Ready \in Lifecycle!Rendered)'
BY DEF Lifecycle!Next, Lifecycle!vars, Lifecycle!Land, Lifecycle!Complete, Lifecycle!Abort,
   Lifecycle!Drop, Lifecycle!Rendered, Lifecycle!Gating, Ready

\* A completed run renders at every moment until it is dropped: all gating sources
\* of the account or of the organization, or both, never a part of a group.
THEOREM CompletedRunsRender ==
  Spec => [](status = "completed" => Ready \in Lifecycle!Rendered)
<1>1. Lifecycle!Init => (status = "completed" => Ready \in Lifecycle!Rendered)
  BY DEF Lifecycle!Init, Ready
<1> QED
  BY <1>1, RenderedStep, Refinement, PTL DEF ImplementsLifecycle, Lifecycle!Spec
=============================================================================
