----------------------------- MODULE Supervisor -----------------------------
(***************************************************************************)
(* The tenant supervisor of one Automated Savings worker process            *)
(* (apps/auto-savings, tenant_loop.supervisor with main.session_factory):   *)
(* every refresh it re-reads which organizations to serve, starts, drains   *)
(* and restarts their loops, and recycles a loop whose Snowflake connection *)
(* rotated, while tables, connections and loops change between its awaits.  *)
(* A tenant loop is here only a task that runs, ends when told to, or       *)
(* crashes; TenantTick models its inside. A drain is past its first await   *)
(* when a cancellation reaches it.                                          *)
(***************************************************************************)
EXTENDS Naturals, FiniteSets

CONSTANTS
    Org,           \* organizations with an enabled warehouse, now or later
    Shard,         \* those this replica owns (sharding.owns_tenant)
    LoopId,        \* loops (task, stop event and session); reused when free
    NoLoop,        \* "no loop"
    MaxVersion,    \* bound: connection versions of one organization
    MaxChanges,    \* bound: changes of tables and connections
    MaxFaults      \* bound: failed calls and crashed tasks

ASSUME ShardAssumption == Shard \subseteq Org
ASSUME NoLoopAssumption == NoLoop \notin LoopId
ASSUME BoundsAssumption == MaxVersion \in Nat \ {0} /\ MaxChanges \in Nat /\ MaxFaults \in Nat

VARIABLES
    tenants,    \* store.worker_tenants(), as the tables stand
    config,     \* connection of each organization, 0 = not configured
    pc,         \* where the supervisor is
    owned,      \* tenants of this refresh
    todo,       \* organizations the running phase has not reached
    running,    \* the dict of entries
    draining,   \* loops a _drain_loop is at work on
    awaited,    \* loops whose drains the supervisor awaits, done or not
    recycled,   \* organization being recycled or dropped
    loops,      \* every loop created
    shutdown,   \* the process is shutting down: the supervisor was cancelled
    changes, faults

supervisorVars == <<pc, owned, todo, running, draining, awaited, recycled>>
vars == <<tenants, config, supervisorVars, loops, shutdown, changes, faults>>

\* creds is the connection the session was built from, fingerprint the one the
\* supervisor compares; session tells whether it still has to be closed.
Loop == [org : Org, creds : 1..MaxVersion, fingerprint : 1..MaxVersion,
         task : {"live", "cancelling", "ended", "crashed", "cancelled"},
         stop : BOOLEAN, session : BOOLEAN]
Free == [task |-> "free", session |-> FALSE]

TypeOK ==
    /\ tenants \in SUBSET Org
    /\ config \in [Org -> 0..MaxVersion]
    /\ pc \in {"enumerate", "start", "removing", "revalidate", "recycle", "drop", "restart",
               "sleep", "exiting", "exited"}
    /\ owned \in SUBSET Org /\ todo \in SUBSET Org
    /\ running \in [Org -> LoopId \cup {NoLoop}]
    /\ draining \in SUBSET LoopId /\ awaited \in SUBSET LoopId
    /\ recycled \in Org \cup {NoLoop}
    /\ loops \in [LoopId -> Loop \cup {Free}]
    /\ shutdown \in BOOLEAN
    /\ changes \in 0..MaxChanges /\ faults \in 0..MaxFaults

Init ==
    /\ tenants \in SUBSET Org
    /\ config \in [Org -> 0..1]
    /\ pc = "enumerate" /\ owned = {} /\ todo = {}
    /\ running = [o \in Org |-> NoLoop]
    /\ draining = {} /\ awaited = {}
    /\ recycled = NoLoop
    /\ loops = [l \in LoopId |-> Free]
    /\ shutdown = FALSE
    /\ changes = 0 /\ faults = 0

Live(l) == loops[l].task \in {"live", "cancelling"}
Fault   == faults < MaxFaults /\ faults' = faults + 1
NoFault == faults' = faults

-----------------------------------------------------------------------------
(* The world: switches and connections change, tasks end or crash.          *)

\* An administrator turns an organization's automated savings on or off.
SwitchTenant(o) ==
    /\ changes < MaxChanges /\ changes' = changes + 1
    /\ tenants' = IF o \in tenants THEN tenants \ {o} ELSE tenants \cup {o}
    /\ UNCHANGED <<config, supervisorVars, loops, shutdown, faults>>

\* An organization connects, disconnects (0) or connects anew.
ChangeConnection(o, v) ==
    /\ changes < MaxChanges /\ changes' = changes + 1
    /\ config[o] # v
    /\ config' = [config EXCEPT ![o] = v]
    /\ UNCHANGED <<tenants, supervisorVars, loops, shutdown, faults>>

\* tenant_loop sees its stop event and returns, or was cancelled and raises;
\* its last tick is drained either way.
TaskEnds(l) ==
    /\ Live(l) /\ loops[l].stop
    /\ loops' = [loops EXCEPT ![l].task = IF @ = "live" THEN "ended" ELSE "cancelled"]
    /\ UNCHANGED <<tenants, config, supervisorVars, shutdown, changes, faults>>

TaskCrashes(l) ==
    /\ loops[l].task = "live"
    /\ Fault
    /\ loops' = [loops EXCEPT ![l].task = "crashed"]
    /\ UNCHANGED <<tenants, config, supervisorVars, shutdown, changes>>

-----------------------------------------------------------------------------
(* The refresh.                                                             *)

\* A transient store failure leaves every loop as it is.
Enumerate ==
    /\ pc = "enumerate" /\ ~shutdown
    /\ \/ /\ owned' = tenants \cap Shard
          /\ todo' = {o \in owned' : running[o] = NoLoop}
          /\ pc' = "start" /\ NoFault
       \/ pc' = "sleep" /\ Fault /\ UNCHANGED <<owned, todo>>
    /\ UNCHANGED <<tenants, config, running, draining, awaited, recycled, loops, shutdown,
                   changes>>

\* A record for a new loop; a bound of the model if there are too few.
FreeLoop == {l \in LoopId : loops[l] = Free}

\* Mutant: session and fingerprint come from two reads of the connection.
SessionFactoryTwoReads(o) ==
    LET l == CHOOSE m \in FreeLoop : TRUE
    IN  \/ /\ config[o] # 0 /\ FreeLoop # {}
           /\ NoFault
           /\ \E creds \in 1..MaxVersion :
                loops' = [loops EXCEPT ![l] = [org |-> o, creds |-> creds, fingerprint |-> config[o],
                                               task |-> "live", stop |-> FALSE, session |-> TRUE]]
           /\ running' = [running EXCEPT ![o] = l]
        \/ /\ IF config[o] = 0 THEN NoFault ELSE Fault
           /\ UNCHANGED <<loops, running>>

\* _start_loop: one resolve gives the session and its fingerprint; a missing
\* connection or a failure leaves the tenant without a loop until next refresh.
StartLoop(o) ==
    LET l == CHOOSE m \in FreeLoop : TRUE
    IN  \/ /\ config[o] # 0 /\ FreeLoop # {}
           /\ NoFault
           /\ loops' = [loops EXCEPT ![l] = [org |-> o, creds |-> config[o], fingerprint |-> config[o],
                                             task |-> "live", stop |-> FALSE, session |-> TRUE]]
           /\ running' = [running EXCEPT ![o] = l]
        \/ /\ IF config[o] = 0 THEN NoFault ELSE Fault
           /\ UNCHANGED <<loops, running>>

StartNewcomer(o) ==
    /\ pc = "start" /\ o \in todo /\ ~shutdown
    /\ StartLoop(o)
    /\ todo' = todo \ {o}
    /\ UNCHANGED <<tenants, config, pc, owned, draining, awaited, recycled, shutdown, changes>>

Signal(ls) == [l \in LoopId |-> IF l \in ls THEN [loops[l] EXCEPT !.stop = TRUE] ELSE loops[l]]

\* Vanished tenants leave the dict together and are told to stop together.
SignalRemoved ==
    /\ pc = "start" /\ todo = {} /\ ~shutdown
    /\ LET removed == {o \in Org : running[o] # NoLoop /\ o \notin owned}
           entries == {running[o] : o \in removed}
       IN  /\ running' = [o \in Org |-> IF o \in removed THEN NoLoop ELSE running[o]]
           /\ draining' = entries /\ awaited' = entries
           /\ loops' = Signal(entries)
    /\ pc' = "removing"
    /\ UNCHANGED <<tenants, config, owned, todo, recycled, shutdown, changes, faults>>

\* Mutant: the session stays open when the task crashed.
CloseUnlessCrashed(l) ==
    /\ l \in draining /\ ~Live(l)
    /\ draining' = draining \ {l}
    /\ loops' = [loops EXCEPT ![l].session = loops[l].task = "crashed"]
    /\ UNCHANGED <<tenants, config, pc, owned, todo, running, awaited, recycled, shutdown, changes,
                   faults>>

\* _drain_loop returns: the task is over and its session closed, whatever the
\* task ended with.
CloseDrained(l) ==
    /\ l \in draining /\ ~Live(l)
    /\ draining' = draining \ {l}
    /\ loops' = [loops EXCEPT ![l].session = FALSE]
    /\ UNCHANGED <<tenants, config, pc, owned, todo, running, awaited, recycled, shutdown, changes,
                   faults>>

\* The records of closed loops that nothing refers to any more are free again.
Reuse(ls) == [l \in LoopId |-> IF l \in ls /\ ~loops[l].session THEN Free ELSE loops[l]]

RemovedDrained ==
    /\ pc = "removing" /\ draining = {} /\ ~shutdown
    /\ todo' = {o \in Org : running[o] # NoLoop}
    /\ pc' = "revalidate"
    /\ awaited' = {}
    /\ loops' = Reuse(awaited)
    /\ UNCHANGED <<tenants, config, owned, running, draining, recycled, shutdown, changes, faults>>

Keep(o) ==
    /\ todo' = todo \ {o}
    /\ UNCHANGED <<pc, draining, awaited, recycled, loops>>

\* The entry is drained first; it stays in the dict until it is.
DrainEntry(o, next) ==
    /\ recycled' = o
    /\ draining' = {running[o]} /\ awaited' = {running[o]}
    /\ loops' = Signal({running[o]})
    /\ pc' = next
    /\ UNCHANGED todo

\* Mutant: a failed lookup counts as a missing connection.
RevalidateFailClosed(o) ==
    /\ pc = "revalidate" /\ o \in todo /\ ~shutdown
    /\ \/ ~Live(running[o]) /\ DrainEntry(o, "recycle") /\ NoFault
       \/ Live(running[o]) /\ DrainEntry(o, "drop") /\ Fault
       \/ /\ Live(running[o]) /\ NoFault
          /\ \/ config[o] = 0 /\ DrainEntry(o, "drop")
             \/ config[o] = loops[running[o]].fingerprint /\ Keep(o)
             \/ config[o] \notin {0, loops[running[o]].fingerprint} /\ DrainEntry(o, "recycle")
    /\ UNCHANGED <<tenants, config, owned, running, shutdown, changes>>

\* A dead task is replaced. Otherwise the connection is looked up again: a
\* failed lookup keeps the loop, a missing connection drops it, a different one
\* recycles it.
Revalidate(o) ==
    /\ pc = "revalidate" /\ o \in todo /\ ~shutdown
    /\ \/ ~Live(running[o]) /\ DrainEntry(o, "recycle") /\ NoFault
       \/ Live(running[o]) /\ Keep(o) /\ Fault
       \/ /\ Live(running[o]) /\ NoFault
          /\ \/ config[o] = 0 /\ DrainEntry(o, "drop")
             \/ config[o] = loops[running[o]].fingerprint /\ Keep(o)
             \/ config[o] \notin {0, loops[running[o]].fingerprint} /\ DrainEntry(o, "recycle")
    /\ UNCHANGED <<tenants, config, owned, running, shutdown, changes>>

\* Mutant: the replacement starts before the old loop is drained.
PopBeforeDrain ==
    /\ pc \in {"recycle", "drop"} /\ ~shutdown
    /\ running' = [running EXCEPT ![recycled] = NoLoop]
    /\ pc' = IF pc = "recycle" THEN "restart" ELSE "revalidate"
    /\ todo' = IF pc = "recycle" THEN todo ELSE todo \ {recycled}
    /\ awaited' = {}
    /\ UNCHANGED <<tenants, config, owned, draining, recycled, loops, shutdown, changes, faults>>

\* The entry is drained: pop it, then start afresh or go on to the next one.
PopDrained ==
    /\ pc \in {"recycle", "drop"} /\ draining = {} /\ ~shutdown
    /\ running' = [running EXCEPT ![recycled] = NoLoop]
    /\ pc' = IF pc = "recycle" THEN "restart" ELSE "revalidate"
    /\ todo' = IF pc = "recycle" THEN todo ELSE todo \ {recycled}
    /\ awaited' = {}
    /\ loops' = Reuse(awaited)
    /\ UNCHANGED <<tenants, config, owned, draining, recycled, shutdown, changes, faults>>

Restart ==
    /\ pc = "restart" /\ ~shutdown
    /\ StartLoop(recycled)
    /\ todo' = todo \ {recycled}
    /\ pc' = "revalidate"
    /\ UNCHANGED <<tenants, config, owned, draining, awaited, recycled, shutdown, changes>>

RefreshDone ==
    /\ pc = "revalidate" /\ todo = {} /\ ~shutdown
    /\ pc' = "sleep"
    /\ UNCHANGED <<tenants, config, owned, todo, running, draining, awaited, recycled, loops,
                   shutdown, changes, faults>>

Wake ==
    /\ pc = "sleep" /\ ~shutdown
    /\ pc' = "enumerate"
    /\ UNCHANGED <<tenants, config, owned, todo, running, draining, awaited, recycled, loops,
                   shutdown, changes, faults>>

\* main() is cancelled while the supervisor is at some await. A wait on drains
\* cancels those not over yet: a drain cancels the task it waits for, or raises
\* where that task has ended already.
Shutdown ==
    /\ ~shutdown
    /\ shutdown' = TRUE
    /\ loops' = [l \in LoopId |->
         CASE l \in draining /\ Live(l)                      -> [loops[l] EXCEPT !.task = "cancelling"]
           [] l \in draining /\ ~Live(l) /\ pc = "removing" -> [loops[l] EXCEPT !.task = "cancelled"]
           [] OTHER                                          -> loops[l]]
    /\ UNCHANGED <<tenants, config, supervisorVars, changes, faults>>

Entries == {running[o] : o \in Org} \ {NoLoop}

\* gather returns when every drain is over, or with the first one that raises:
\* that of a cancelled task. The others go on without the supervisor.
Resumes == \/ awaited \cap draining = {}
           \/ \E l \in awaited \ draining : loops[l].task = "cancelled"

\* Mutant: an entry whose task has crashed is not drained.
FinallySkipsCrashed ==
    /\ shutdown /\ pc \notin {"exiting", "exited"} /\ Resumes
    /\ running' = [o \in Org |-> NoLoop]
    /\ awaited' = {l \in Entries : loops[l].task # "crashed"}
    /\ draining' = draining \cup awaited'
    /\ loops' = Signal(Entries)
    /\ pc' = "exiting"
    /\ UNCHANGED <<tenants, config, owned, todo, recycled, shutdown, changes, faults>>

\* The cancellation surfaces; the finally clause signals every entry of the
\* dict before it awaits one.
Finally ==
    /\ shutdown /\ pc \notin {"exiting", "exited"} /\ Resumes
    /\ running' = [o \in Org |-> NoLoop]
    /\ awaited' = Entries
    /\ draining' = draining \cup Entries
    /\ loops' = Signal(Entries)
    /\ pc' = "exiting"
    /\ UNCHANGED <<tenants, config, owned, todo, recycled, shutdown, changes, faults>>

Exit ==
    /\ pc = "exiting" /\ Resumes
    /\ pc' = "exited"
    /\ UNCHANGED <<tenants, config, owned, todo, running, draining, awaited, recycled, loops,
                   shutdown, changes, faults>>

Step ==
    \/ Enumerate
    \/ \E o \in Org : StartNewcomer(o) \/ Revalidate(o)
    \/ SignalRemoved
    \/ RemovedDrained
    \/ PopDrained
    \/ Restart
    \/ RefreshDone
    \/ Wake
    \/ Finally
    \/ Exit

Next ==
    \/ Step
    \/ \E o \in Org : SwitchTenant(o) \/ \E v \in 0..MaxVersion : ChangeConnection(o, v)
    \/ Shutdown
    \/ \E l \in LoopId : CloseDrained(l) \/ TaskEnds(l) \/ TaskCrashes(l)

Spec == Init /\ [][Next]_vars

\* The event loop schedules the supervisor and the drains it awaits; a tenant
\* loop told to stop ends (StopReleases of TenantTick).
FairSpec == /\ Spec
            /\ WF_vars(Step)
            /\ \A l \in LoopId : WF_vars(CloseDrained(l)) /\ WF_vars(TaskEnds(l))

-----------------------------------------------------------------------------
(* Properties.                                                              *)

\* An organization never has two live loops, so its ticks never overlap: not
\* while it leaves and returns, crashes or rotates its connection.
OneLoopPerOrg ==
    \A k, l \in LoopId : Live(k) /\ Live(l) /\ loops[k].org = loops[l].org => k = l

\* Every session still open is in the dict or being drained: none is leaked by
\* a restart, a removal, a crash or the shutdown.
NoSessionLost ==
    \A l \in LoopId : loops[l].session =>
        l \in draining \/ \E o \in Org : running[o] = l

\* A working loop is told to stop only for a reason: its organization left this
\* replica's set, or its connection is not the one it was built from.
StoppedForAReason ==
    \A l \in LoopId :
        loops[l] # Free /\ ~loops[l].stop /\ loops'[l] # Free /\ loops'[l].stop =>
            \/ ~Live(l) \/ shutdown'
            \/ loops[l].org \notin owned
            \/ config[loops[l].org] # loops[l].fingerprint
HealthyLoopKept == [][StoppedForAReason]_vars

\* The finally clause: "Signal every tenant first, then drain concurrently": the
\* supervisor returns with its loops drained.
DrainedOnExit == pc = "exited" => draining = {}

\* Once tables, connections and failures have settled, exactly the owned
\* organizations with a connection have a live loop, on that connection.
Served(o) == \E l \in LoopId : /\ Live(l) /\ ~loops[l].stop
                               /\ loops[l].org = o /\ loops[l].creds = config[o]
Converged ==
    \A o \in Org : IF o \in tenants \cap Shard /\ config[o] # 0
                   THEN Served(o)
                   ELSE \A l \in LoopId : loops[l].session => loops[l].org # o
ConvergesUnlessShutdown == <>[](shutdown \/ Converged)

\* After a cancellation the supervisor returns and every session is closed, even
\* one whose drain it did not wait for.
ShutdownDrains == shutdown ~> (pc = "exited" /\ \A l \in LoopId : ~loops[l].session)
=============================================================================
