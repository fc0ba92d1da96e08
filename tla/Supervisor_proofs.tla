--------------------------- MODULE Supervisor_proofs ---------------------------
(***************************************************************************)
(* The safety of the tenant supervisor for any organizations, loops,        *)
(* connection versions, changes and faults: one loop per organization, no   *)
(* session lost, and no loop told to stop without a reason.                 *)
(***************************************************************************)
EXTENDS Supervisor, TLAPS

(***************************************************************************)
(* The inductive invariant.                                                 *)
(***************************************************************************)
Held(l) == l \in draining \/ \E o \in Org : running[o] = l

\* An entry is the loop of its organization; a drained loop has been told to
\* stop; whatever runs or holds a session is an entry or being drained.
EntryInv ==
    /\ \A o \in Org : running[o] # NoLoop =>
         loops[running[o]].task # "free" /\ loops[running[o]].org = o
    /\ \A l \in draining : loops[l].task # "free" /\ loops[l].stop
    /\ \A k, l \in draining : loops[k].org = loops[l].org => k = l
    /\ \A l \in LoopId : Live(l) \/ loops[l].session => Held(l)

\* Nothing starts while anything drains: what each phase of a refresh knows of
\* the dict and of the drains. Only a shutdown leaves drains behind.
PhaseInv ==
    /\ pc \in {"enumerate", "start", "revalidate", "restart", "sleep"} => draining = {}
    /\ pc = "removing" =>
         /\ draining \subseteq awaited
         /\ \A l \in awaited : loops[l].task # "free" /\ running[loops[l].org] = NoLoop
    /\ pc \in {"recycle", "drop"} =>
         /\ recycled \in todo
         /\ awaited = {running[recycled]} /\ draining \subseteq awaited
         /\ draining = {} => ~Live(running[recycled]) /\ ~loops[running[recycled]].session
    /\ pc \in {"exiting", "exited"} => \A o \in Org : running[o] = NoLoop
    /\ pc = "start" => \A o \in todo : running[o] = NoLoop
    /\ pc \in {"revalidate", "recycle", "drop"} => \A o \in todo : running[o] # NoLoop
    /\ pc = "restart" => /\ recycled \in Org /\ running[recycled] = NoLoop
                         /\ \A o \in todo \ {recycled} : running[o] # NoLoop

IInv == TypeOK /\ EntryInv /\ PhaseInv

\* One loop per organization follows, whatever the phase.
LEMMA HeldIsUnique ==
  ASSUME IInv, NEW k \in LoopId, NEW l \in LoopId, Held(k), Held(l), loops[k].org = loops[l].org
  PROVE  k = l
<1> USE NoLoopAssumption DEF IInv, EntryInv
<1>1. CASE k \in draining /\ l \in draining
  BY <1>1
<1>2. CASE (\E o \in Org : running[o] = k) /\ (\E o \in Org : running[o] = l)
  BY <1>2
<1>3. \A x, y \in LoopId : x \in draining /\ (\E o \in Org : running[o] = y) /\ loops[x].org = loops[y].org
                           => x = y
  <2> SUFFICES ASSUME NEW x \in LoopId, NEW y \in LoopId, x \in draining,
                      NEW o \in Org, running[o] = y, loops[x].org = loops[y].org
               PROVE  x = y
    OBVIOUS
  <2>1. loops[y].org = o /\ running[o] # NoLoop
    OBVIOUS
  <2>2. pc \in {"removing", "recycle", "drop", "exiting", "exited"}
    BY DEF PhaseInv, TypeOK
  <2>3. pc # "removing" /\ pc \notin {"exiting", "exited"}
    BY <2>1 DEF PhaseInv
  <2>4. draining = {running[recycled]} /\ recycled \in todo /\ running[recycled] # NoLoop
    BY <2>2, <2>3 DEF PhaseInv, TypeOK
  <2>5. recycled \in Org /\ loops[running[recycled]].org = recycled
    BY <2>4 DEF TypeOK
  <2> QED
    BY <2>1, <2>4, <2>5
<1> QED
  BY <1>1, <1>2, <1>3 DEF Held

LEMMA InitInv == Init => IInv
<1> SUFFICES ASSUME Init PROVE IInv
  OBVIOUS
<1>1. /\ \A l \in LoopId : loops[l] = Free
      /\ \A o \in Org : running[o] = NoLoop
      /\ draining = {} /\ awaited = {} /\ todo = {} /\ pc = "enumerate"
  BY DEF Init
<1>2. TypeOK
  <2>1. config \in [Org -> 0..MaxVersion]
    BY BoundsAssumption DEF Init
  <2>2. loops \in [LoopId -> Loop \cup {Free}] /\ running \in [Org -> LoopId \cup {NoLoop}]
    BY DEF Init
  <2>3. changes \in 0..MaxChanges /\ faults \in 0..MaxFaults
    BY BoundsAssumption DEF Init
  <2> QED
    BY <2>1, <2>2, <2>3 DEF Init, TypeOK
<1>3. EntryInv /\ PhaseInv
  BY <1>1 DEF EntryInv, PhaseInv, Live, Free
<1> QED
  BY <1>2, <1>3 DEF IInv

(***************************************************************************)
(* Steps that move the supervisor and touch no loop.                        *)
(***************************************************************************)
Phase == {"enumerate", "start", "removing", "revalidate", "recycle", "drop", "restart", "sleep",
          "exiting", "exited"}

\* What no step of the supervisor needs to say twice.
LEMMA CountersOK ==
  ASSUME TypeOK, Next
  PROVE  /\ tenants' \in SUBSET Org /\ config' \in [Org -> 0..MaxVersion]
         /\ shutdown' \in BOOLEAN
         /\ changes' \in 0..MaxChanges /\ faults' \in 0..MaxFaults
<1>1. /\ changes' = changes \/ (changes < MaxChanges /\ changes' = changes + 1)
      /\ faults' = faults \/ (faults < MaxFaults /\ faults' = faults + 1)
      /\ shutdown' \in {shutdown, TRUE}
      /\ tenants' = tenants \/ (\E o \in Org : tenants' \in {tenants \cup {o}, tenants \ {o}})
      /\ config' = config \/ (\E o \in Org, v \in 0..MaxVersion : config' = [config EXCEPT ![o] = v])
  BY DEF Next, Step, SwitchTenant, ChangeConnection, Enumerate, StartNewcomer, StartLoop, Revalidate, SignalRemoved,
     RemovedDrained, PopDrained, Restart, RefreshDone, Wake, Finally, Exit, Shutdown, CloseDrained,
     TaskEnds, TaskCrashes, Fault, NoFault
<1>2. changes' \in 0..MaxChanges /\ faults' \in 0..MaxFaults
  BY <1>1, BoundsAssumption DEF TypeOK
<1>3. tenants' \in SUBSET Org /\ config' \in [Org -> 0..MaxVersion]
  BY <1>1 DEF TypeOK
<1> QED
  BY <1>1, <1>2, <1>3 DEF TypeOK

LEMMA MoveInv ==
  ASSUME IInv, Next, UNCHANGED <<running, draining, awaited, recycled, loops>>,
         pc' \in Phase, owned' \in SUBSET Org, todo' \in SUBSET Org, PhaseInv'
  PROVE  IInv'
<1>1. TypeOK'
  BY CountersOK DEF IInv, TypeOK, Phase
<1>2. EntryInv'
  BY DEF IInv, EntryInv, Held, Live
<1> QED
  BY <1>1, <1>2 DEF IInv

\* The tables and the connections are not the supervisor's.
WorldMoves == \E o \in Org : SwitchTenant(o) \/ \E v \in 0..MaxVersion : ChangeConnection(o, v)

LEMMA MovesInv ==
  ASSUME IInv, Next, WorldMoves \/ Enumerate \/ RefreshDone \/ Wake \/ Exit
  PROVE  IInv'
<1>1. /\ UNCHANGED <<running, draining, awaited, recycled, loops>>
      /\ pc' \in Phase /\ owned' \in SUBSET Org /\ todo' \in SUBSET Org
  BY DEF IInv, TypeOK, Phase, WorldMoves, SwitchTenant, ChangeConnection, Enumerate, RefreshDone,
     Wake, Exit, supervisorVars
<1>2. PhaseInv'
  <2> USE DEF IInv, PhaseInv, Live
  <2>1. CASE WorldMoves
    BY <2>1 DEF WorldMoves, SwitchTenant, ChangeConnection, supervisorVars
  <2>2. CASE Enumerate
    BY <2>2 DEF Enumerate
  <2>3. CASE RefreshDone \/ Wake
    BY <2>3 DEF RefreshDone, Wake
  <2>4. CASE Exit
    BY <2>4 DEF Exit
  <2> QED
    BY <2>1, <2>2, <2>3, <2>4
<1> QED
  BY <1>1, <1>2, MoveInv

(***************************************************************************)
(* Tasks end, crash or are cancelled.                                       *)
(***************************************************************************)

\* The tasks of some loops change, and nothing else about loops.
LEMMA TasksInv ==
  ASSUME IInv, Next, UNCHANGED supervisorVars, loops' \in [LoopId -> Loop \cup {Free}],
         \A l \in LoopId :
           \/ loops'[l] = loops[l]
           \/ /\ loops'[l].task # "free" /\ (Live(l)' => Live(l))
              /\ loops'[l].org = loops[l].org /\ loops'[l].stop = loops[l].stop
              /\ loops'[l].session = loops[l].session
  PROVE  IInv'
<1> USE DEF IInv
<1>1. TypeOK'
  BY CountersOK DEF TypeOK, supervisorVars
<1>2. /\ \A o \in Org : running[o] \in LoopId \cup {NoLoop}
      /\ \A l \in draining : l \in LoopId
  BY DEF TypeOK
<1>3. /\ \A l \in LoopId : loops[l].task # "free" => /\ loops'[l].task # "free"
                                                    /\ loops'[l].org = loops[l].org
                                                    /\ loops'[l].stop = loops[l].stop
      /\ \A l \in LoopId : Live(l)' => Live(l)
      /\ \A l \in LoopId : loops'[l].session = loops[l].session
  BY DEF Live
<1>4. EntryInv'
  BY <1>2, <1>3 DEF EntryInv, Held, supervisorVars
<1>5. PhaseInv'
  <2>1. UNCHANGED <<pc, todo, running, draining, awaited, recycled>>
    BY DEF supervisorVars
  <2>2. pc = "removing" => \A l \in awaited : loops'[l].task # "free" /\ running'[loops'[l].org] = NoLoop
    BY <1>3, <2>1 DEF PhaseInv, TypeOK
  <2>3. pc \in {"recycle", "drop"} => running[recycled] \in LoopId
    BY <1>2 DEF PhaseInv, TypeOK
  <2> QED
    BY <1>3, <2>1, <2>2, <2>3 DEF PhaseInv
<1> QED
  BY <1>1, <1>4, <1>5

LEMMA TaskStepsInv ==
  ASSUME IInv, Next, Shutdown \/ \E l \in LoopId : TaskEnds(l) \/ TaskCrashes(l)
  PROVE  IInv'
<1>1. \A l \in LoopId : loops[l].task # "free" => loops[l] \in Loop
  BY DEF IInv, TypeOK, Free
<1>2. ASSUME NEW l \in LoopId, loops[l].task # "free",
             NEW t \in {"cancelling", "ended", "crashed", "cancelled"}
      PROVE  LET q == [loops[l] EXCEPT !.task = t]
             IN  /\ q \in Loop /\ q.task = t /\ q.org = loops[l].org
                 /\ q.stop = loops[l].stop /\ q.session = loops[l].session
  BY <1>1, <1>2 DEF Loop
<1>3. CASE Shutdown
  <2> DEFINE Cancels(l, q) == \/ q = loops[l]
                              \/ /\ loops[l].task # "free"
                                 /\ \/ Live(l) /\ q = [loops[l] EXCEPT !.task = "cancelling"]
                                    \/ q = [loops[l] EXCEPT !.task = "cancelled"]
  <2>1. \A l \in LoopId : Cancels(l, loops'[l])
    <3>1. \A l \in draining : loops[l].task # "free"
      BY DEF IInv, EntryInv
    <3>2. \A l \in LoopId : loops'[l] =
            CASE l \in draining /\ Live(l)                      -> [loops[l] EXCEPT !.task = "cancelling"]
              [] l \in draining /\ ~Live(l) /\ pc = "removing" -> [loops[l] EXCEPT !.task = "cancelled"]
              [] OTHER                                          -> loops[l]
      BY <1>3 DEF Shutdown
    <3> QED
      BY <3>1, <3>2
  <2>2. loops' = [l \in LoopId |-> loops'[l]]
    BY <1>3 DEF Shutdown
  <2>3. \A l \in LoopId : loops[l] \in Loop \cup {Free}
    BY DEF IInv, TypeOK
  <2>4. \A l \in LoopId : loops'[l] \in Loop \cup {Free}
    BY <1>2, <2>1, <2>3
  <2>5. \A l \in LoopId : loops'[l] # loops[l] =>
          /\ loops'[l].task # "free" /\ (Live(l)' => Live(l))
          /\ loops'[l].org = loops[l].org /\ loops'[l].stop = loops[l].stop
          /\ loops'[l].session = loops[l].session
    <3> SUFFICES ASSUME NEW l \in LoopId, loops'[l] # loops[l]
                 PROVE  /\ loops'[l].task # "free" /\ (Live(l)' => Live(l))
                        /\ loops'[l].org = loops[l].org /\ loops'[l].stop = loops[l].stop
                        /\ loops'[l].session = loops[l].session
      OBVIOUS
    <3>1. /\ loops[l].task # "free"
          /\ \/ Live(l) /\ loops'[l] = [loops[l] EXCEPT !.task = "cancelling"]
             \/ loops'[l] = [loops[l] EXCEPT !.task = "cancelled"]
      BY <2>1
    <3>2. \/ Live(l) /\ loops'[l].task = "cancelling"
          \/ loops'[l].task = "cancelled"
      <4>1. \A t \in {"cancelling", "cancelled"} : [loops[l] EXCEPT !.task = t].task = t
        BY <1>2, <3>1
      <4> QED
        BY <3>1, <4>1
    <3>3. /\ loops'[l].org = loops[l].org /\ loops'[l].stop = loops[l].stop
          /\ loops'[l].session = loops[l].session
      <4>1. PICK t \in {"cancelling", "ended", "crashed", "cancelled"} :
              loops'[l] = [loops[l] EXCEPT !.task = t]
        BY <3>1
      <4> DEFINE q == [loops[l] EXCEPT !.task = t]
      <4>2. q.org = loops[l].org /\ q.stop = loops[l].stop /\ q.session = loops[l].session
        BY <1>2, <3>1
      <4>3. loops'[l] = q
        BY <4>1
      <4> HIDE DEF q
      <4> QED
        BY <4>2, <4>3
    <3> QED
      BY <3>2, <3>3 DEF Live
  <2> QED
    BY <1>3, <2>2, <2>4, <2>5, TasksInv DEF Shutdown
<1>4. ASSUME NEW l \in LoopId, TaskEnds(l) \/ TaskCrashes(l) PROVE IInv'
  <2>1. PICK t \in {"ended", "crashed", "cancelled"} : loops' = [loops EXCEPT ![l].task = t]
    BY <1>4 DEF TaskEnds, TaskCrashes
  <2>2. Live(l) /\ UNCHANGED supervisorVars
    BY <1>4 DEF TaskEnds, TaskCrashes, Live
  <2> DEFINE q == [loops[l] EXCEPT !.task = t]
  <2>3. /\ q \in Loop /\ q.task # "free" /\ q.org = loops[l].org
        /\ q.stop = loops[l].stop /\ q.session = loops[l].session
    <3>1. t \in {"cancelling", "ended", "crashed", "cancelled"} /\ loops[l].task # "free"
      BY <2>2 DEF Live
    <3> QED
      BY <1>2, <3>1
  <2>4. loops' = [loops EXCEPT ![l] = q]
    BY <2>1
  <2> HIDE DEF q
  <2>6. /\ loops' \in [LoopId -> Loop \cup {Free}]
        /\ \A m \in LoopId : loops'[m] = IF m = l THEN q ELSE loops[m]
    BY <2>3, <2>4 DEF IInv, TypeOK
  <2>5. \A m \in LoopId :
           \/ loops'[m] = loops[m]
           \/ /\ loops'[m].task # "free" /\ (Live(m)' => Live(m))
              /\ loops'[m].org = loops[m].org /\ loops'[m].stop = loops[m].stop
              /\ loops'[m].session = loops[m].session
    BY <2>2, <2>3, <2>6
  <2> QED
    BY <2>2, <2>5, <2>6, TasksInv
<1> QED
  BY <1>3, <1>4

(***************************************************************************)
(* Loops start.                                                             *)
(***************************************************************************)
LEMMA StartInv ==
  ASSUME IInv, Next, NEW o \in Org, StartLoop(o), running[o] = NoLoop, draining = {},
         UNCHANGED <<draining, awaited, owned, recycled>>, todo' = todo \ {o},
         \/ pc = "start" /\ pc' = pc
         \/ pc = "restart" /\ recycled = o /\ pc' = "revalidate"
  PROVE  IInv'
<1> USE NoLoopAssumption DEF IInv
<1>1. CASE UNCHANGED <<running, loops>>
  <2>1. PhaseInv'
    BY <1>1 DEF PhaseInv
  <2> QED
    BY <1>1, <2>1, MoveInv DEF TypeOK, Phase
<1>2. CASE ~UNCHANGED <<running, loops>>
  <2> DEFINE l == CHOOSE m \in FreeLoop : TRUE
             new == [org |-> o, creds |-> config[o], fingerprint |-> config[o],
                     task |-> "live", stop |-> FALSE, session |-> TRUE]
  <2>1. /\ config[o] # 0 /\ FreeLoop # {}
        /\ loops' = [loops EXCEPT ![l] = new]
        /\ running' = [running EXCEPT ![o] = l]
    BY <1>2 DEF StartLoop
  <2>2. l \in LoopId /\ loops[l] = Free
    <3>1. l \in FreeLoop
      BY <2>1
    <3> QED
      BY <3>1 DEF FreeLoop
  <2>3. new \in Loop
    <3>1. config[o] \in 1..MaxVersion
      BY <2>1, BoundsAssumption DEF TypeOK
    <3> QED
      BY <3>1 DEF Loop
  <2>4. loops[l].task = "free" /\ ~Live(l)
    BY <2>2 DEF Free, Live
  <2>5. new.task = "live" /\ new.org = o
    OBVIOUS
  <2> HIDE DEF l, new
  <2>6. /\ \A m \in LoopId : loops'[m] = IF m = l THEN new ELSE loops[m]
        /\ \A p \in Org : running'[p] = IF p = o THEN l ELSE running[p]
    BY <2>1 DEF TypeOK
  <2>7. TypeOK'
    <3>1. loops' \in [LoopId -> Loop \cup {Free}] /\ running' \in [Org -> LoopId \cup {NoLoop}]
      BY <2>1, <2>2, <2>3 DEF TypeOK
    <3> QED
      BY <3>1, CountersOK DEF TypeOK
  <2>8. \A p \in Org : running[p] # l
    BY <2>2, <2>4 DEF EntryInv
  <2>9. EntryInv'
    <3>1. \A p \in Org : running'[p] # NoLoop =>
            loops'[running'[p]].task # "free" /\ loops'[running'[p]].org = p
      BY <2>2, <2>5, <2>6, <2>8 DEF EntryInv, TypeOK
    <3>2. \A m \in LoopId : (Live(m) \/ loops[m].session) /\ m # l => \E p \in Org : p # o /\ running[p] = m
      BY DEF EntryInv, Held
    <3>3. \A m \in LoopId : Live(m)' \/ loops'[m].session => \E p \in Org : running'[p] = m
      BY <2>6, <3>2 DEF Live
    <3> QED
      BY <3>1, <3>3 DEF EntryInv, Held
  <2>10. PhaseInv'
    BY <2>2, <2>6 DEF PhaseInv, TypeOK
  <2> QED
    BY <2>7, <2>9, <2>10
<1> QED
  BY <1>1, <1>2

LEMMA StartsInv == ASSUME IInv, Next, Restart \/ \E o \in Org : StartNewcomer(o) PROVE IInv'
<1>1. CASE Restart
  BY <1>1, StartInv DEF Restart, IInv, PhaseInv
<1>2. ASSUME NEW o \in Org, StartNewcomer(o) PROVE IInv'
  BY <1>2, StartInv DEF StartNewcomer, IInv, PhaseInv
<1> QED
  BY <1>1, <1>2

(***************************************************************************)
(* Loops are told to stop, drained and dropped.                             *)
(***************************************************************************)

\* Signal sets the stop event of some entries and nothing else.
LEMMA SignalFact ==
  ASSUME TypeOK, NEW ls \in SUBSET LoopId, \A l \in ls : loops[l].task # "free"
  PROVE  /\ Signal(ls) \in [LoopId -> Loop \cup {Free}]
         /\ \A l \in LoopId \ ls : Signal(ls)[l] = loops[l]
         /\ \A l \in ls : Signal(ls)[l] = [loops[l] EXCEPT !.stop = TRUE]
         /\ \A l \in ls : /\ Signal(ls)[l].task = loops[l].task
                          /\ Signal(ls)[l].org = loops[l].org
                          /\ Signal(ls)[l].session = loops[l].session
                          /\ Signal(ls)[l].stop
<1>1. \A l \in ls : loops[l] \in Loop
  BY DEF TypeOK, Free
<1>2. ASSUME NEW l \in ls
      PROVE  LET q == [loops[l] EXCEPT !.stop = TRUE]
             IN  q \in Loop /\ q.task = loops[l].task /\ q.org = loops[l].org
                 /\ q.session = loops[l].session /\ q.stop
  <2>1. loops[l] \in Loop
    BY <1>1, <1>2
  <2> QED
    BY <2>1 DEF Loop
<1>3. /\ \A l \in LoopId \ ls : Signal(ls)[l] = loops[l]
      /\ \A l \in ls : Signal(ls)[l] = [loops[l] EXCEPT !.stop = TRUE]
  BY DEF Signal
<1>4. \A l \in LoopId : Signal(ls)[l] \in Loop \cup {Free}
  <2>1. \A l \in ls : Signal(ls)[l] \in Loop
    BY <1>2, <1>3
  <2>2. \A l \in LoopId : loops[l] \in Loop \cup {Free}
    BY DEF TypeOK
  <2> QED
    BY <1>3, <2>1, <2>2
<1>5. Signal(ls) = [l \in LoopId |-> Signal(ls)[l]]
  BY DEF Signal
<1> QED
  BY <1>2, <1>3, <1>4, <1>5

\* Entries move into the drains: removed from the dict at once, or left in it
\* while one of them is drained.
LEMMA DrainInv ==
  ASSUME IInv, Next, NEW ls \in SUBSET LoopId, loops' = Signal(ls),
         draining' = draining \cup ls, awaited' = ls,
         \A l \in ls : \E o \in Org : running[o] = l,
         running' \in [Org -> LoopId \cup {NoLoop}],
         \A o \in Org : running'[o] \in {running[o], NoLoop},
         \A o \in Org : running'[o] # running[o] => running[o] \in ls,
         pc' \in Phase, owned' \in SUBSET Org, todo' \in SUBSET Org,
         recycled' \in Org \cup {NoLoop},
         \/ /\ pc' = "removing" /\ draining = {}
            /\ \A o \in Org : running[o] \in ls => running'[o] = NoLoop
         \/ pc' = "exiting" /\ \A o \in Org : running'[o] = NoLoop
         \/ /\ pc' \in {"recycle", "drop"} /\ draining = {}
            /\ recycled' \in todo' /\ ls = {running[recycled']}
            /\ running' = running /\ \A o \in todo' : running[o] # NoLoop
  PROVE  IInv'
<1> USE NoLoopAssumption DEF IInv
<1>1. \A l \in ls : loops[l].task # "free"
  BY DEF EntryInv
<1>2. /\ loops' \in [LoopId -> Loop \cup {Free}]
      /\ \A l \in LoopId : /\ loops'[l].task = loops[l].task
                           /\ loops[l].task # "free" => loops'[l].org = loops[l].org
                           /\ loops'[l].session = loops[l].session
                           /\ l \in ls => loops'[l].stop
                           /\ l \notin ls => loops'[l] = loops[l]
  BY <1>1, SignalFact
<1>3. TypeOK'
  BY <1>2, CountersOK DEF TypeOK, Phase
<1>4. EntryInv'
  <2>1. \A o \in Org : running'[o] # NoLoop =>
          loops'[running'[o]].task # "free" /\ loops'[running'[o]].org = o
    BY <1>2 DEF EntryInv, TypeOK
  <2>2. \A l \in draining' : l \in LoopId /\ Held(l) /\ loops[l].task # "free"
    BY <1>1 DEF EntryInv, TypeOK, Held
  <2>3. \A l \in draining' : loops'[l].task # "free" /\ loops'[l].stop /\ loops'[l].org = loops[l].org
    BY <1>2, <2>2 DEF EntryInv
  <2>4. \A k, l \in draining' : loops'[k].org = loops'[l].org => k = l
    BY <2>2, <2>3, HeldIsUnique
  <2>5. \A l \in LoopId : Live(l)' \/ loops'[l].session => Held(l)
    BY <1>2 DEF EntryInv, Live
  <2>6. \A l \in LoopId : Live(l)' \/ loops'[l].session => Held(l)'
    BY <2>5 DEF Held
  <2> QED
    BY <2>1, <2>3, <2>4, <2>6 DEF EntryInv
<1>5. PhaseInv'
  <2>1. \A l \in ls : loops'[l].task # "free" /\ \E o \in Org : running[o] = l /\ loops'[l].org = o
    BY <1>1, <1>2 DEF EntryInv
  <2> QED
    BY <2>1 DEF PhaseInv
<1> QED
  BY <1>3, <1>4, <1>5

LEMMA SignalRemovedInv == ASSUME IInv, Next, SignalRemoved PROVE IInv'
<1> USE NoLoopAssumption DEF IInv
<1> DEFINE removed == {o \in Org : running[o] # NoLoop /\ o \notin owned}
           entries == {running[o] : o \in removed}
<1>1. /\ running' = [o \in Org |-> IF o \in removed THEN NoLoop ELSE running[o]]
      /\ draining' = entries /\ awaited' = entries /\ loops' = Signal(entries)
      /\ pc' = "removing" /\ pc = "start"
      /\ UNCHANGED <<owned, todo, recycled>>
  BY DEF SignalRemoved
<1>2. entries \in SUBSET LoopId /\ \A l \in entries : \E o \in Org : running[o] = l
  BY DEF TypeOK
<1>3. \A o \in Org : running[o] \in entries => o \in removed
  BY DEF EntryInv, TypeOK
<1>4. draining = {}
  BY <1>1 DEF PhaseInv
<1>5. running' \in [Org -> LoopId \cup {NoLoop}]
  BY <1>1 DEF TypeOK
<1>6. \A o \in Org : /\ running'[o] \in {running[o], NoLoop}
                     /\ running'[o] # running[o] => running[o] \in entries
                     /\ running[o] \in entries => running'[o] = NoLoop
  BY <1>1, <1>3
<1> HIDE DEF entries, removed
<1> QED
  BY <1>1, <1>2, <1>4, <1>5, <1>6, DrainInv DEF TypeOK, Phase

LEMMA FinallyInv == ASSUME IInv, Next, Finally PROVE IInv'
<1> USE NoLoopAssumption DEF IInv
<1>1. /\ running' = [o \in Org |-> NoLoop]
      /\ draining' = draining \cup Entries /\ awaited' = Entries
      /\ loops' = Signal(Entries) /\ pc' = "exiting"
      /\ UNCHANGED <<owned, todo, recycled>>
  BY DEF Finally
<1>2. Entries \in SUBSET LoopId /\ \A l \in Entries : \E o \in Org : running[o] = l
  BY DEF TypeOK, Entries
<1>3. running' \in [Org -> LoopId \cup {NoLoop}] /\ \A o \in Org : running'[o] = NoLoop
  BY <1>1
<1>4. \A o \in Org : running'[o] # running[o] => running[o] \in Entries
  BY <1>3 DEF Entries
<1> QED
  BY <1>1, <1>2, <1>3, <1>4, DrainInv DEF TypeOK, Phase

LEMMA RevalidateInv == ASSUME IInv, Next, NEW o \in Org, Revalidate(o) PROVE IInv'
<1> USE NoLoopAssumption DEF IInv
<1>1. /\ pc = "revalidate" /\ o \in todo /\ UNCHANGED <<owned, running>>
      /\ running[o] \in LoopId /\ draining = {}
      /\ \A p \in todo : running[p] # NoLoop
  BY DEF Revalidate, PhaseInv, TypeOK
<1>2. CASE Keep(o)
  <2>1. PhaseInv'
    BY <1>1, <1>2 DEF Keep, PhaseInv
  <2> QED
    BY <1>1, <1>2, <2>1, MoveInv DEF Keep, TypeOK, Phase
<1>3. ASSUME NEW next \in {"recycle", "drop"}, DrainEntry(o, next) PROVE IInv'
  <2>1. {running[o]} \in SUBSET LoopId /\ next \in Phase /\ o \in Org
    BY <1>1 DEF Phase
  <2>2. /\ draining' = {running[o]} /\ awaited' = {running[o]} /\ loops' = Signal({running[o]})
        /\ pc' = next /\ recycled' = o /\ UNCHANGED <<owned, todo, running>>
    BY <1>1, <1>3 DEF DrainEntry
  <2> QED
    BY <1>1, <2>1, <2>2, DrainInv DEF TypeOK
<1> QED
  BY <1>2, <1>3 DEF Revalidate

\* The supervisor goes on after its drains: what they closed is in no entry, and
\* only that is reused.
LEMMA ReuseInv ==
  ASSUME IInv, Next, loops' = Reuse(awaited), draining = {}, draining' = {}, awaited' = {},
         \A l \in awaited : ~Live(l) /\ ~loops[l].session /\ \A o \in Org : running'[o] # l,
         running' \in [Org -> LoopId \cup {NoLoop}],
         \A o \in Org : running'[o] \in {running[o], NoLoop},
         \A o \in Org : running'[o] # running[o] => running[o] \in awaited,
         pc' \in Phase, owned' \in SUBSET Org, todo' \in SUBSET Org,
         recycled' \in Org \cup {NoLoop}
  PROVE  TypeOK' /\ EntryInv'
<1> USE NoLoopAssumption DEF IInv
<1>1. /\ loops' = [l \in LoopId |-> loops'[l]]
      /\ \A l \in LoopId : loops'[l] = IF l \in awaited THEN Free ELSE loops[l]
  BY DEF Reuse
<1>2. Free.task = "free" /\ ~Free.session
  BY DEF Free
<1>3. TypeOK'
  <2>1. \A l \in LoopId : loops'[l] \in Loop \cup {Free}
    BY <1>1 DEF TypeOK
  <2>2. loops' \in [LoopId -> Loop \cup {Free}]
    BY <1>1, <2>1
  <2> QED
    BY <2>2, CountersOK DEF TypeOK, Phase
<1>4. EntryInv'
  <2>1. \A o \in Org : running'[o] # NoLoop =>
          loops'[running'[o]].task # "free" /\ loops'[running'[o]].org = o
    BY <1>1 DEF EntryInv, TypeOK
  <2>2. \A l \in LoopId : Live(l)' \/ loops'[l].session =>
          l \notin awaited /\ (Live(l) \/ loops[l].session)
    BY <1>1, <1>2 DEF Live
  <2>3. \A l \in LoopId : Live(l)' \/ loops'[l].session => \E o \in Org : running'[o] = l
    BY <2>2 DEF EntryInv, Held
  <2> QED
    BY <2>1, <2>3 DEF EntryInv, Held
<1> QED
  BY <1>3, <1>4

LEMMA RemovedInv == ASSUME IInv, Next, RemovedDrained PROVE IInv'
<1> USE NoLoopAssumption DEF IInv
<1>1. /\ pc = "removing" /\ draining = {} /\ draining' = {} /\ awaited' = {}
      /\ loops' = Reuse(awaited) /\ pc' = "revalidate"
      /\ todo' = {o \in Org : running[o] # NoLoop}
      /\ UNCHANGED <<owned, running, recycled>>
  BY DEF RemovedDrained
<1>2. \A l \in awaited : \A o \in Org : running[o] # l
  BY <1>1 DEF PhaseInv, EntryInv, TypeOK
<1>3. \A l \in awaited : ~Live(l) /\ ~loops[l].session
  BY <1>1, <1>2 DEF EntryInv, Held, TypeOK
<1>4. TypeOK' /\ EntryInv'
  BY <1>1, <1>2, <1>3, ReuseInv DEF TypeOK, Phase
<1>5. PhaseInv'
  BY <1>1 DEF PhaseInv
<1> QED
  BY <1>4, <1>5

LEMMA PopInv == ASSUME IInv, Next, PopDrained PROVE IInv'
<1> USE NoLoopAssumption DEF IInv
<1>1. /\ pc \in {"recycle", "drop"} /\ draining = {} /\ draining' = {} /\ awaited' = {}
      /\ running' = [running EXCEPT ![recycled] = NoLoop]
      /\ loops' = Reuse(awaited)
      /\ pc' = IF pc = "recycle" THEN "restart" ELSE "revalidate"
      /\ todo' = IF pc = "recycle" THEN todo ELSE todo \ {recycled}
      /\ UNCHANGED <<owned, recycled>>
  BY DEF PopDrained
<1>2. /\ recycled \in todo /\ recycled \in Org /\ running[recycled] \in LoopId
      /\ \A o \in todo : running[o] # NoLoop
      /\ awaited = {running[recycled]}
      /\ ~Live(running[recycled]) /\ ~loops[running[recycled]].session
  BY <1>1 DEF PhaseInv, TypeOK
<1>3. /\ \A o \in Org : running'[o] = IF o = recycled THEN NoLoop ELSE running[o]
      /\ \A o \in Org : running[o] = running[recycled] => o = recycled
      /\ running' \in [Org -> LoopId \cup {NoLoop}]
  BY <1>1, <1>2 DEF EntryInv, TypeOK
<1>4. pc' \in Phase /\ todo' \in SUBSET Org
  BY <1>1 DEF Phase, TypeOK
<1>5. TypeOK' /\ EntryInv'
  BY <1>1, <1>2, <1>3, <1>4, ReuseInv DEF TypeOK
<1>6. PhaseInv'
  BY <1>1, <1>2, <1>3 DEF PhaseInv
<1> QED
  BY <1>5, <1>6

LEMMA CloseInv == ASSUME IInv, Next, NEW l \in LoopId, CloseDrained(l) PROVE IInv'
<1> USE NoLoopAssumption DEF IInv
<1> DEFINE q == [loops[l] EXCEPT !.session = FALSE]
<1>1. /\ l \in draining /\ ~Live(l) /\ draining' = draining \ {l}
      /\ loops' = [loops EXCEPT ![l] = q]
      /\ UNCHANGED <<pc, owned, todo, running, awaited, recycled>>
  BY DEF CloseDrained
<1>2. loops[l] \in Loop
  BY <1>1 DEF EntryInv, TypeOK, Free
<1>3. /\ q \in Loop /\ ~q.session
      /\ q.task = loops[l].task /\ q.org = loops[l].org /\ q.stop = loops[l].stop
  BY <1>2 DEF Loop
<1> HIDE DEF q
<1>4. \A m \in LoopId : loops'[m] = IF m = l THEN q ELSE loops[m]
  BY <1>1 DEF TypeOK
<1>5. \A m \in LoopId : /\ loops'[m].task = loops[m].task
                        /\ loops[m].task # "free" => loops'[m].org = loops[m].org
                        /\ Live(m)' = Live(m)
  BY <1>3, <1>4 DEF Live
<1>6. TypeOK'
  <2>1. loops' \in [LoopId -> Loop \cup {Free}]
    BY <1>1, <1>3 DEF TypeOK
  <2> QED
    BY <1>1, <2>1, CountersOK DEF TypeOK
<1>7. EntryInv'
  <2>1. \A o \in Org : running[o] # NoLoop =>
          loops'[running[o]].task # "free" /\ loops'[running[o]].org = o
    BY <1>5 DEF EntryInv, TypeOK
  <2>2. \A m \in LoopId : Live(m)' \/ loops'[m].session => m # l /\ (Live(m) \/ loops[m].session)
    BY <1>1, <1>3, <1>4, <1>5
  <2>3. \A m \in draining' : m # l /\ m \in LoopId /\ loops'[m] = loops[m]
    BY <1>1, <1>4 DEF TypeOK
  <2> QED
    BY <1>1, <2>1, <2>2, <2>3 DEF EntryInv, Held
<1>8. PhaseInv'
  <2>1. pc = "removing" => \A m \in awaited : loops'[m].task # "free" /\ running[loops'[m].org] = NoLoop
    BY <1>5 DEF PhaseInv, TypeOK
  <2>2. pc \in {"recycle", "drop"} => l = running[recycled] /\ draining' = {}
    BY <1>1 DEF PhaseInv
  <2>3. ~Live(l)' /\ ~loops'[l].session
    BY <1>1, <1>3, <1>4, <1>5
  <2> QED
    BY <1>1, <2>1, <2>2, <2>3 DEF PhaseInv
<1> QED
  BY <1>6, <1>7, <1>8

LEMMA StepInv == IInv /\ [Next]_vars => IInv'
<1> SUFFICES ASSUME IInv, [Next]_vars PROVE IInv'
  OBVIOUS
<1>1. CASE UNCHANGED vars
  BY <1>1 DEF vars, supervisorVars, IInv, TypeOK, EntryInv, PhaseInv, Held, Live
<1>2. CASE Next
  BY <1>2, MovesInv, TaskStepsInv, StartsInv, SignalRemovedInv, RemovedInv, FinallyInv,
     RevalidateInv, PopInv, CloseInv
  DEF Next, Step, WorldMoves
<1> QED
  BY <1>1, <1>2

LEMMA InvHolds == Spec => []IInv
BY InitInv, StepInv, PTL DEF Spec

(***************************************************************************)
(* The promises of the supervisor.                                          *)
(***************************************************************************)

\* The dict, the drains and the loops stay well typed.
THEOREM TypeCorrectness == Spec => []TypeOK
<1>1. IInv => TypeOK
  BY DEF IInv
<1> QED
  BY <1>1, InvHolds, PTL

\* supervisor and _start_loop: two loops of one organization are never live
\* together, through removals, crashes, rotations and the shutdown.
THEOREM LoopsExclude == Spec => []OneLoopPerOrg
<1>1. IInv => OneLoopPerOrg
  BY HeldIsUnique DEF IInv, EntryInv, OneLoopPerOrg
<1> QED
  BY <1>1, InvHolds, PTL

\* _drain_loop: every session still open is an entry's or is being drained.
THEOREM SessionsAreKept == Spec => []NoSessionLost
<1>1. IInv => NoSessionLost
  BY DEF IInv, EntryInv, Held, NoSessionLost
<1> QED
  BY <1>1, InvHolds, PTL

\* The per-entry check: a working loop is told to stop only when its tenant left,
\* its connection changed or the process shuts down; a failed lookup keeps it.
THEOREM HealthyLoopsStay == Spec => HealthyLoopKept
<1>1. IInv /\ [Next]_vars => StoppedForAReason
  <2> SUFFICES ASSUME IInv, [Next]_vars, NEW l \in LoopId,
                      loops[l] # Free, ~loops[l].stop, loops'[l] # Free, loops'[l].stop
               PROVE  \/ ~Live(l) \/ shutdown'
                      \/ loops[l].org \notin owned
                      \/ config[loops[l].org] # loops[l].fingerprint
    BY DEF StoppedForAReason
  <2> USE NoLoopAssumption DEF IInv
  <2>1. loops[l] \in Loop /\ loops[l].task # "free"
    BY DEF TypeOK, Loop
  <2>2. \A v \in {"cancelling", "ended", "crashed", "cancelled"} :
          [loops[l] EXCEPT !.task = v].stop = loops[l].stop
    BY <2>1 DEF Loop
  <2>3. [loops[l] EXCEPT !.session = FALSE].stop = loops[l].stop
    BY <2>1 DEF Loop
  <2>4. CASE Shutdown
    BY <2>2, <2>4 DEF Shutdown
  <2>5. CASE \E m \in LoopId : TaskEnds(m) \/ TaskCrashes(m) \/ CloseDrained(m)
    <3>1. PICK m \in LoopId : TaskEnds(m) \/ TaskCrashes(m) \/ CloseDrained(m)
      BY <2>5
    <3>2. m # l => loops'[l] = loops[l]
      BY <3>1 DEF TaskEnds, TaskCrashes, CloseDrained, TypeOK
    <3>3. m = l => \/ loops'[l] = [loops[l] EXCEPT !.session = FALSE]
                   \/ \E v \in {"ended", "crashed", "cancelled"} :
                        loops'[l] = [loops[l] EXCEPT !.task = v]
      <4>1. DOMAIN loops = LoopId
        BY DEF TypeOK
      <4>2. TaskEnds(l) => loops'[l] = [loops[l] EXCEPT !.task =
                                          IF @ = "live" THEN "ended" ELSE "cancelled"]
        BY <4>1 DEF TaskEnds
      <4>3. TaskCrashes(l) => loops'[l] = [loops[l] EXCEPT !.task = "crashed"]
        BY <4>1 DEF TaskCrashes
      <4>4. CloseDrained(l) => loops'[l] = [loops[l] EXCEPT !.session = FALSE]
        BY <4>1 DEF CloseDrained
      <4> QED
        BY <3>1, <4>2, <4>3, <4>4
    <3> QED
      BY <2>2, <2>3, <3>2, <3>3
  <2>6. CASE Restart \/ \E o \in Org : StartNewcomer(o)
    <3>1. PICK o : StartLoop(o)
      BY <2>6 DEF Restart, StartNewcomer
    <3>2. CASE UNCHANGED loops
      BY <3>2
    <3>3. CASE ~UNCHANGED loops
      <4> DEFINE m == CHOOSE x \in FreeLoop : TRUE
      <4>1. FreeLoop # {} /\ \E new : loops' = [loops EXCEPT ![m] = new]
        BY <3>1, <3>3 DEF StartLoop
      <4>2. m \in FreeLoop
        BY <4>1
      <4> HIDE DEF m
      <4>3. m # l
        BY <4>2 DEF FreeLoop
      <4> QED
        BY <4>1, <4>3 DEF TypeOK
    <3> QED
      BY <3>2, <3>3
  <2>7. CASE RemovedDrained \/ PopDrained
    BY <2>7 DEF RemovedDrained, PopDrained, Reuse
  <2>8. CASE SignalRemoved
    BY <2>8 DEF SignalRemoved, Signal, EntryInv, TypeOK
  <2>9. CASE Finally
    BY <2>9 DEF Finally
  <2>10. CASE \E o \in Org : Revalidate(o)
    <3>1. PICK o \in Org : Revalidate(o)
      BY <2>10
    <3>2. /\ DrainEntry(o, "drop") \/ DrainEntry(o, "recycle")
          /\ l = running[o]
      BY <3>1 DEF Revalidate, DrainEntry, Keep, Signal
    <3>3. loops[l].org = o
      BY <3>2 DEF EntryInv, TypeOK
    <3>4. Live(l) => config[o] # loops[l].fingerprint
      <4>1. loops[l].fingerprint # 0
        BY <2>1, BoundsAssumption DEF Loop
      <4> QED
        BY <3>1, <3>2, <4>1 DEF Revalidate, DrainEntry, Keep, Signal
    <3> QED
      BY <3>3, <3>4
  <2>11. CASE UNCHANGED loops
    BY <2>11
  <2> QED
    BY <2>4, <2>5, <2>6, <2>7, <2>8, <2>9, <2>10, <2>11
    DEF Next, Step, vars, SwitchTenant, ChangeConnection, Enumerate, RefreshDone, Wake, Exit
<1> QED
  BY <1>1, InvHolds, PTL DEF Spec, HealthyLoopKept
=============================================================================
