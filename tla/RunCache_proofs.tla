--------------------------- MODULE RunCache_proofs ---------------------------
(***************************************************************************)
(* What the durable cache promises for any number of runs, snapshots and    *)
(* requests: the row and every answer are one run's, at most one snapshot   *)
(* lives, and nothing is served after a disconnect.                         *)
(***************************************************************************)
EXTENDS RunCache, TLAPS, FiniteSetTheorems

(***************************************************************************)
(* The inductive invariant.                                                 *)
(***************************************************************************)

\* What a request holds at each place of its way.
HoldInv ==
    /\ \A q \in Reader : reader[q].pc = "read" => reader[q].cached \in Row
    /\ \A d \in Trigger : /\ trigger[d].pc # "idle" => trigger[d].target \in Id
                          /\ trigger[d].pc \in {"read", "matched"} => trigger[d].cached \in Row

\* A row is written by the worker of one run with that worker's completed_at,
\* or by a previous release, in a format this one does not serve.
Persisted(c) ==
    /\ c.base = c.run_id
    /\ c.run_id # None => c.completed_at = worker[c.run_id].at /\ c.completed_at # 0
    /\ c.run_id = None => ~c.compatible

RowsInv ==
    /\ row # None => Persisted(row)
    /\ \A q \in Reader : reader[q].cached # None => Persisted(reader[q].cached)
    /\ \A d \in Trigger : trigger[d].cached # None => Persisted(trigger[d].cached)

\* No completed_at is given to two runs, and a worker keeps the one it has.
StampInv ==
    /\ \A r \in Run : /\ worker[r].at <= clock /\ runs[r].completed_at <= clock
                      /\ worker[r].at # 0 => worker[r].pc \in {"persisting", "over"}
                      /\ worker[r].pc = "persisting" => worker[r].at # 0
                      /\ runs[r].status = "absent" => worker[r].pc = "none"
    /\ \A r, s \in Run : r # s =>
          /\ worker[r].at # 0 => worker[r].at # worker[s].at
          /\ worker[r].at # 0 => worker[r].at # runs[s].completed_at
          /\ runs[r].completed_at # 0 => runs[r].completed_at # runs[s].completed_at

\* A snapshot shows the run of one row, and the live one is registered.
SnapshotInv ==
    /\ \A id \in Snapshot :
          /\ runs[id].status # "absent" => /\ runs[id].base \in Run /\ runs[id].completed_at # 0
                                          /\ runs[id].completed_at = worker[runs[id].base].at
          /\ runs[id].status \notin {"running", "failed"}
          /\ runs[id].status = "completed" => registry # None /\ registry.run_id = id
    /\ registry # None => /\ registry.run_id \in Snapshot
                          /\ runs[registry.run_id].status # "absent"
                          /\ runs[registry.run_id].completed_at = registry.completed_at

\* After a disconnect the slot has forgotten the connection: no entry shows it, nor
\* a fetch that may still become one.
Flushed(slot) ==
    /\ slot.entry # TRUE
    /\ slot.fetch = "first" => slot.seen # TRUE

\* A fetch that was not yet a retry when the request joined it reads once more.
Reread(slot) == slot.fetch = "retry" => slot.seen # TRUE

Informed(s, slot) ==
    s.late /\ ~s.joinedRetry => IF s.pc = "looking" THEN Reread(slot) ELSE ~s.connected

DisconnectInv ==
    /\ disconnect # "none" => ~connection
    /\ disconnect = "returned" => Flushed(membership)
    /\ \A q \in Reader : Informed(reader[q], membership) /\ (reader[q].late => disconnect = "returned")

IInv == TypeOK /\ HoldInv /\ RowsInv /\ StampInv /\ SnapshotInv /\ DisconnectInv

\* The parts of the invariant that the runs and their stamps decide.
RunsInv ==
    /\ runs \in [Id -> Entry]
    /\ \A id \in Id : runs[id].status # "absent" => runs[id].base \in Run
    /\ StampInv /\ SnapshotInv

(***************************************************************************)
(* The initial states, and what several steps have in common.               *)
(***************************************************************************)
LEMMA InitInv == Init => IInv
<1> SUFFICES ASSUME Init PROVE IInv
  OBVIOUS
<1> USE DEF Init
<1>1. Absent \in Entry /\ Absent.status = "absent" /\ Absent.completed_at = 0
  BY DEF Absent, Entry, Stamp
<1>2. PreviousRelease \in Row /\ Persisted(PreviousRelease)
  <2>1. PreviousRelease \in Row
    BY DEF PreviousRelease, Row, Stamp
  <2>2. Persisted(PreviousRelease)
    BY DEF PreviousRelease, Persisted
  <2> QED
    BY <2>1, <2>2
<1>3. TypeOK
  BY <1>1, <1>2, BoundAssumption
     DEF TypeOK, Stamp, IdleReader, IdleTrigger, ReaderState, EmptySlot, SlotOf
<1>4. HoldInv /\ RowsInv /\ DisconnectInv
  BY <1>2 DEF HoldInv, RowsInv, DisconnectInv, Informed, IdleReader, IdleTrigger
<1>5. StampInv
  BY <1>1 DEF StampInv, Id
<1>6. SnapshotInv
  BY <1>1 DEF SnapshotInv, Id
<1> QED
  BY <1>3, <1>4, <1>5, <1>6 DEF IInv

\* A run that ages, ends or changes its deferred rows keeps its rows and stamp.
LEMMA RunMoves ==
  ASSUME IInv, NEW id \in Id, NEW e \in Entry, runs' = [runs EXCEPT ![id] = e],
         runs[id].status = "absent" => e.status = "absent",
         e.base = runs[id].base, e.completed_at = runs[id].completed_at,
         \/ e.status = runs[id].status \/ e.status \in {"expired", "deleted"}
         \/ id \in Run /\ e.status = "failed",
         UNCHANGED <<clock, registry>>,
         \A r \in Run : /\ worker'[r].at = worker[r].at
                         /\ \/ worker'[r].pc = worker[r].pc
                            \/ worker[r].pc # "none" /\ worker'[r].pc = "over"
  PROVE  RunsInv'
<1> USE DEF IInv, TypeOK
<1>1. /\ runs' \in [Id -> Entry]
      /\ \A i \in Id : runs'[i] = IF i = id THEN e ELSE runs[i]
  OBVIOUS
<1>2. e.status = "absent" <=> runs[id].status = "absent"
  OBVIOUS
<1>3. \A i \in Id : /\ runs'[i].base = runs[i].base
                    /\ runs'[i].completed_at = runs[i].completed_at
                    /\ runs'[i].status = "absent" <=> runs[i].status = "absent"
                    /\ runs'[i].status = "completed" => runs[i].status = "completed"
                    /\ i \in Snapshot /\ runs'[i].status \in {"running", "failed"} =>
                         runs[i].status \in {"running", "failed"}
  BY <1>1, <1>2, IdAssumption
<1>4. \A i \in Id : runs'[i].status # "absent" => runs'[i].base \in Run
  BY <1>3
<1>5. StampInv'
  BY <1>3 DEF StampInv, Id
<1>6. SnapshotInv'
  BY <1>3 DEF SnapshotInv, Id
<1> QED
  BY <1>1, <1>4, <1>5, <1>6 DEF RunsInv

\* What does not touch the runs leaves their invariants alone.
LEMMA RunsStay ==
  ASSUME IInv, UNCHANGED <<runs, worker, clock, registry>>
  PROVE  RunsInv'
BY DEF IInv, TypeOK, RunsInv, StampInv, SnapshotInv

\* A row persisted by a worker stays so as long as workers keep their stamps.
LEMMA RowsStay ==
  ASSUME RowsInv, UNCHANGED <<worker, reader, trigger>>, row' = None \/ row' = row
  PROVE  RowsInv'
BY DEF RowsInv, Persisted

\* Whatever happens to the slot, it stays one ...
LEMMA SlotTypes ==
  ASSUME NEW slot \in SlotOf(BOOLEAN), NEW value \in BOOLEAN
  PROVE  /\ {Expired(slot), Overtaken(slot), Invalidated(slot), Joined(slot), Abandoned(slot)}
               \subseteq SlotOf(BOOLEAN)
         /\ {Fetched(slot, value), Refetched(slot), Settled(slot)} \subseteq SlotOf(BOOLEAN)
<1>1. Expired(slot) \in SlotOf(BOOLEAN) /\ Abandoned(slot) \in SlotOf(BOOLEAN)
  BY DEF SlotOf, Expired, Abandoned
<1>2. \A s \in SlotOf(BOOLEAN) : Overtaken(s) \in SlotOf(BOOLEAN)
  BY DEF SlotOf, Overtaken
<1>3. Joined(slot) \in SlotOf(BOOLEAN)
  BY DEF SlotOf, Joined
<1>4. Fetched(slot, value) \in SlotOf(BOOLEAN) /\ Refetched(slot) \in SlotOf(BOOLEAN)
  BY DEF SlotOf, Fetched, Refetched
<1>5. Settled(slot) \in SlotOf(BOOLEAN)
  BY DEF SlotOf, Settled
<1> QED
  BY <1>1, <1>2, <1>3, <1>4, <1>5 DEF Invalidated

\* ... and never learns of the connection again ...
LEMMA SlotForgets ==
  ASSUME NEW slot \in SlotOf(BOOLEAN), Flushed(slot)
  PROVE  /\ \A s \in {Expired(slot), Overtaken(slot), Invalidated(slot), Joined(slot), Abandoned(slot)} :
               Flushed(s)
         /\ \A s \in {Fetched(slot, FALSE), Refetched(slot), Settled(slot)} : Flushed(s)
<1>1. Flushed(Expired(slot)) /\ Flushed(Abandoned(slot))
  BY NoneAssumption DEF SlotOf, Flushed, Expired, Abandoned
<1>2. \A s \in SlotOf(BOOLEAN) : Flushed(s) => Flushed(Overtaken(s))
  BY DEF SlotOf, Flushed, Overtaken
<1>3. Flushed(Joined(slot))
  BY NoneAssumption DEF SlotOf, Flushed, Joined
<1>4. Flushed(Fetched(slot, FALSE)) /\ Flushed(Refetched(slot))
  <2>1. \A v : v # TRUE => Flushed(Fetched(slot, v))
    BY DEF SlotOf, Flushed, Fetched
  <2>2. Flushed(Refetched(slot))
    BY DEF SlotOf, Flushed, Refetched
  <2> QED
    BY <2>1, <2>2
<1>5. Flushed(Settled(slot))
  BY DEF SlotOf, Flushed, Settled
<1>6. Expired(slot) \in SlotOf(BOOLEAN)
  BY SlotTypes
<1> QED
  BY <1>1, <1>2, <1>3, <1>4, <1>5, <1>6 DEF Invalidated

\* ... and an invalidation makes it forget.
LEMMA SlotFlushed == ASSUME NEW slot \in SlotOf(BOOLEAN) PROVE Flushed(Invalidated(slot))
<1>1. Expired(slot) \in SlotOf(BOOLEAN) /\ Expired(slot).entry = None
  BY DEF SlotOf, Expired
<1>2. \A s \in SlotOf(BOOLEAN) : s.entry = None => Flushed(Overtaken(s))
  BY NoneAssumption DEF SlotOf, Flushed, Overtaken
<1> QED
  BY <1>1, <1>2 DEF Invalidated

LEMMA SlotRereads ==
  ASSUME NEW slot \in SlotOf(BOOLEAN), Reread(slot)
  PROVE  /\ \A s \in {Expired(slot), Overtaken(slot), Invalidated(slot), Joined(slot), Abandoned(slot)} :
               Reread(s)
         /\ \A s \in {Fetched(slot, FALSE), Refetched(slot), Settled(slot)} : Reread(s)
<1>1. Reread(Expired(slot)) /\ Reread(Abandoned(slot))
  BY DEF SlotOf, Reread, Expired, Abandoned
<1>2. \A s \in SlotOf(BOOLEAN) : Reread(s) => Reread(Overtaken(s))
  BY DEF SlotOf, Reread, Overtaken
<1>3. Reread(Joined(slot))
  BY NoneAssumption DEF SlotOf, Reread, Joined
<1>4. Reread(Fetched(slot, FALSE)) /\ Reread(Refetched(slot))
  BY NoneAssumption DEF SlotOf, Reread, Fetched, Refetched
<1>5. Reread(Settled(slot))
  BY DEF SlotOf, Reread, Settled
<1>6. Expired(slot) \in SlotOf(BOOLEAN)
  BY SlotTypes
<1> QED
  BY <1>1, <1>2, <1>3, <1>4, <1>5, <1>6 DEF Invalidated

\* A step of the slot alone keeps what the requests in progress rely on.
LEMMA SlotMoves ==
  ASSUME IInv, UNCHANGED <<connection, disconnect, reader>>,
         disconnect = "returned" => Flushed(membership'),
         Reread(membership) /\ disconnect = "returned" => Reread(membership')
  PROVE  DisconnectInv'
BY DEF IInv, DisconnectInv, Informed, Flushed, Reread

(***************************************************************************)
(* The world and the disconnect.                                            *)
(***************************************************************************)
LEMMA WorldStepInv == ASSUME IInv, WorldStep PROVE IInv'
<1> USE DEF IInv
<1>1. /\ changes' \in 0 .. MaxChanges
      /\ UNCHANGED <<connection, disconnect, clock, worker, registry, reader, trigger>>
  BY BoundAssumption DEF WorldStep, TypeOK
<1>2. CASE FlipCache
  <2>1. enabled' \in BOOLEAN /\ UNCHANGED <<membership, runs, row>>
    BY <1>2 DEF FlipCache
  <2> QED
    BY <1>1, <2>1
       DEF TypeOK, HoldInv, RowsInv, Persisted, StampInv, SnapshotInv, DisconnectInv, Informed
<1>3. CASE MembershipExpires \/ OthersInvalidate
  <2>1. /\ membership' \in {Expired(membership), Overtaken(membership), Invalidated(membership)}
        /\ UNCHANGED <<enabled, runs, row>>
    BY <1>3 DEF MembershipExpires, OthersInvalidate
  <2>2. membership \in SlotOf(BOOLEAN) /\ membership' \in SlotOf(BOOLEAN)
    BY <2>1, SlotTypes DEF TypeOK
  <2>3. /\ disconnect = "returned" => Flushed(membership')
        /\ Reread(membership) => Reread(membership')
    BY <2>1, <2>2, SlotForgets, SlotRereads DEF DisconnectInv
  <2>4. DisconnectInv'
    BY <1>1, <2>3, SlotMoves
  <2> QED
    BY <1>1, <2>1, <2>2, <2>4 DEF TypeOK, HoldInv, RowsInv, Persisted, StampInv, SnapshotInv
<1>4. CASE RowAges
  <2> DEFINE c == [row EXCEPT !.aged = TRUE]
  <2>1. row # None /\ row' = c /\ UNCHANGED <<membership, enabled, runs>>
    BY <1>4 DEF RowAges
  <2>2. row \in Row /\ Persisted(row)
    BY <2>1 DEF TypeOK, RowsInv
  <2>3. c \in Row
    BY <2>2 DEF Row
  <2>4. c.base = row.base /\ c.run_id = row.run_id /\ c.completed_at = row.completed_at
          /\ c.compatible = row.compatible
    BY <2>2 DEF Row
  <2>5. RowsInv'
    BY <1>1, <2>1, <2>2, <2>4 DEF RowsInv, Persisted
  <2> QED
    BY <1>1, <2>1, <2>3, <2>5 DEF TypeOK, HoldInv, StampInv, SnapshotInv, DisconnectInv, Informed
<1>5. ASSUME NEW id \in Id, RunAges(id) \/ ExpireRun(id) \/ DeleteRun(id) PROVE IInv'
  <2>1. runs[id] \in Entry
    BY DEF TypeOK
  <2>2. PICK e \in Entry :
          /\ runs' = [runs EXCEPT ![id] = e] /\ runs[id].status # "absent"
          /\ e.base = runs[id].base /\ e.completed_at = runs[id].completed_at
          /\ e.status = runs[id].status \/ e.status \in {"expired", "deleted"}
    <3>1. CASE RunAges(id)
      <4> DEFINE e == [runs[id] EXCEPT !.aged = TRUE]
      <4>1. e \in Entry /\ e.status = runs[id].status
        BY <2>1 DEF Entry
      <4>2. runs' = [runs EXCEPT ![id] = e] /\ runs[id].status # "absent"
        BY <3>1 DEF RunAges, TypeOK
      <4> QED
        BY <2>1, <4>1, <4>2 DEF Entry
    <3>2. CASE ExpireRun(id) \/ DeleteRun(id)
      <4>1. PICK status \in {"expired", "deleted"} :
              runs' = [runs EXCEPT ![id].status = status, ![id].deferred = "none"]
        BY <3>2 DEF ExpireRun, DeleteRun
      <4> DEFINE e == [runs[id] EXCEPT !.status = status, !.deferred = "none"]
      <4>2. e \in Entry /\ e.status = status
        BY <2>1 DEF Entry
      <4>3. runs' = [runs EXCEPT ![id] = e]
        BY <4>1 DEF TypeOK
      <4>4. e.base = runs[id].base /\ e.completed_at = runs[id].completed_at
        BY <2>1 DEF Entry
      <4>5. runs[id].status # "absent"
        BY <3>2 DEF ExpireRun, DeleteRun
      <4> HIDE DEF e
      <4> QED
        BY <4>2, <4>3, <4>4, <4>5
    <3> QED
      BY <1>5, <3>1, <3>2
  <2>3. RunsInv'
    BY <1>1, <2>2, RunMoves
  <2>4. UNCHANGED <<membership, enabled, row>>
    BY <1>5 DEF RunAges, ExpireRun, DeleteRun
  <2> QED
    BY <1>1, <2>3, <2>4 DEF TypeOK, HoldInv, RowsInv, Persisted, RunsInv, DisconnectInv, Informed
<1> QED
  BY <1>2, <1>3, <1>4, <1>5 DEF WorldStep

LEMMA DisconnectStepInv == ASSUME IInv, DisconnectStep PROVE IInv'
<1> USE DEF IInv
<1>1. UNCHANGED <<enabled, changes, clock, runs, worker, registry, reader, trigger>>
  BY DEF DisconnectStep
<1>2. RunsInv'
  BY <1>1, RunsStay
<1>3. RowsInv'
  BY <1>1, RowsStay DEF DisconnectStep, Invalidate, DropCachedRun, FlushMemberships
<1>4. membership \in SlotOf(BOOLEAN)
  BY DEF TypeOK
<1>5. DisconnectInv'
  <2>1. CASE Invalidate \/ DropCachedRun
    BY <1>1, <2>1 DEF DisconnectInv, Informed, Invalidate, DropCachedRun
  <2>2. CASE FlushMemberships
    <3>1. /\ Flushed(membership') /\ disconnect = "dropped" /\ disconnect' = "returned"
          /\ UNCHANGED <<connection, reader>>
      BY <1>1, <1>4, <2>2, SlotFlushed DEF FlushMemberships
    <3>2. \A q \in Reader : ~reader[q].late
      BY <3>1 DEF DisconnectInv
    <3> QED
      BY <3>1, <3>2 DEF DisconnectInv, Informed
  <2> QED
    BY <2>1, <2>2 DEF DisconnectStep
<1>6. TypeOK'
  BY <1>1, <1>2, <1>4, SlotTypes
     DEF TypeOK, RunsInv, DisconnectStep, Invalidate, DropCachedRun, FlushMemberships
<1> QED
  BY <1>1, <1>2, <1>3, <1>5, <1>6 DEF HoldInv, RunsInv

(***************************************************************************)
(* The workers.                                                             *)
(***************************************************************************)

\* What a worker's step leaves to show; its stamps are in RunsInv.
LEMMA WorkerFrame ==
  ASSUME IInv, RunsInv', RowsInv', clock' \in Nat,
         worker' \in [Run -> [pc : {"none", "building", "finalized", "persisting", "over"},
                              at : Stamp]],
         row' \in Row \cup {None}, changes' \in 0 .. MaxChanges,
         UNCHANGED <<connectionVars, enabled, registry, reader, trigger>>
  PROVE  IInv'
BY DEF IInv, TypeOK, HoldInv, RunsInv, DisconnectInv, Informed, connectionVars, Stamp

LEMMA CreateRunInv ==
  ASSUME IInv, NEW r \in Run, CreateRun(r), UNCHANGED <<worldVars, registry, reader, trigger>>
  PROVE  IInv'
<1> USE DEF IInv
<1> DEFINE e == [runs[r] EXCEPT !.status = "running", !.base = r]
<1>1. runs[r] \in Entry /\ runs[r].status = "absent" /\ r \in Id /\ r \notin Snapshot
  BY IdAssumption DEF CreateRun, TypeOK, Id
<1>2. /\ e \in Entry /\ e.base = r /\ e.completed_at = runs[r].completed_at
      /\ e.status = "running"
  BY <1>1 DEF Entry
<1>3. runs' = [runs EXCEPT ![r] = e]
  BY DEF CreateRun, TypeOK
<1> HIDE DEF e
<1>4. \A i \in Id : runs'[i] = IF i = r THEN e ELSE runs[i]
  BY <1>3 DEF TypeOK
<1>5. /\ worker' = [worker EXCEPT ![r].pc = "building"]
      /\ UNCHANGED <<clock, row>>
  BY DEF CreateRun
<1>6. /\ worker' \in [Run -> [pc : {"none", "building", "finalized", "persisting", "over"},
                              at : Stamp]]
      /\ \A s \in Run : worker'[s].at = worker[s].at
  BY <1>5 DEF TypeOK
<1>7. \A s \in Run : worker'[s].pc = IF s = r THEN "building" ELSE worker[s].pc
  BY <1>5 DEF TypeOK
<1>8. StampInv'
  <2>1. worker[r].at = 0
    BY <1>1 DEF StampInv, TypeOK
  <2>2. \A s \in Run : /\ runs'[s].completed_at = runs[s].completed_at
                       /\ runs'[s].status = "absent" => s # r /\ runs[s].status = "absent"
    BY <1>2, <1>4 DEF Id
  <2> QED
    BY <1>5, <1>6, <1>7, <2>1, <2>2 DEF StampInv
<1>9. SnapshotInv'
  BY <1>1, <1>4, <1>6 DEF SnapshotInv, worldVars, Id
<1>10. RunsInv'
  BY <1>2, <1>3, <1>4, <1>8, <1>9 DEF TypeOK, RunsInv
<1>11. RowsInv'
  BY <1>5, <1>6 DEF TypeOK, RowsInv, Persisted, Row, HoldInv
<1> QED
  BY <1>5, <1>6, <1>10, <1>11, WorkerFrame DEF TypeOK, worldVars, Stamp

LEMMA FinalizeInv ==
  ASSUME IInv, NEW r \in Run, Finalize(r), UNCHANGED <<worldVars, registry, reader, trigger>>
  PROVE  IInv'
<1> USE DEF IInv
<1>1. /\ runs[r] \in Entry /\ r \in Id /\ r \notin Snapshot /\ clock \in Nat
      /\ runs[r].status # "absent"
  BY IdAssumption DEF Finalize, TypeOK, Id, StampInv, Stamp
<1>2. /\ worker' = [worker EXCEPT ![r].pc = "finalized"] /\ worker[r].pc = "building"
      /\ UNCHANGED row
  BY DEF Finalize
<1>3. /\ worker' \in [Run -> [pc : {"none", "building", "finalized", "persisting", "over"},
                              at : Stamp]]
      /\ \A s \in Run : /\ worker'[s].at = worker[s].at
                        /\ worker'[s].pc = IF s = r THEN "finalized" ELSE worker[s].pc
  BY <1>2 DEF TypeOK
<1>4. worker[r].at = 0
  BY <1>2 DEF StampInv, TypeOK
<1>5. RowsInv'
  BY <1>2, <1>3 DEF TypeOK, RowsInv, Persisted, Row
<1>6. CASE runs[r].status = "running"
  <2> DEFINE e == [runs[r] EXCEPT !.status = "completed", !.completed_at = clock + 1]
  <2>1. /\ e \in Entry /\ e.base = runs[r].base /\ e.completed_at = clock + 1
        /\ e.status = "completed"
    <3>1. clock + 1 \in Stamp
      BY <1>1 DEF Stamp
    <3>2. \A t \in Stamp : LET c == [runs[r] EXCEPT !.status = "completed", !.completed_at = t]
                         IN  /\ c \in Entry /\ c.base = runs[r].base /\ c.completed_at = t
                             /\ c.status = "completed"
      BY <1>1 DEF Entry
    <3> QED
      BY <3>1, <3>2
  <2>2. runs' = [runs EXCEPT ![r] = e] /\ clock' = clock + 1
    BY <1>6 DEF Finalize, TypeOK
  <2> HIDE DEF e
  <2>3. \A i \in Id : runs'[i] = IF i = r THEN e ELSE runs[i]
    BY <2>2 DEF TypeOK
  <2>4. StampInv'
    <3>1. \A s \in Run : /\ worker[s].at \in Nat /\ runs[s].completed_at \in Nat
                         /\ worker[s].at # clock + 1 /\ runs[s].completed_at # clock + 1
      BY <1>1 DEF TypeOK, StampInv, Entry, Stamp, Id
    <3>2. \A s \in Run : /\ runs'[s].completed_at =
                               IF s = r THEN clock + 1 ELSE runs[s].completed_at
                         /\ runs'[s].status = "absent" => s # r /\ runs[s].status = "absent"
      BY <2>1, <2>3 DEF Id
    <3> HIDE DEF IInv
    <3>3. \A s \in Run : /\ worker'[s].at <= clock' /\ runs'[s].completed_at <= clock'
                         /\ worker'[s].at # 0 => worker'[s].pc \in {"persisting", "over"}
                         /\ worker'[s].pc = "persisting" => worker'[s].at # 0
                         /\ runs'[s].status = "absent" => worker'[s].pc = "none"
      BY <1>1, <1>3, <1>4, <2>2, <3>1, <3>2 DEF StampInv, IInv
    <3>4. \A s, u \in Run : s # u =>
            /\ worker'[s].at # 0 => worker'[s].at # worker'[u].at
            /\ worker'[s].at # 0 => worker'[s].at # runs'[u].completed_at
            /\ runs'[s].completed_at # 0 => runs'[s].completed_at # runs'[u].completed_at
      BY <1>1, <1>3, <1>4, <3>1, <3>2 DEF StampInv, IInv
    <3> QED
      BY <3>3, <3>4 DEF StampInv
  <2>5. SnapshotInv'
    BY <1>1, <1>3, <2>3 DEF SnapshotInv, Id
  <2>6. RunsInv'
    BY <2>1, <2>2, <2>3, <2>4, <2>5, <1>1 DEF TypeOK, RunsInv
  <2> QED
    BY <1>1, <1>2, <1>3, <1>5, <2>2, <2>6, WorkerFrame DEF TypeOK, worldVars
<1>7. CASE runs[r].status # "running"
  <2>1. UNCHANGED <<clock, runs>>
    BY <1>7 DEF Finalize
  <2>2. StampInv'
    BY <1>1, <1>3, <1>4, <2>1 DEF StampInv
  <2>3. SnapshotInv'
    BY <1>3, <2>1 DEF SnapshotInv
  <2>4. RunsInv'
    BY <2>1, <2>2, <2>3 DEF TypeOK, RunsInv
  <2> QED
    BY <1>1, <1>2, <1>3, <1>5, <2>1, <2>4, WorkerFrame DEF TypeOK, worldVars
<1> QED
  BY <1>6, <1>7

LEMMA ReadSettingsInv ==
  ASSUME IInv, NEW r \in Run, ReadSettings(r), UNCHANGED <<worldVars, registry, reader, trigger>>
  PROVE  IInv'
<1> USE DEF IInv
<1>1. /\ worker[r].pc = "finalized" /\ worker[r].at = 0 /\ clock \in Nat
      /\ UNCHANGED <<runs, row>>
      /\ runs[r].status # "absent"
  BY DEF ReadSettings, TypeOK, StampInv, Stamp
<1>2. \A s \in Run : /\ worker[s].at \in Nat /\ runs[s].completed_at \in Nat
                     /\ worker[s].at <= clock /\ runs[s].completed_at <= clock
  BY DEF TypeOK, StampInv, Entry, Stamp, Id
\* either the worker is over, or it takes a stamp of its own
<1>3. PICK pc \in {"over", "persisting"}, at \in Nat :
        /\ worker' = [worker EXCEPT ![r] = [pc |-> pc, at |-> at]]
        /\ \/ pc = "over" /\ at = 0 /\ clock' = clock
           \/ pc = "persisting" /\ at # 0 /\ at = runs[r].completed_at /\ clock' = clock
           \/ pc = "persisting" /\ at = clock + 1 /\ clock' = at
  <2>1. CASE ~enabled
    <3>1. worker' = [worker EXCEPT ![r].pc = "over"] /\ clock' = clock
      BY <2>1 DEF ReadSettings
    <3>2. [worker[r] EXCEPT !.pc = "over"] = [pc |-> "over", at |-> 0]
      BY <1>1 DEF TypeOK
    <3>3. worker' = [worker EXCEPT ![r] = [pc |-> "over", at |-> 0]]
      BY <3>1, <3>2 DEF TypeOK
    <3> QED
      BY <3>1, <3>3
  <2>2. CASE enabled /\ runs[r].completed_at # 0
    BY <1>2, <2>2 DEF ReadSettings
  <2>3. CASE enabled /\ runs[r].completed_at = 0
    BY <1>1, <2>3 DEF ReadSettings
  <2> QED
    BY <2>1, <2>2, <2>3 DEF TypeOK
<1>4. /\ worker' \in [Run -> [pc : {"none", "building", "finalized", "persisting", "over"},
                              at : Stamp]]
      /\ \A s \in Run : worker'[s] = IF s = r THEN [pc |-> pc, at |-> at] ELSE worker[s]
      /\ clock' \in Nat /\ clock <= clock'
  BY <1>1, <1>3 DEF TypeOK, Stamp
<1>5. StampInv'
  <2>1. \A s \in Run \ {r} : worker[s].at # at \/ at = 0
    BY <1>1, <1>2, <1>3 DEF StampInv
  <2>2. \A s \in Run \ {r} : runs[s].completed_at # at \/ at = 0
    BY <1>1, <1>2, <1>3 DEF StampInv
  <2>3. \A s \in Run : /\ worker'[s].at <= clock' /\ runs'[s].completed_at <= clock'
                       /\ worker'[s].at # 0 => worker'[s].pc \in {"persisting", "over"}
                       /\ worker'[s].pc = "persisting" => worker'[s].at # 0
                       /\ runs'[s].status = "absent" => worker'[s].pc = "none"
    <3> SUFFICES ASSUME NEW s \in Run
                 PROVE  /\ worker'[s].at <= clock' /\ runs'[s].completed_at <= clock'
                        /\ worker'[s].at # 0 => worker'[s].pc \in {"persisting", "over"}
                        /\ worker'[s].pc = "persisting" => worker'[s].at # 0
                        /\ runs'[s].status = "absent" => worker'[s].pc = "none"
      OBVIOUS
    <3>1. CASE s = r
      BY <1>1, <1>2, <1>3, <1>4, <3>1
    <3>2. CASE s # r
      BY <1>1, <1>2, <1>4, <3>2 DEF StampInv
    <3> QED
      BY <3>1, <3>2
  <2>4. \A s, u \in Run : s # u =>
            /\ worker'[s].at # 0 => worker'[s].at # worker'[u].at
            /\ worker'[s].at # 0 => worker'[s].at # runs'[u].completed_at
            /\ runs'[s].completed_at # 0 => runs'[s].completed_at # runs'[u].completed_at
    <3> SUFFICES ASSUME NEW s \in Run, NEW u \in Run, s # u
                 PROVE  /\ worker'[s].at # 0 => worker'[s].at # worker'[u].at
                        /\ worker'[s].at # 0 => worker'[s].at # runs'[u].completed_at
                        /\ runs'[s].completed_at # 0 =>
                             runs'[s].completed_at # runs'[u].completed_at
      OBVIOUS
    <3>1. CASE s = r
      BY <1>1, <1>4, <2>1, <2>2, <3>1 DEF StampInv
    <3>2. CASE u = r
      BY <1>1, <1>4, <2>1, <3>2 DEF StampInv
    <3>3. CASE s # r /\ u # r
      BY <1>1, <1>4, <3>3 DEF StampInv
    <3> QED
      BY <3>1, <3>2, <3>3
  <2> QED
    BY <2>3, <2>4 DEF StampInv
\* who has a stamp is not r
<1>6. \A s \in Run : worker[s].at # 0 => worker'[s].at = worker[s].at
  BY <1>1, <1>4
<1>7. SnapshotInv'
  BY <1>1, <1>6 DEF SnapshotInv
<1>8. RunsInv'
  BY <1>1, <1>5, <1>7 DEF TypeOK, RunsInv
<1>9. RowsInv'
  <2>1. ASSUME NEW c \in Row, Persisted(c) PROVE Persisted(c)'
    BY <1>6, <2>1 DEF Persisted, Row
  <2>2. /\ row # None => row \in Row
        /\ \A q \in Reader : reader[q].cached # None => reader[q].cached \in Row
        /\ \A d \in Trigger : trigger[d].cached # None => trigger[d].cached \in Row
    BY DEF TypeOK, ReaderState
  <2> QED
    BY <1>1, <2>1, <2>2 DEF RowsInv
<1> QED
  BY <1>1, <1>4, <1>8, <1>9, WorkerFrame DEF TypeOK, worldVars

LEMMA UpsertInv ==
  ASSUME IInv, NEW r \in Run, Upsert(r), UNCHANGED <<worldVars, registry, reader, trigger>>
  PROVE  IInv'
<1> USE DEF IInv
<1>1. /\ worker[r].pc = "persisting" /\ worker[r].at # 0 /\ worker[r].at \in Stamp
      /\ worker' = [worker EXCEPT ![r].pc = "over"]
      /\ UNCHANGED <<clock, runs>>
  BY DEF Upsert, StampInv, TypeOK
<1>2. /\ worker' \in [Run -> [pc : {"none", "building", "finalized", "persisting", "over"},
                              at : Stamp]]
      /\ \A s \in Run : /\ worker'[s].at = worker[s].at
                        /\ worker'[s].pc = IF s = r THEN "over" ELSE worker[s].pc
  BY <1>1 DEF TypeOK
<1>3. PICK located \in BOOLEAN :
        row' = [run_id |-> r, base |-> r, completed_at |-> worker[r].at, deferred |-> FALSE,
                located |-> located, compatible |-> TRUE, aged |-> FALSE]
  BY DEF Upsert
<1>4. row' \in Row /\ Persisted(row)'
  <2>1. row' \in Row
    BY <1>1, <1>3 DEF Row
  <2>2. Persisted(row)'
    BY <1>1, <1>2, <1>3, IdAssumption DEF Persisted
  <2> QED
    BY <2>1, <2>2
<1>5. RowsInv'
  BY <1>2, <1>4 DEF TypeOK, RowsInv, Persisted, Row, ReaderState
<1>6. StampInv'
  BY <1>1, <1>2 DEF StampInv
<1>7. SnapshotInv'
  BY <1>1, <1>2 DEF SnapshotInv
<1>8. RunsInv'
  BY <1>1, <1>6, <1>7 DEF TypeOK, RunsInv
<1> QED
  BY <1>1, <1>2, <1>4, <1>5, <1>8, WorkerFrame DEF TypeOK, worldVars, Stamp

LEMMA WorkerFailsInv == ASSUME IInv, NEW r \in Run, WorkerFails(r) PROVE IInv'
<1> USE DEF IInv
<1>1. /\ worker[r].pc \in {"building", "finalized", "persisting"}
      /\ worker' = [worker EXCEPT ![r].pc = "over"]
      /\ changes' \in 0 .. MaxChanges
      /\ UNCHANGED <<connectionVars, enabled, clock, row, registry, reader, trigger>>
  BY BoundAssumption DEF WorkerFails, TypeOK
<1>2. /\ worker' \in [Run -> [pc : {"none", "building", "finalized", "persisting", "over"},
                              at : Stamp]]
      /\ \A s \in Run : /\ worker'[s].at = worker[s].at
                        /\ worker'[s].pc = IF s = r THEN "over" ELSE worker[s].pc
  BY <1>1 DEF TypeOK
<1>3. RunsInv'
  <2>1. CASE worker[r].pc = "building" /\ runs[r].status = "running"
    <3> DEFINE e == [runs[r] EXCEPT !.status = "failed"]
    <3>1. runs[r] \in Entry /\ r \in Id
      BY DEF TypeOK, Id
    <3>2. /\ e \in Entry /\ e.base = runs[r].base /\ e.completed_at = runs[r].completed_at
          /\ e.status = "failed"
      BY <3>1 DEF Entry
    <3>3. runs' = [runs EXCEPT ![r] = e]
      BY <2>1 DEF WorkerFails, TypeOK
    <3> HIDE DEF e
    <3>4. \A s \in Run : /\ worker'[s].at = worker[s].at
                         /\ \/ worker'[s].pc = worker[s].pc
                            \/ worker[s].pc # "none" /\ worker'[s].pc = "over"
      BY <1>1, <1>2
    <3> QED
      BY <1>1, <2>1, <3>1, <3>2, <3>3, <3>4, RunMoves
  <2>2. CASE ~(worker[r].pc = "building" /\ runs[r].status = "running")
    <3>1. runs' = runs
      BY <2>2 DEF WorkerFails
    <3> QED
      BY <1>1, <1>2, <3>1 DEF TypeOK, RunsInv, StampInv, SnapshotInv
  <2> QED
    BY <2>1, <2>2
<1>4. RowsInv'
  BY <1>1, <1>2 DEF TypeOK, RowsInv, Persisted, Row, ReaderState
<1> QED
  BY <1>1, <1>2, <1>3, <1>4, WorkerFrame DEF TypeOK, Stamp

(***************************************************************************)
(* The readers.                                                             *)
(***************************************************************************)

\* What a reader accepts was persisted by the worker of a run.
LEMMA AcceptedRow ==
  ASSUME IInv, NEW q \in Reader, Accepted(q)
  PROVE  LET c == reader[q].cached
         IN  /\ c \in Row /\ c.run_id \in Run /\ c.base = c.run_id
             /\ c.completed_at = worker[c.run_id].at /\ c.completed_at # 0
             /\ reader[q].connected
<1> DEFINE c == reader[q].cached
<1>1. c \in Row /\ c.compatible
  BY DEF IInv, HoldInv, Accepted
<1>2. reader[q].connected
  BY DEF Accepted, SameConnection
<1>3. Persisted(c)
  BY NoneAssumption DEF IInv, HoldInv, RowsInv, Accepted
<1> QED
  BY <1>1, <1>2, <1>3 DEF Persisted, Row

\* What a request in progress may be, and what it goes on to rely on.
Sound(s) ==
    /\ s \in ReaderState
    /\ s.pc = "read" => s.cached \in Row
    /\ s.cached # None => Persisted(s.cached)
    /\ s.late => disconnect = "returned"

LEMMA ReadersSound ==
  ASSUME IInv, NEW q \in Reader
  PROVE  Sound(reader[q]) /\ Informed(reader[q], membership)
BY DEF IInv, TypeOK, HoldInv, RowsInv, DisconnectInv, Sound

LEMMA IdleSound == Sound(IdleReader) /\ Informed(IdleReader, membership)
BY DEF Sound, Informed, IdleReader, ReaderState

\* What the steps of the readers and of their memberships have in common.
LEMMA ReaderFrame ==
  ASSUME IInv, RunsInv', membership' \in SlotOf(BOOLEAN),
         disconnect = "returned" => Flushed(membership'),
         row' = None \/ row' = row, registry' \in Registered \cup {None},
         UNCHANGED <<connection, disconnect, enabled, changes, clock, worker, trigger>>,
         reader' \in [Reader -> ReaderState],
         \A p \in Reader : Sound(reader'[p]) /\ Informed(reader'[p], membership')
  PROVE  IInv'
<1>1. RowsInv'
  BY DEF IInv, RowsInv, Persisted, Sound
<1>2. HoldInv'
  BY DEF IInv, HoldInv, Sound
<1>3. DisconnectInv'
  BY DEF IInv, DisconnectInv, Sound
<1>4. TypeOK'
  BY DEF IInv, TypeOK, RunsInv
<1> QED
  BY <1>1, <1>2, <1>3, <1>4 DEF IInv, RunsInv

\* A step of one reader.
LEMMA ReaderMoves ==
  ASSUME IInv, NEW q \in Reader, NEW s, reader' = [reader EXCEPT ![q] = s], Sound(s),
         Informed(s, membership'), UNCHANGED disconnect,
         Reread(membership) /\ disconnect = "returned" => Reread(membership)'
  PROVE  /\ reader' \in [Reader -> ReaderState]
         /\ \A p \in Reader : Sound(reader'[p]) /\ Informed(reader'[p], membership')
<1>1. /\ reader \in [Reader -> ReaderState] /\ s \in ReaderState
      /\ \A p \in Reader : reader'[p] = IF p = q THEN s ELSE reader[p]
  BY DEF IInv, TypeOK, Sound
<1>2. ASSUME NEW p \in Reader PROVE Sound(reader'[p]) /\ Informed(reader'[p], membership')
  <2>1. CASE p = q
    BY <1>1, <2>1 DEF Informed
  <2>2. CASE p # q
    BY <1>1, <2>2, ReadersSound DEF Informed, Sound
  <2> QED
    BY <2>1, <2>2
<1> QED
  BY <1>1, <1>2

\* The auth context: a hit is of a slot that has forgotten the connection, and who
\* does not join a retry waits for a fetch that has not begun its retry.
LEMMA LookUpInv ==
  ASSUME IInv, NEW q \in Reader, LookUp(q),
         UNCHANGED <<connection, disconnect, enabled, changes, clock, worker, trigger>>
  PROVE  IInv'
<1>1. membership \in SlotOf(BOOLEAN) /\ UNCHANGED <<runs, row, registry>>
  BY DEF IInv, TypeOK, LookUp
<1>2. disconnect = "returned" => Flushed(membership)
  BY DEF IInv, DisconnectInv
<1>3. RunsInv' /\ registry' \in Registered \cup {None}
  BY <1>1, RunsStay DEF IInv, TypeOK
<1>4. CASE Cached(membership)
  <2> DEFINE s == [pc |-> "known", connected |-> membership.entry, cached |-> None,
                   late |-> disconnect = "returned", joinedRetry |-> FALSE]
  <2>1. membership.entry \in BOOLEAN
    BY <1>1, <1>4 DEF SlotOf, Cached
  <2>2. /\ s.pc = "known" /\ s.connected = membership.entry /\ s.cached = None
        /\ s.late <=> disconnect = "returned"
        /\ s \in ReaderState
    BY <2>1 DEF ReaderState
  <2>3. reader' = [reader EXCEPT ![q] = s] /\ membership' = membership
    BY <1>4 DEF LookUp
  <2> HIDE DEF s
  <2>4. Sound(s)
    BY <2>1, <2>2 DEF Sound, ReaderState
  <2>5. Informed(s, membership')
    BY <1>2, <2>1, <2>2 DEF Informed, Flushed
  <2> QED
    BY <1>1, <1>2, <1>3, <2>3, <2>4, <2>5, ReaderMoves, ReaderFrame
<1>5. CASE ~Cached(membership)
  <2> DEFINE s == [pc |-> "looking", connected |-> FALSE, cached |-> None,
                   late |-> disconnect = "returned", joinedRetry |-> RetryInFlight(membership)]
  <2>1. /\ s.pc = "looking" /\ s.cached = None
        /\ s.late <=> disconnect = "returned"
        /\ s.joinedRetry <=> RetryInFlight(membership)
        /\ s \in ReaderState
    BY DEF ReaderState, RetryInFlight
  <2>2. reader' = [reader EXCEPT ![q] = s] /\ membership' = Joined(membership)
    BY <1>5 DEF LookUp
  <2>3. RetryInFlight(membership) \in BOOLEAN
    BY DEF RetryInFlight
  <2> HIDE DEF s
  <2>4. Sound(s)
    BY <2>1, <2>3 DEF Sound, ReaderState
  <2>5. Informed(s, membership')
    <3>1. membership.fetch # "retry" => Joined(membership).fetch # "retry"
      BY <1>1 DEF SlotOf, Joined
    <3> QED
      BY <2>1, <2>2, <3>1 DEF Informed, Reread, RetryInFlight
  <2>6. /\ membership' \in SlotOf(BOOLEAN)
        /\ disconnect = "returned" => Flushed(membership')
        /\ Reread(membership) => Reread(membership)'
    BY <1>1, <1>2, <2>2, SlotTypes, SlotForgets, SlotRereads
  <2> QED
    BY <1>1, <1>3, <2>2, <2>4, <2>5, <2>6, ReaderMoves, ReaderFrame
<1> QED
  BY <1>4, <1>5

\* A read of the memberships after the disconnect does not find the connection.
LEMMA FetchMembershipInv ==
  ASSUME IInv, FetchMembership,
         UNCHANGED <<connection, disconnect, enabled, changes, clock, worker, trigger>>
  PROVE  IInv'
<1>1. /\ membership \in SlotOf(BOOLEAN) /\ connection \in BOOLEAN
      /\ UNCHANGED <<runs, row, registry, reader>>
      /\ \/ Reading(membership) /\ membership' = Fetched(membership, connection)
         \/ Outdated(membership) /\ membership' = Refetched(membership)
  BY DEF IInv, TypeOK, FetchMembership
<1>2. disconnect = "returned" => Flushed(membership) /\ connection = FALSE
  BY DEF IInv, TypeOK, DisconnectInv
<1>3. membership' \in SlotOf(BOOLEAN)
  BY <1>1, SlotTypes
<1>4. disconnect = "returned" => Flushed(membership')
  BY <1>1, <1>2, SlotForgets
<1>5. Reread(membership) /\ disconnect = "returned" => Reread(membership')
  BY <1>1, <1>2, SlotRereads
<1>6. DisconnectInv'
  BY <1>1, <1>4, <1>5, SlotMoves
<1>7. RunsInv' /\ RowsInv'
  BY <1>1, RunsStay, RowsStay DEF IInv
<1> QED
  BY <1>1, <1>3, <1>6, <1>7 DEF IInv, TypeOK, HoldInv, RunsInv

\* Everyone who waits is told what was read, by nobody as late as a retry unless
\* they joined one.
LEMMA SettleInv ==
  ASSUME IInv, Settle,
         UNCHANGED <<connection, disconnect, enabled, changes, clock, worker, trigger>>
  PROVE  IInv'
<1> DEFINE told(p) == [reader[p] EXCEPT !.pc = "known", !.connected = membership.seen]
<1>1. /\ membership \in SlotOf(BOOLEAN) /\ Ready(membership)
      /\ membership' = Settled(membership)
      /\ reader' = [p \in Reader |-> IF reader[p].pc = "looking" THEN told(p) ELSE reader[p]]
      /\ UNCHANGED <<runs, row, registry>>
  BY DEF IInv, TypeOK, Settle
<1>2. membership.seen \in BOOLEAN
  BY <1>1 DEF SlotOf, Ready
<1>3. disconnect = "returned" => Flushed(membership)
  BY DEF IInv, DisconnectInv
<1>4. /\ membership' \in SlotOf(BOOLEAN)
      /\ disconnect = "returned" => Flushed(membership')
      /\ Reread(membership')
  <2>1. Reread(membership')
    BY <1>1 DEF Settled, Reread
  <2> QED
    BY <1>1, <1>3, <2>1, SlotTypes, SlotForgets
<1>5. ASSUME NEW p \in Reader PROVE Sound(reader'[p]) /\ Informed(reader'[p], membership')
  <2>1. Sound(reader[p]) /\ Informed(reader[p], membership) /\ reader[p] \in ReaderState
    BY ReadersSound DEF Sound
  <2>2. CASE reader[p].pc # "looking"
    <3>1. reader'[p] = reader[p]
      BY <1>1, <2>2
    <3> QED
      BY <2>1, <2>2, <3>1 DEF Informed
  <2>3. CASE reader[p].pc = "looking"
    <3>1. reader'[p] = told(p)
      BY <1>1, <2>3
    <3>2. /\ told(p) \in ReaderState /\ told(p).pc = "known"
          /\ told(p).connected = membership.seen /\ told(p).late = reader[p].late
          /\ told(p).joinedRetry = reader[p].joinedRetry /\ told(p).cached = reader[p].cached
      BY <1>2, <2>1 DEF ReaderState
    <3> HIDE DEF told
    <3>3. Sound(told(p))
      BY <2>1, <3>2 DEF Sound
    <3>4. reader[p].late /\ ~reader[p].joinedRetry => ~membership.seen
      <4>1. reader[p].late => Flushed(membership)
        BY <1>3, <2>1 DEF Sound
      <4>2. reader[p].late /\ ~reader[p].joinedRetry => Reread(membership)
        BY <2>1, <2>3 DEF Informed
      <4> QED
        BY <1>1, <1>2, <4>1, <4>2 DEF Flushed, Reread, Ready
    <3> QED
      BY <3>1, <3>2, <3>3, <3>4 DEF Informed
  <2> QED
    BY <2>2, <2>3
<1>6. reader' \in [Reader -> ReaderState]
  <2>1. \A p \in Reader : reader'[p] \in ReaderState
    BY <1>5 DEF Sound
  <2> QED
    BY <1>1, <2>1
<1>7. RunsInv' /\ registry' \in Registered \cup {None}
  BY <1>1, RunsStay DEF IInv, TypeOK
<1> QED
  BY <1>1, <1>4, <1>5, <1>6, <1>7, ReaderFrame

\* A reader that gives up, or has read the row.
LEMMA ReadOnlyInv ==
  ASSUME IInv, NEW q \in Reader, GetActive(q) \/ DropIncompatible(q) \/ Mismatch(q) \/ Reuse(q),
         UNCHANGED <<connection, disconnect, enabled, changes, clock, worker, trigger>>
  PROVE  IInv'
<1>1. UNCHANGED <<membership, runs, registry>> /\ (row' = None \/ row' = row)
  BY DEF GetActive, DropIncompatible, Mismatch, Reuse
<1>2. PICK s \in ReaderState : /\ reader' = [reader EXCEPT ![q] = s]
                               /\ Sound(s) /\ Informed(s, membership')
  <2>1. CASE reader' = [reader EXCEPT ![q] = IdleReader]
    <3>1. IdleReader \in ReaderState /\ Sound(IdleReader) /\ Informed(IdleReader, membership')
      BY <1>1, IdleSound DEF Sound, Informed, IdleReader
    <3> QED
      BY <2>1, <3>1
  <2>2. CASE /\ row # None /\ reader[q].pc = "known"
             /\ reader' = [reader EXCEPT ![q].pc = "read", ![q].cached = row]
    <3> DEFINE s == [reader[q] EXCEPT !.pc = "read", !.cached = row]
    <3>1. reader[q] \in ReaderState /\ row \in Row /\ Persisted(row)
      BY <2>2 DEF IInv, TypeOK, RowsInv
    <3>2. /\ s \in ReaderState
          /\ s.pc = "read" /\ s.cached = row /\ s.late = reader[q].late
          /\ s.connected = reader[q].connected /\ s.joinedRetry = reader[q].joinedRetry
      BY <3>1 DEF ReaderState
    <3>3. reader' = [reader EXCEPT ![q] = s]
      BY <2>2 DEF IInv, TypeOK
    <3> HIDE DEF s
    <3>4. Sound(s)
      BY <3>1, <3>2, ReadersSound DEF Sound
    <3>5. Informed(s, membership')
      BY <1>1, <2>2, <3>2, ReadersSound DEF Informed
    <3> QED
      BY <3>2, <3>3, <3>4, <3>5
  <2> QED
    BY <2>1, <2>2 DEF GetActive, DropIncompatible, Mismatch, Reuse
<1>3. /\ registry' \in Registered \cup {None} /\ membership' \in SlotOf(BOOLEAN)
      /\ disconnect = "returned" => Flushed(membership')
  BY <1>1 DEF IInv, TypeOK, DisconnectInv
<1>4. RunsInv'
  BY <1>1, RunsStay
<1>5. /\ reader' \in [Reader -> ReaderState]
      /\ \A p \in Reader : Sound(reader'[p]) /\ Informed(reader'[p], membership')
  BY <1>1, <1>2, ReaderMoves
<1> QED
  BY <1>1, <1>3, <1>4, <1>5, ReaderFrame

\* The new snapshot replaces the one that was registered.
LEMMA LoadInv ==
  ASSUME IInv, NEW q \in Reader, Load(q),
         UNCHANGED <<connection, disconnect, enabled, changes, clock, worker, trigger>>
  PROVE  IInv'
<1> DEFINE c == reader[q].cached
           e == LoadedFrom(c)
<1>1. c \in Row /\ c.run_id \in Run /\ c.base = c.run_id /\ c.completed_at # 0
      /\ c.completed_at = worker[c.run_id].at
  BY AcceptedRow DEF Load
<1>2. PICK id \in Snapshot :
        /\ runs[id].status = "absent"
        /\ runs' = [i \in Id |->
                      IF i = id THEN e
                      ELSE IF registry # None /\ i = registry.run_id
                      THEN [runs[i] EXCEPT !.status = "deleted", !.deferred = "none"]
                      ELSE runs[i]]
        /\ registry' = [completed_at |-> c.completed_at, run_id |-> id]
  BY DEF Load
<1>3. /\ e \in Entry /\ e.status = "completed" /\ e.base = c.run_id
      /\ e.completed_at = c.completed_at
  BY <1>1 DEF LoadedFrom, Row, Entry
<1> HIDE DEF e
<1>4. \A i \in Id : LET d == [runs[i] EXCEPT !.status = "deleted", !.deferred = "none"]
                    IN  /\ d \in Entry /\ d.status = "deleted" /\ d.base = runs[i].base
                        /\ d.completed_at = runs[i].completed_at
  <2>1. \A i \in Id : runs[i] \in Entry
    BY DEF IInv, TypeOK
  <2>2. \A d \in Entry : LET f == [d EXCEPT !.status = "deleted", !.deferred = "none"]
                         IN  /\ f \in Entry /\ f.status = "deleted" /\ f.base = d.base
                             /\ f.completed_at = d.completed_at
    BY DEF Entry
  <2> QED
    BY <2>1, <2>2
<1>5. \A i \in Id : /\ runs'[i] \in Entry
                    /\ i = id => runs'[i] = e
                    /\ i # id => /\ runs'[i].base = runs[i].base
                                 /\ runs'[i].completed_at = runs[i].completed_at
                    /\ i # id /\ registry # None /\ i = registry.run_id =>
                         runs'[i].status = "deleted"
                    /\ i # id /\ ~(registry # None /\ i = registry.run_id) =>
                         runs'[i] = runs[i]
  BY <1>2, <1>3, <1>4 DEF IInv, TypeOK
<1>6. id \in Id /\ id \notin Run
  BY IdAssumption DEF Id
<1>7. registry # None => registry.run_id \in Snapshot
  BY DEF IInv, SnapshotInv
<1>8. \A r \in Run : runs'[r] = runs[r]
  BY <1>5, <1>6, <1>7, IdAssumption DEF Id
<1>9. StampInv'
  BY <1>8 DEF IInv, StampInv
<1>10. SnapshotInv'
  <2>1. ASSUME NEW i \in Snapshot
        PROVE  /\ runs'[i].status # "absent" =>
                    /\ runs'[i].base \in Run /\ runs'[i].completed_at # 0
                    /\ runs'[i].completed_at = worker'[runs'[i].base].at
               /\ runs'[i].status \notin {"running", "failed"}
               /\ runs'[i].status = "completed" => i = id
    <3>1. i \in Id
      BY DEF Id
    <3>2. CASE i = id
      BY <1>1, <1>3, <1>5, <3>1, <3>2
    <3>3. CASE i # id /\ registry # None /\ i = registry.run_id
      BY <1>5, <3>1, <3>3 DEF IInv, SnapshotInv
    <3>4. CASE i # id /\ ~(registry # None /\ i = registry.run_id)
      BY <1>5, <3>1, <3>4 DEF IInv, SnapshotInv
    <3> QED
      BY <3>2, <3>3, <3>4
  <2>2. /\ registry' # None /\ registry'.run_id = id
        /\ runs'[id].status = "completed" /\ runs'[id].completed_at = registry'.completed_at
    <3>1. registry'.run_id = id /\ registry'.completed_at = c.completed_at
      BY <1>2
    <3>2. registry' # None
      <4>1. c.completed_at \in Stamp
        BY <1>1 DEF Row
      <4>2. registry' \in Registered
        BY <1>2, <4>1 DEF Registered
      <4> QED
        BY <4>2, NoneAssumption
    <3> QED
      BY <1>2, <1>3, <1>5, <1>6, <3>1, <3>2
  <2> QED
    BY <2>1, <2>2 DEF SnapshotInv
<1>11. registry' \in Registered \cup {None}
  BY <1>1, <1>2 DEF Registered, Row
<1>12. RunsInv'
  <2>1. runs' \in [Id -> Entry]
    BY <1>2, <1>5
  <2>2. ASSUME NEW i \in Id, runs'[i].status # "absent" PROVE runs'[i].base \in Run
    <3>1. CASE i = id
      BY <1>1, <1>3, <1>5, <3>1
    <3>2. CASE i # id /\ registry # None /\ i = registry.run_id
      BY <1>5, <3>2 DEF IInv, SnapshotInv
    <3>3. CASE i # id /\ ~(registry # None /\ i = registry.run_id)
      BY <1>5, <2>2, <3>3 DEF IInv, TypeOK
    <3> QED
      BY <3>1, <3>2, <3>3
  <2> QED
    BY <1>9, <1>10, <2>1, <2>2 DEF RunsInv
<1>13. reader' = [reader EXCEPT ![q] = IdleReader] /\ UNCHANGED <<membership, row>>
  BY DEF Load
<1>14. Sound(IdleReader) /\ Informed(IdleReader, membership')
  BY <1>13, IdleSound DEF Informed, IdleReader
<1>15. membership' \in SlotOf(BOOLEAN) /\ (disconnect = "returned" => Flushed(membership'))
  BY <1>13 DEF IInv, TypeOK, DisconnectInv
<1>16. /\ reader' \in [Reader -> ReaderState]
       /\ \A p \in Reader : Sound(reader'[p]) /\ Informed(reader'[p], membership')
  BY <1>13, <1>14, ReaderMoves
<1> QED
  BY <1>11, <1>12, <1>13, <1>15, <1>16, ReaderFrame

(***************************************************************************)
(* The deferred source.                                                     *)
(***************************************************************************)
Held == [pc : {"idle", "claimed", "fetched", "folding", "read", "matched"},
         target : Id \cup {None}, cached : Row \cup {None}]

LEMMA IdleHeld == /\ IdleTrigger \in Held /\ IdleTrigger.pc = "idle"
                  /\ IdleTrigger.cached = None
BY DEF IdleTrigger, Held

\* What the steps of a deferred request have in common.
LEMMA TriggerFrame ==
  ASSUME IInv, RunsInv', NEW d \in Trigger, NEW s \in Held, trigger' = [trigger EXCEPT ![d] = s],
         s.pc # "idle" => s.target \in Id,
         s.pc \in {"read", "matched"} => s.cached \in Row,
         s.cached # None => Persisted(s.cached),
         row' \in Row \cup {None}, row' # None => Persisted(row'),
         UNCHANGED <<worldVars, clock, worker, registry, reader>>
  PROVE  IInv'
<1>1. \A c \in Trigger : trigger'[c] = IF c = d THEN s ELSE trigger[c]
  BY DEF IInv, TypeOK
<1>2. trigger' \in [Trigger -> Held]
  BY DEF IInv, TypeOK, Held
<1>3. RowsInv'
  <2>1. \A q \in Reader : reader'[q].cached # None => Persisted(reader[q].cached)'
    BY DEF IInv, RowsInv, Persisted
  <2>2. \A c \in Trigger : trigger'[c].cached # None => Persisted(trigger[c].cached)'
    BY <1>1 DEF IInv, RowsInv, Persisted
  <2>3. row' # None => Persisted(row)'
    BY DEF Persisted
  <2> QED
    BY <2>1, <2>2, <2>3 DEF RowsInv, Persisted
<1>4. HoldInv' /\ DisconnectInv'
  BY <1>1 DEF IInv, HoldInv, DisconnectInv, Informed, worldVars, connectionVars
<1>5. TypeOK'
  BY <1>2 DEF IInv, TypeOK, RunsInv, Held, worldVars, connectionVars
<1> QED
  BY <1>3, <1>4, <1>5 DEF IInv, RunsInv

\* A change of the deferred rows of one run.
LEMMA DeferredMoves ==
  ASSUME IInv, NEW id \in Id, NEW deferred \in {"none", "pending", "stored"},
         runs' = [runs EXCEPT ![id].deferred = deferred],
         UNCHANGED <<clock, worker, registry>>
  PROVE  RunsInv'
<1> DEFINE e == [runs[id] EXCEPT !.deferred = deferred]
<1>1. runs[id] \in Entry
  BY DEF IInv, TypeOK
<1>2. /\ e \in Entry /\ e.status = runs[id].status /\ e.base = runs[id].base
      /\ e.completed_at = runs[id].completed_at
  BY <1>1 DEF Entry
<1>3. runs' = [runs EXCEPT ![id] = e]
  BY DEF IInv, TypeOK
<1> HIDE DEF e
<1> QED
  BY <1>2, <1>3, RunMoves

LEMMA ClaimInv ==
  ASSUME IInv, NEW d \in Trigger, NEW id \in Id, Claim(d, id),
         UNCHANGED <<worldVars, clock, worker, registry, reader>>
  PROVE  IInv'
<1> DEFINE s == [trigger[d] EXCEPT !.pc = "claimed", !.target = id]
<1>1. trigger[d] \in Held
  BY DEF IInv, TypeOK, Held
<1>2. s \in Held /\ s.pc = "claimed" /\ s.target = id /\ s.cached = trigger[d].cached
  BY <1>1 DEF Held
<1>3. trigger' = [trigger EXCEPT ![d] = s]
  BY DEF Claim, IInv, TypeOK
<1> HIDE DEF s
<1>4. RunsInv'
  BY DeferredMoves DEF Claim
<1>5. row' = row /\ row \in Row \cup {None} /\ (row # None => Persisted(row))
  BY DEF Claim, IInv, TypeOK, RowsInv
<1>6. s.cached # None => Persisted(s.cached)
  BY <1>2 DEF IInv, RowsInv
<1> QED
  BY <1>2, <1>3, <1>4, <1>5, <1>6, TriggerFrame

\* A deferred request on its way to the row: the target stays.
LEMMA FetchInv ==
  ASSUME IInv, NEW d \in Trigger, FetchDeferred(d) \/ CompleteDeferred(d) \/ ReadRow(d) \/ Match(d),
         UNCHANGED <<worldVars, clock, worker, registry, reader>>
  PROVE  IInv'
<1> DEFINE t == trigger[d]
<1>1. /\ t \in Held /\ t.target \in Id
      /\ t.pc \in {"claimed", "fetched", "folding", "read"}
      /\ t.cached # None => Persisted(t.cached)
      /\ t.pc = "read" => t.cached \in Row
  BY DEF FetchDeferred, CompleteDeferred, ReadRow, Match, IInv, TypeOK, HoldInv, RowsInv, Held
<1>2. row' = row /\ row \in Row \cup {None} /\ (row # None => Persisted(row))
  BY DEF FetchDeferred, CompleteDeferred, ReadRow, Match, IInv, TypeOK, RowsInv
<1>3. RunsInv'
  <2>1. CASE runs' = runs
    BY <2>1, RunsStay
  <2>2. ASSUME NEW id \in Id, NEW deferred \in {"none", "pending", "stored"},
               runs' = [runs EXCEPT ![id].deferred = deferred]
        PROVE  RunsInv'
    BY <2>2, DeferredMoves
  <2>3. runs[t.target].deferred \in {"none", "pending", "stored"}
    BY <1>1 DEF IInv, TypeOK, Entry
  <2>4. \/ runs' = runs
        \/ \E deferred \in {"none", "pending", "stored"} :
             runs' = [runs EXCEPT ![t.target].deferred = deferred]
    BY <2>3 DEF FetchDeferred, CompleteDeferred, ReadRow, Match
  <2> QED
    BY <1>1, <2>1, <2>2, <2>4
<1>4. PICK s \in Held : /\ trigger' = [trigger EXCEPT ![d] = s]
                        /\ s.pc # "idle" => s.target \in Id
                        /\ s.pc \in {"read", "matched"} => s.cached \in Row
                        /\ s.cached # None => Persisted(s.cached)
  <2>1. CASE trigger' = [trigger EXCEPT ![d] = IdleTrigger]
    BY <2>1, IdleHeld
  <2>2. ASSUME NEW pc \in {"fetched", "folding", "matched"}, trigger' = [trigger EXCEPT ![d].pc = pc],
               pc = "matched" => t.pc = "read"
        PROVE  \E s \in Held : /\ trigger' = [trigger EXCEPT ![d] = s]
                               /\ s.pc # "idle" => s.target \in Id
                               /\ s.pc \in {"read", "matched"} => s.cached \in Row
                               /\ s.cached # None => Persisted(s.cached)
    <3> DEFINE s == [t EXCEPT !.pc = pc]
    <3>1. s \in Held /\ s.pc = pc /\ s.target = t.target /\ s.cached = t.cached
      BY <1>1 DEF Held
    <3>2. trigger' = [trigger EXCEPT ![d] = s]
      BY <2>2 DEF IInv, TypeOK
    <3> HIDE DEF s
    <3> QED
      BY <1>1, <2>2, <3>1, <3>2
  <2>3. CASE row # None /\ trigger' = [trigger EXCEPT ![d].pc = "read", ![d].cached = row]
    <3> DEFINE s == [t EXCEPT !.pc = "read", !.cached = row]
    <3>1. s \in Held /\ s.pc = "read" /\ s.target = t.target /\ s.cached = row
      BY <1>1, <1>2 DEF Held
    <3>2. trigger' = [trigger EXCEPT ![d] = s]
      BY <2>3 DEF IInv, TypeOK
    <3> HIDE DEF s
    <3> QED
      BY <1>1, <1>2, <2>3, <3>1, <3>2
  <2>4. \/ trigger' = [trigger EXCEPT ![d] = IdleTrigger]
        \/ \E pc \in {"fetched", "folding", "matched"} :
             trigger' = [trigger EXCEPT ![d].pc = pc] /\ (pc = "matched" => t.pc = "read")
        \/ row # None /\ trigger' = [trigger EXCEPT ![d].pc = "read", ![d].cached = row]
    BY DEF FetchDeferred, CompleteDeferred, ReadRow, Match
  <2> QED
    BY <2>1, <2>2, <2>3, <2>4
<1> QED
  BY <1>2, <1>3, <1>4, TriggerFrame

\* update_datasets_if_current: the row that was read is the row that is there.
LEMMA PatchInv ==
  ASSUME IInv, NEW d \in Trigger, Patch(d),
         UNCHANGED <<worldVars, clock, worker, registry, reader>>
  PROVE  IInv'
<1> DEFINE c == trigger[d].cached
           patched == [row EXCEPT !.base = c.base, !.deferred = TRUE]
<1>1. c \in Row /\ Persisted(c)
  BY NoneAssumption DEF Patch, IInv, HoldInv, RowsInv
<1>2. trigger' = [trigger EXCEPT ![d] = IdleTrigger] /\ UNCHANGED runs
  BY DEF Patch
<1>3. row' \in Row \cup {None} /\ (row' # None => Persisted(row'))
  <2>1. CASE row' = row
    BY <2>1 DEF IInv, TypeOK, RowsInv
  <2>2. CASE row # None /\ row.run_id = c.run_id /\ row' = patched
    <3>1. row \in Row /\ Persisted(row)
      BY <2>2 DEF IInv, TypeOK, RowsInv
    <3>2. /\ patched \in Row /\ patched.base = c.base /\ patched.run_id = row.run_id
          /\ patched.completed_at = row.completed_at /\ patched.compatible = row.compatible
      BY <1>1, <3>1 DEF Row
    <3> QED
      BY <1>1, <2>2, <3>1, <3>2 DEF Persisted
  <2> QED
    BY <2>1, <2>2 DEF Patch
<1>4. RunsInv'
  BY <1>2, RunsStay
<1> QED
  BY <1>2, <1>3, <1>4, IdleHeld, TriggerFrame

LEMMA CallFailsInv == ASSUME IInv, CallFails PROVE IInv'
<1>1. /\ changes' \in 0 .. MaxChanges
      /\ UNCHANGED <<connection, disconnect, enabled, clock, runs, worker, row, registry>>
  BY BoundAssumption DEF CallFails, IInv, TypeOK
<1>2. RunsInv'
  BY <1>1, RunsStay
<1>3. CASE \E q \in Reader : /\ reader' = [reader EXCEPT ![q] = IdleReader]
                             /\ UNCHANGED <<trigger, membership>>
  <2>1. PICK q \in Reader : /\ reader' = [reader EXCEPT ![q] = IdleReader]
                            /\ UNCHANGED <<trigger, membership>>
    BY <1>3
  <2>2. Sound(IdleReader) /\ Informed(IdleReader, membership')
    BY <2>1, IdleSound DEF Informed, IdleReader
  <2>3. /\ reader' \in [Reader -> ReaderState]
        /\ \A p \in Reader : Sound(reader'[p]) /\ Informed(reader'[p], membership')
    BY <1>1, <2>1, <2>2, ReaderMoves
  <2>4. RowsInv' /\ HoldInv' /\ DisconnectInv'
    BY <1>1, <2>1, <2>3 DEF IInv, RowsInv, Persisted, HoldInv, DisconnectInv, Sound
  <2>5. TypeOK'
    BY <1>1, <1>2, <2>1, <2>3 DEF IInv, TypeOK
  <2> QED
    BY <1>2, <2>4, <2>5 DEF IInv, RunsInv
<1>4. CASE \E d \in Trigger : /\ trigger' = [trigger EXCEPT ![d] = IdleTrigger]
                              /\ UNCHANGED <<reader, membership>>
  <2>1. PICK d \in Trigger : /\ trigger' = [trigger EXCEPT ![d] = IdleTrigger]
                             /\ UNCHANGED <<reader, membership>>
    BY <1>4
  <2>2. \A c \in Trigger : trigger'[c] = IF c = d THEN IdleTrigger ELSE trigger[c]
    BY <2>1 DEF IInv, TypeOK
  <2>3. RowsInv' /\ HoldInv' /\ DisconnectInv'
    BY <1>1, <2>1, <2>2, IdleHeld
       DEF IInv, RowsInv, Persisted, HoldInv, DisconnectInv, Informed
  <2>4. trigger' \in [Trigger -> Held]
    BY <2>1, IdleHeld DEF IInv, TypeOK, Held
  <2>5. TypeOK'
    BY <1>1, <1>2, <2>1, <2>4 DEF IInv, TypeOK, Held
  <2> QED
    BY <1>2, <2>3, <2>5 DEF IInv, RunsInv
<1>5. CASE /\ membership' = Abandoned(membership)
           /\ reader' = [p \in Reader |-> IF reader[p].pc = "looking" THEN IdleReader ELSE reader[p]]
           /\ UNCHANGED trigger
  <2>1. /\ membership' \in SlotOf(BOOLEAN)
        /\ disconnect = "returned" => Flushed(membership')
    BY <1>5, SlotTypes, SlotForgets DEF IInv, TypeOK, DisconnectInv
  <2>2. \A p \in Reader : Sound(reader'[p]) /\ Informed(reader'[p], membership')
    <3> SUFFICES ASSUME NEW p \in Reader PROVE Sound(reader'[p]) /\ Informed(reader'[p], membership')
      OBVIOUS
    <3>1. CASE reader[p].pc = "looking"
      <4>1. reader'[p] = IdleReader
        BY <1>5, <3>1
      <4> QED
        BY <4>1, IdleSound DEF Informed, IdleReader
    <3>2. CASE reader[p].pc # "looking"
      <4>1. reader'[p] = reader[p]
        BY <1>5, <3>2
      <4> QED
        BY <3>2, <4>1, ReadersSound DEF Informed
    <3> QED
      BY <3>1, <3>2
  <2>3. \A p \in Reader : reader'[p] \in ReaderState
    BY <2>2 DEF Sound
  <2>4. RowsInv' /\ HoldInv' /\ DisconnectInv'
    BY <1>1, <1>5, <2>1, <2>2 DEF IInv, RowsInv, Persisted, HoldInv, DisconnectInv, Sound
  <2>5. TypeOK'
    BY <1>1, <1>2, <1>5, <2>1, <2>3 DEF IInv, TypeOK
  <2> QED
    BY <1>2, <2>4, <2>5 DEF IInv, RunsInv
<1> QED
  BY <1>3, <1>4, <1>5 DEF CallFails

(***************************************************************************)
(* The invariant is inductive.                                              *)
(***************************************************************************)
LEMMA StepInv == IInv /\ [Next]_vars => IInv'
<1> SUFFICES ASSUME IInv, [Next]_vars PROVE IInv'
  OBVIOUS
<1>1. CASE UNCHANGED vars
  <2>1. RunsInv'
    BY <1>1, RunsStay DEF vars
  <2>2. RowsInv'
    BY <1>1, RowsStay DEF vars, IInv
  <2> QED
    BY <1>1, <2>1, <2>2
       DEF IInv, TypeOK, HoldInv, RunsInv, DisconnectInv, Informed, vars, worldVars, connectionVars
<1>2. CASE WorkerStep
  BY <1>2, CreateRunInv, FinalizeInv, ReadSettingsInv, UpsertInv DEF WorkerStep
<1>3. CASE ReaderStep
  BY <1>3, LookUpInv, FetchMembershipInv, SettleInv, ReadOnlyInv, LoadInv DEF ReaderStep
<1>4. CASE TriggerStep
  BY <1>4, ClaimInv, FetchInv, PatchInv DEF TriggerStep
<1> QED
  BY <1>1, <1>2, <1>3, <1>4, WorldStepInv, DisconnectStepInv, WorkerFailsInv, CallFailsInv
     DEF Next

LEMMA InvHolds == Spec => []IInv
BY InitInv, StepInv, PTL DEF Spec

(***************************************************************************)
(* The promises of the cache.                                               *)
(***************************************************************************)

\* The row, the registry, the runs and what every reader and fold has in hand
\* are well typed, and whatever run serves rows knows whose they are.
THEOREM TypeCorrectness == Spec => []TypeOK
<1>1. IInv => TypeOK
  BY DEF IInv
<1> QED
  BY <1>1, InvHolds, PTL

\* The row's datasets are those of the run it names: a fold that lost a race
\* against another run's upsert changes nothing (update_datasets_if_current).
THEOREM RowsNeverMix == Spec => []RowIsOneRun
<1>1. IInv => RowIsOneRun
  BY DEF IInv, RowsInv, Persisted, RowIsOneRun
<1> QED
  BY <1>1, InvHolds, PTL

\* At most one snapshot of the organization is live: the registry evicts the
\* one it replaces (_load_or_reuse_cached_snapshot).
THEOREM SnapshotsReplaced == Spec => []OneLiveSnapshot
<1>1. IInv => OneLiveSnapshot
  <2> SUFFICES ASSUME IInv PROVE OneLiveSnapshot
    OBVIOUS
  <2> DEFINE live == {id \in Snapshot : runs[id].status = "completed"}
  <2>1. live = {} \/ live = {registry.run_id}
    BY DEF IInv, SnapshotInv
  <2>2. Cardinality({}) = 0 /\ Cardinality({registry.run_id}) = 1
    BY FS_EmptySet, FS_Singleton
  <2> HIDE DEF live
  <2>3. Cardinality(live) \in {0, 1}
    BY <2>1, <2>2
  <2> QED
    BY <2>3 DEF OneLiveSnapshot, live
<1> QED
  BY <1>1, InvHolds, PTL

\* A /cached request is answered with the run of the row it read, although it
\* compares completed_at only: no two runs have one in common.
THEOREM AnswersAreTheRow == Spec => AnswerIsTheCachedRun
<1> DEFINE Same == \A q \in Reader : Answers(q) =>
         LET answer == runs'[registry'.run_id]
         IN  /\ answer.base = reader[q].cached.run_id
             /\ answer.completed_at = reader[q].cached.completed_at
<1>1. IInv /\ [Next]_vars => Same
  <2> SUFFICES ASSUME IInv, NEW q \in Reader, Reuse(q) \/ Load(q)
               PROVE  /\ runs'[registry'.run_id].base = reader[q].cached.run_id
                      /\ runs'[registry'.run_id].completed_at = reader[q].cached.completed_at
    BY DEF Answers
  <2> DEFINE c == reader[q].cached
  <2>1. /\ c \in Row /\ c.run_id \in Run /\ c.base = c.run_id
        /\ c.completed_at = worker[c.run_id].at /\ c.completed_at # 0
    BY AcceptedRow DEF Reuse, Load
  <2>2. CASE Reuse(q)
    <3> DEFINE answer == runs[registry.run_id]
    <3>1. /\ UNCHANGED <<runs, registry>> /\ registry # None
          /\ registry.completed_at = c.completed_at
      BY <2>2 DEF Reuse, Reusable
    <3>2. /\ answer.completed_at = c.completed_at /\ answer.base \in Run
          /\ answer.completed_at = worker[answer.base].at
      BY <3>1 DEF IInv, SnapshotInv
    <3>3. answer.base = c.run_id
      BY <2>1, <3>2 DEF IInv, StampInv
    <3> QED
      BY <3>1, <3>2, <3>3
  <2>3. CASE Load(q)
    <3>1. PICK id \in Snapshot : /\ runs'[id] = LoadedFrom(c)
                                 /\ registry'.run_id = id
      <4>1. PICK id \in Snapshot :
              /\ runs' = [i \in Id |->
                            IF i = id THEN LoadedFrom(c)
                            ELSE IF registry # None /\ i = registry.run_id
                            THEN [runs[i] EXCEPT !.status = "deleted", !.deferred = "none"]
                            ELSE runs[i]]
              /\ registry' = [completed_at |-> c.completed_at, run_id |-> id]
        BY <2>3 DEF Load
      <4>2. id \in Id
        BY DEF Id
      <4>3. runs'[id] = LoadedFrom(c)
        BY <4>1, <4>2
      <4>4. registry'.run_id = id
        BY <4>1
      <4> QED
        BY <4>3, <4>4
    <3>2. LoadedFrom(c).base = c.base /\ LoadedFrom(c).completed_at = c.completed_at
      BY DEF LoadedFrom
    <3> QED
      BY <2>1, <3>1, <3>2
  <2> QED
    BY <2>2, <2>3
<1> QED
  BY <1>1, InvHolds, PTL DEF Spec, AnswerIsTheCachedRun

\* A request that begins after the disconnect returned is not served, whatever row
\* a late worker has written back and whatever fetch of the memberships it waits
\* for, unless it joined one that was being retried: the flush leaves no entry that
\* shows the connection and no first read that may become one.
THEOREM DisconnectHolds == Spec => NothingServedAfterDisconnect
<1> DEFINE Refused == \A q \in Reader : Answers(q) => ~reader[q].late \/ reader[q].joinedRetry
<1>1. IInv /\ [Next]_vars => Refused
  <2> SUFFICES ASSUME IInv, NEW q \in Reader, Accepted(q)
               PROVE  ~reader[q].late \/ reader[q].joinedRetry
    BY DEF Answers, Reuse, Load
  <2>1. reader[q].pc = "read" /\ reader[q].connected /\ Informed(reader[q], membership)
    BY AcceptedRow, ReadersSound DEF Accepted
  <2> QED
    BY <2>1 DEF Informed
<1> QED
  BY <1>1, InvHolds, PTL DEF Spec, NothingServedAfterDisconnect
=============================================================================
