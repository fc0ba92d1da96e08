--------------------------- MODULE TenantTick_proofs ---------------------------
(***************************************************************************)
(* The safety of the tenant loop for any number of connections, calls and   *)
(* attempts: ticks exclude each other and leave no connection behind, the   *)
(* calls of a tick are bounded and so is every wait between ticks.          *)
(***************************************************************************)
EXTENDS TenantTick, TLAPS, FiniteSetTheorems

(***************************************************************************)
(* The inductive invariant.                                                 *)
(***************************************************************************)
Settled == {"none", "over", "dropped"}

TypeInv ==
    /\ pc \in {"top", "awaiting", "draining", "cadence", "ended", "released"}
    /\ interrupted \in BOOLEAN
    /\ cause \in {"none", "timeout", "raised", "cancelled"}
    /\ current \in Slot
    /\ tick \in [Slot -> {"none", "queued", "running", "over", "dropped"}]
    /\ thread \in [Slot -> [step : {"idle", "ensure", "connecting", "cursor", "call", "between"},
                            conn : Conn \cup {NoConn}, calls : Nat, unknown : BOOLEAN]]
    /\ connection \in Conn \cup {NoConn}

\* The earlier slot's tick is over; the latest one is where the loop knows it
\* to be, unless the drain itself was interrupted.
TickInv ==
    /\ tick[1 - current] \in Settled
    /\ pc \in {"top", "cadence"} => tick[current] \in Settled
    /\ pc = "awaiting" => tick[current] \in {"queued", "running", "over"} /\ cause = "none"
    /\ pc = "draining" => tick[current] \in {"running", "over"}
    /\ pc \in {"ended", "released"} /\ ~interrupted => tick[current] \in Settled

\* Whatever is open is the session's connection; a thread that connects found
\* none, and nobody else can make one meanwhile.
SessionInv ==
    /\ open = {connection} \ {NoConn}
    /\ \A i \in Slot : At(i, "connecting") => connection = NoConn
    /\ pc \in {"top", "cadence"} /\ cause \in {"timeout", "raised"} /\ tick[current] = "over" =>
         connection = NoConn
    /\ pc = "released" /\ ~interrupted => connection = NoConn

IInv == TypeInv /\ TickInv /\ SessionInv

LEMMA InitInv == Init => IInv
<1> SUFFICES ASSUME Init PROVE IInv
  OBVIOUS
<1>1. TypeInv
  BY DEF Init, TypeInv, Slot, IdleThread
<1>2. TickInv /\ SessionInv
  BY DEF Init, TickInv, SessionInv, Settled, Slot, At
<1> QED
  BY <1>1, <1>2 DEF IInv

(***************************************************************************)
(* The pool thread. Only the current tick can run.                          *)
(***************************************************************************)

\* A thread's step that opens nothing.
LEMMA ThreadMoves ==
  ASSUME IInv, NEW i \in Slot, UNCHANGED <<pc, cause, interrupted, current, connection, open>>,
         NEW t, tick' = [tick EXCEPT ![i] = t], NEW s, thread' = [thread EXCEPT ![i] = s],
         s \in [step : {"idle", "ensure", "connecting", "cursor", "call", "between"},
                conn : Conn \cup {NoConn}, calls : Nat, unknown : BOOLEAN],
         \/ tick[i] = "queued" /\ t = "running" /\ s.step = "ensure"
         \/ tick[i] = "running" /\ t = "running" /\ (s.step = "connecting" => connection = NoConn)
         \/ tick[i] = "running" /\ t = "over" /\ s.step = "idle"
  PROVE  IInv'
<1> USE DEF IInv, Slot
<1>1. /\ tick' \in [Slot -> {"none", "queued", "running", "over", "dropped"}]
      /\ \A j \in Slot : tick'[j] = IF j = i THEN t ELSE tick[j]
      /\ \A j \in Slot : thread'[j] = IF j = i THEN s ELSE thread[j]
  BY DEF TypeInv
<1>2. TypeInv'
  BY <1>1 DEF TypeInv
<1>3. i = current
  BY DEF TypeInv, TickInv, Settled
<1>4. TickInv'
  BY <1>1, <1>3 DEF TypeInv, TickInv, Settled
<1>5. SessionInv'
  <2>1. \A j \in Slot : At(j, "connecting")' => connection' = NoConn
    BY <1>1 DEF SessionInv, At
  <2>2. pc \in {"top", "cadence"} => FALSE
    BY <1>3 DEF TickInv, Settled
  <2> QED
    BY <2>1, <2>2 DEF SessionInv
<1> QED
  BY <1>2, <1>4, <1>5

\* The driver's connect returns: only the current tick's thread can be there.
LEMMA ConnectStep ==
  ASSUME IInv, NEW i \in Slot, At(i, "connecting"), NEW c \in Conn, GoTo(i, "cursor"),
         connection' = c, open' = open \cup {c},
         UNCHANGED <<pc, cause, interrupted, current>>
  PROVE  IInv'
<1> USE DEF IInv, Slot
<1>1. tick' = tick /\ thread' = [thread EXCEPT ![i].step = "cursor"]
  BY DEF GoTo
<1>2. /\ thread' \in [Slot -> [step : {"idle", "ensure", "connecting", "cursor", "call", "between"},
                              conn : Conn \cup {NoConn}, calls : Nat, unknown : BOOLEAN]]
      /\ thread'[i].step = "cursor"
  BY <1>1 DEF TypeInv
<1>3. tick[i] = "running" /\ i = current
  BY DEF At, TypeInv, TickInv, Settled
<1>4. pc \in {"awaiting", "draining"} \/ interrupted
  BY <1>3 DEF TypeInv, TickInv, Settled
<1>5. TypeInv' /\ TickInv'
  BY <1>1, <1>2 DEF TypeInv, TickInv
<1>6. connection = NoConn /\ c # NoConn
  BY ConnAssumption DEF SessionInv
<1>7. \A j \in Slot : ~At(j, "connecting")'
  BY <1>1, <1>2, <1>3 DEF At, TypeInv, TickInv, Settled
<1>8. pc \notin {"top", "cadence"}
  BY <1>3 DEF TickInv, Settled
<1>9. pc = "released" => interrupted
  BY <1>4
<1> QED
  BY <1>5, <1>6, <1>7, <1>8, <1>9 DEF SessionInv

LEMMA ThreadStepInv == ASSUME IInv, NEW i \in Slot, ThreadStep(i) PROVE IInv'
<1> DEFINE T == [step : {"idle", "ensure", "connecting", "cursor", "call", "between"},
                 conn : Conn \cup {NoConn}, calls : Nat, unknown : BOOLEAN]
<1>1. UNCHANGED <<pc, cause, interrupted, current>> /\ thread[i] \in T
  BY DEF ThreadStep, loopVars, IInv, TypeInv
<1>2. IdleThread \in T /\ IdleThread.step = "idle"
  BY DEF IdleThread
<1>3. ASSUME NEW how, Finish(i, how), tick[i] = "running", UNCHANGED <<connection, open>>
      PROVE  IInv'
  BY <1>1, <1>2, <1>3, ThreadMoves DEF Finish
<1>4. ASSUME NEW step \in {"ensure", "connecting", "cursor"}, GoTo(i, step), tick[i] = "running",
             step = "connecting" => connection = NoConn, UNCHANGED <<connection, open>>
      PROVE  IInv'
  <2> DEFINE s == [thread[i] EXCEPT !.step = step]
  <2>1. s \in T /\ s.step = step
    BY <1>1
  <2>2. thread' = [thread EXCEPT ![i] = s] /\ tick' = [tick EXCEPT ![i] = "running"]
    BY <1>4 DEF GoTo, IInv, TypeInv
  <2> HIDE DEF s
  <2> QED
    BY <1>1, <1>4, <2>1, <2>2, ThreadMoves
<1>5. CASE StartTick(i)
  <2> DEFINE s == [IdleThread EXCEPT !.step = "ensure"]
  <2>1. s \in T /\ s.step = "ensure"
    BY DEF IdleThread
  <2>2. /\ tick[i] = "queued" /\ tick' = [tick EXCEPT ![i] = "running"]
        /\ thread' = [thread EXCEPT ![i] = s] /\ UNCHANGED <<connection, open>>
    BY <1>5 DEF StartTick, sessionVars
  <2> HIDE DEF s
  <2> QED
    BY <1>1, <2>1, <2>2, ThreadMoves
<1>6. CASE EnsureConnected(i)
  BY <1>4, <1>6 DEF EnsureConnected, At, sessionVars
<1>7. CASE Connect(i)
  <2>1. CASE Finish(i, "raised") /\ UNCHANGED sessionVars
    BY <1>3, <1>7, <2>1 DEF Connect, At, sessionVars
  <2>2. CASE \E c \in Conn : connection' = c /\ open' = open \cup {c} /\ GoTo(i, "cursor")
    BY <1>1, <1>7, <2>2, ConnectStep DEF Connect
  <2> QED
    BY <1>7, <2>1, <2>2 DEF Connect
<1>8. CASE OpenCursor(i)
  <2>1. CASE Finish(i, "raised")
    BY <1>3, <1>8, <2>1 DEF OpenCursor, At, sessionVars
  <2>2. CASE /\ thread' = [thread EXCEPT ![i].step = "call", ![i].conn = connection]
             /\ UNCHANGED <<tick, verdict>>
    <3> DEFINE s == [thread[i] EXCEPT !.step = "call", !.conn = connection]
    <3>1. s \in T /\ s.step = "call"
      BY <1>1 DEF IInv, TypeInv
    <3>2. /\ tick[i] = "running" /\ UNCHANGED <<connection, open>>
          /\ thread' = [thread EXCEPT ![i] = s] /\ tick' = [tick EXCEPT ![i] = "running"]
      BY <1>8, <2>2 DEF OpenCursor, At, sessionVars, IInv, TypeInv
    <3> HIDE DEF s
    <3> QED
      BY <1>1, <3>1, <3>2, ThreadMoves
  <2> QED
    BY <1>8, <2>1, <2>2 DEF OpenCursor
<1>9. CASE Call(i)
  <2>1. CASE Finish(i, "raised")
    BY <1>3, <1>9, <2>1 DEF Call, At, sessionVars
  <2>2. CASE \E unknown \in BOOLEAN :
               /\ thread' = [thread EXCEPT ![i].step = "between", ![i].conn = NoConn,
                               ![i].calls = @ + 1, ![i].unknown = @ \/ unknown]
               /\ UNCHANGED <<tick, verdict>>
    <3>1. PICK unknown \in BOOLEAN :
               /\ thread' = [thread EXCEPT ![i].step = "between", ![i].conn = NoConn,
                               ![i].calls = @ + 1, ![i].unknown = @ \/ unknown]
               /\ UNCHANGED <<tick, verdict>>
      BY <2>2
    <3> DEFINE s == [thread[i] EXCEPT !.step = "between", !.conn = NoConn, !.calls = @ + 1,
                       !.unknown = @ \/ unknown]
    <3>2. s \in T /\ s.step = "between"
      <4>1. \A b \in BOOLEAN, n \in Nat :
              LET u == [thread[i] EXCEPT !.step = "between", !.conn = NoConn, !.calls = n,
                                         !.unknown = b]
              IN  u \in T /\ u.step = "between"
        BY <1>1
      <4>2. thread[i].calls + 1 \in Nat /\ (thread[i].unknown \/ unknown) \in BOOLEAN
        BY <1>1
      <4> QED
        BY <4>1, <4>2
    <3>3. /\ tick[i] = "running" /\ UNCHANGED <<connection, open>>
          /\ thread' = [thread EXCEPT ![i] = s] /\ tick' = [tick EXCEPT ![i] = "running"]
      BY <1>9, <3>1 DEF Call, At, sessionVars, IInv, TypeInv
    <3> HIDE DEF s
    <3> QED
      BY <1>1, <3>2, <3>3, ThreadMoves
  <2> QED
    BY <1>9, <2>1, <2>2 DEF Call
<1>10. CASE Between(i)
  BY <1>3, <1>4, <1>10 DEF Between, At, sessionVars
<1> QED
  BY <1>5, <1>6, <1>7, <1>8, <1>9, <1>10 DEF ThreadStep

(***************************************************************************)
(* The loop.                                                                *)
(***************************************************************************)

\* The session is closed: nothing is open.
LEMMA Closed ==
  ASSUME IInv, CloseHard
  PROVE  connection' = NoConn /\ open' = {}
BY ConnAssumption DEF CloseHard, IInv, SessionInv

\* The loop moves on with a tick that is over or dropped.
LEMMA LoopMoves ==
  ASSUME IInv, UNCHANGED thread, current' = current, tick' = tick,
         tick[current] \in Settled \/ interrupted',
         pc' \in {"cadence", "ended", "released"}, interrupted' \in BOOLEAN,
         cause' \in {"none", "timeout", "raised", "cancelled"},
         \/ CloseHard
         \/ /\ UNCHANGED <<connection, open>> /\ pc' # "released"
            /\ pc' = "cadence" => ~(cause' \in {"timeout", "raised"} /\ tick[current] = "over"),
         pc' = "cadence" => tick[current] \in Settled
  PROVE  IInv'
<1> USE DEF IInv
<1>1. \/ connection' = NoConn /\ open' = {}
      \/ UNCHANGED <<connection, open>> /\ pc' # "released"
         /\ (pc' = "cadence" => ~(cause' \in {"timeout", "raised"} /\ tick[current] = "over"))
  BY Closed
<1>2. TypeInv'
  BY <1>1 DEF TypeInv
<1>3. TickInv'
  BY DEF TickInv
<1>4. SessionInv'
  BY <1>1 DEF SessionInv, At
<1> QED
  BY <1>2, <1>3, <1>4

LEMMA SubmitInv == ASSUME IInv, Submit PROVE IInv'
<1> USE DEF IInv
<1>1. /\ pc' = "awaiting" /\ cause' = "none" /\ current' = 1 - current
      /\ tick' = [tick EXCEPT ![1 - current] = "queued"]
      /\ UNCHANGED <<interrupted, thread, connection, open>>
      /\ tick[current] \in Settled
  BY DEF Submit, sessionVars, TickInv
<1>2. /\ current \in Slot /\ current' \in Slot /\ 1 - current' = current
      /\ tick'[current'] = "queued" /\ tick'[1 - current'] = tick[current]
  BY <1>1 DEF TypeInv, Slot
<1>3. TypeInv' /\ TickInv'
  BY <1>1, <1>2 DEF TypeInv, TickInv, Slot
<1>4. \A i \in Slot : At(i, "connecting")' => At(i, "connecting")
  BY <1>1, <1>2 DEF At, TypeInv
<1> QED
  BY <1>1, <1>3, <1>4 DEF SessionInv

\* A tick that has not started is dropped; otherwise the drain begins.
LEMMA FailInv ==
  ASSUME IInv, NEW why \in {"timeout", "raised", "cancelled"}, pc = "awaiting", Fail(why),
         UNCHANGED <<interrupted, current, thread>>
  PROVE  IInv'
<1> USE DEF IInv
<1>1. tick[current] \in {"queued", "running", "over"} /\ current \in Slot /\ 1 - current \in Slot
      /\ current # 1 - current
  BY DEF TypeInv, TickInv, Slot
<1>2. CASE tick[current] = "queued"
  <2>1. /\ tick' = [tick EXCEPT ![current] = "dropped"] /\ UNCHANGED <<connection, open>>
        /\ pc' \in {"ended", "cadence"} /\ cause' = why
    BY <1>2 DEF Fail, Raise, BackOff, sessionVars
  <2>2. tick'[current] = "dropped" /\ tick'[1 - current] = tick[1 - current]
    BY <1>1, <2>1 DEF TypeInv
  <2>3. TypeInv' /\ TickInv'
    BY <1>1, <2>1, <2>2 DEF TypeInv, TickInv, Settled
  <2>4. \A i \in Slot : At(i, "connecting")' => At(i, "connecting")
    BY <1>1, <2>1 DEF At, TypeInv
  <2> QED
    BY <2>1, <2>2, <2>3, <2>4 DEF SessionInv
<1>3. CASE tick[current] # "queued"
  <2>1. CloseHard /\ pc' = "draining" /\ UNCHANGED tick /\ cause' = why
    BY <1>3 DEF Fail
  <2>2. connection' = NoConn /\ open' = {}
    BY <2>1, Closed
  <2>3. TypeInv' /\ TickInv'
    BY <1>1, <1>3, <2>1, <2>2 DEF TypeInv, TickInv
  <2> QED
    BY <2>1, <2>2, <2>3 DEF SessionInv
<1> QED
  BY <1>2, <1>3

LEMMA LoopStepInv == ASSUME IInv, LoopStep PROVE IInv'
<1>1. CASE Leave
  <2>1. /\ pc = "top" /\ pc' = "ended"
        /\ UNCHANGED <<cause, interrupted, current, tick, thread, connection, open>>
    BY <1>1 DEF Leave, threadVars, sessionVars
  <2> QED
    BY <2>1, LoopMoves DEF IInv, TypeInv, TickInv
<1>2. CASE TickReturns
  <2>1. tick[current] = "over" /\ cause = "none" /\ pc' = "cadence"
        /\ UNCHANGED <<cause, interrupted, current, tick, thread, connection, open>>
    BY <1>2 DEF TickReturns, BackOff, threadVars, sessionVars, IInv, TickInv
  <2> QED
    BY <2>1, LoopMoves DEF Settled, IInv, TypeInv
<1>3. CASE TickRaises \/ Timeout
  BY <1>3, FailInv DEF TickRaises, Timeout
<1>4. CASE Drained
  <2>1. tick[current] = "over" /\ pc' \in {"cadence", "ended"} /\ CloseHard
        /\ UNCHANGED <<cause, interrupted, current, tick, thread>>
    BY <1>4 DEF Drained, Raise, BackOff, threadVars
  <2> QED
    BY <2>1, LoopMoves DEF Settled, IInv, TypeInv
<1>5. CASE CadenceOver
  BY <1>5 DEF CadenceOver, threadVars, sessionVars, IInv, TypeInv, TickInv, SessionInv, At
<1>6. CASE Release
  <2>1. pc = "ended" /\ pc' = "released" /\ CloseHard
        /\ UNCHANGED <<cause, interrupted, current, tick, thread>>
    BY <1>6 DEF Release, threadVars
  <2> QED
    BY <2>1, LoopMoves DEF IInv, TypeInv, TickInv
<1> QED
  BY <1>1, <1>2, <1>3, <1>4, <1>5, <1>6, SubmitInv DEF LoopStep

LEMMA CancelInv == ASSUME IInv, Cancel PROVE IInv'
<1>1. CASE pc = "awaiting"
  BY <1>1, FailInv DEF Cancel
<1>2. CASE pc = "draining"
  <2>1. /\ cause' = "cancelled" /\ interrupted' = (tick[current] # "over") /\ CloseHard
        /\ pc' = "ended" /\ UNCHANGED <<current, tick, thread>>
    BY <1>2 DEF Cancel, Raise, threadVars
  <2> QED
    BY <1>2, <2>1, LoopMoves DEF Settled
<1>3. CASE pc = "cadence"
  <2>1. /\ cause' = "cancelled" /\ pc' = "ended"
        /\ UNCHANGED <<interrupted, current, tick, thread, connection, open>>
    BY <1>3 DEF Cancel, Raise, threadVars, sessionVars
  <2> QED
    BY <1>3, <2>1, LoopMoves DEF IInv, TypeInv, TickInv
<1> QED
  BY <1>1, <1>2, <1>3 DEF Cancel

LEMMA StepInv == IInv /\ [Next]_vars => IInv'
<1> SUFFICES ASSUME IInv, [Next]_vars PROVE IInv'
  OBVIOUS
<1>1. CASE UNCHANGED vars \/ SetStop
  BY <1>1 DEF vars, SetStop, threadVars, sessionVars, IInv, TypeInv, TickInv, SessionInv, At
<1> QED
  BY <1>1, LoopStepInv, CancelInv, ThreadStepInv DEF Next

LEMMA InvHolds == Spec => []IInv
BY InitInv, StepInv, PTL DEF Spec

(***************************************************************************)
(* The promises of the loop.                                                *)
(***************************************************************************)

\* run_tenant_once drains: no two ticks run on the session at once, whatever
\* timed out, raised or was cancelled.
THEOREM TicksExclude == Spec => []OneTickAtATime
<1>1. IInv => OneTickAtATime
  <2> SUFFICES ASSUME IInv PROVE OneTickAtATime
    OBVIOUS
  <2> DEFINE running == {i \in Slot : tick[i] = "running"}
  <2>1. running = {} \/ running = {current}
    BY DEF IInv, TypeInv, TickInv, Settled, Slot
  <2>2. Cardinality({}) = 0 /\ Cardinality({current}) = 1
    BY FS_EmptySet, FS_Singleton
  <2> HIDE DEF running
  <2>3. Cardinality(running) \in {0, 1}
    BY <2>1, <2>2
  <2> QED
    BY <2>3 DEF OneTickAtATime, running
<1> QED
  BY <1>1, InvHolds, PTL

\* close_hard before and after the drain: between ticks only the warm connection
\* is open, and none after a tick that failed or a release.
THEOREM NothingLeaks == Spec => []NoLeakedConnection
<1>1. IInv => NoLeakedConnection
  BY DEF IInv, SessionInv, NoLeakedConnection
<1> QED
  BY <1>1, InvHolds, PTL

(***************************************************************************)
(* The backoff. Ceiling is defined by recursion; its values are those of a  *)
(* table, which also shows that a function of that definition exists.       *)
(***************************************************************************)
LEMMA CeilingStep ==
  /\ Ceiling[0] = 1
  /\ \A a \in Nat : Ceiling[a + 1] = IF 2 * Ceiling[a] > 60 THEN 60 ELSE 2 * Ceiling[a]
<1> DEFINE Step(f) == [a \in Nat |-> IF a = 0 THEN 1
                                     ELSE LET d == 2 * f[a - 1] IN IF d > 60 THEN 60 ELSE d]
           table == [a \in Nat |-> IF a = 0 THEN 1 ELSE IF a = 1 THEN 2 ELSE IF a = 2 THEN 4
                                   ELSE IF a = 3 THEN 8 ELSE IF a = 4 THEN 16
                                   ELSE IF a = 5 THEN 32 ELSE 60]
<1>1. table = Step(table)
  <2>1. \A a \in Nat : table[a] = IF a = 0 THEN 1
                                  ELSE IF 2 * table[a - 1] > 60 THEN 60 ELSE 2 * table[a - 1]
    OBVIOUS
  <2> QED
    BY <2>1
<1>2. Ceiling = CHOOSE f : f = Step(f)
  BY DEF Ceiling
<1>3. Ceiling = Step(Ceiling)
  <2>1. \E f : f = Step(f)
    BY <1>1
  <2> HIDE DEF Step
  <2> QED
    BY <1>2, <2>1
<1>4. \A a \in Nat : Ceiling[a] = IF a = 0 THEN 1
                                  ELSE IF 2 * Ceiling[a - 1] > 60 THEN 60 ELSE 2 * Ceiling[a - 1]
  BY <1>3
<1> QED
  BY <1>4

\* Induction over the naturals, in terms of a set instead of a predicate.
LEMMA NatSetInduction ==
  ASSUME NEW G, 0 \in G, \A n \in Nat : n \in G => n + 1 \in G
  PROVE  Nat \subseteq G
<1>1. SUFFICES ASSUME Nat \ G # {} PROVE FALSE
  OBVIOUS
<1> DEFINE R == OpToRel(<, Nat)
           B == Nat \ G
<1>2. IsWellFoundedOn(R, Nat)
  BY NatLessThanWellFounded
<1>3. \E n \in B : \A m \in B : ~ (<<m, n>> \in R)
  <2> HIDE DEF R
  <2>1. B \subseteq Nat /\ B # {}
    BY <1>1
  <2> HIDE DEF B
  <2> QED
    BY <1>2, <2>1, WFMin
<1>4. PICK n \in B : \A m \in B : ~ (<<m, n>> \in R)
  BY <1>3
<1>5. n # 0 /\ n \in Nat /\ n - 1 \in Nat
  OBVIOUS
<1>6. <<n - 1, n>> \in R
  BY <1>5 DEF OpToRel
<1>7. n - 1 \in G
  BY <1>4, <1>5, <1>6
<1> QED
  BY <1>5, <1>7

\* next_backoff: a wait is at least the base and at most the cap of 30 s, and
\* never shorter than the one before it.
THEOREM BackoffIsCapped ==
  \A a \in Nat : Ceiling[a] \in 1 .. 60 /\ Ceiling[a] <= Ceiling[a + 1]
<1> DEFINE G == {a \in Nat : Ceiling[a] \in 1 .. 60}
<1>1. 0 \in G
  BY CeilingStep
<1>2. ASSUME NEW n \in Nat, n \in G PROVE n + 1 \in G
  BY <1>2, CeilingStep
<1>3. Nat \subseteq G
  <2> HIDE DEF G
  <2> QED
    BY <1>1, <1>2, NatSetInduction
<1>4. \A a \in Nat : Ceiling[a] \in 1 .. 60
  BY <1>3
<1>5. ASSUME NEW a \in Nat PROVE Ceiling[a] <= Ceiling[a + 1]
  <2>1. Ceiling[a] \in 1 .. 60
    BY <1>4
  <2>2. Ceiling[a + 1] = IF 2 * Ceiling[a] > 60 THEN 60 ELSE 2 * Ceiling[a]
    BY CeilingStep
  <2> HIDE DEF G
  <2> QED
    BY <2>1, <2>2
<1> QED
  BY <1>4, <1>5

(***************************************************************************)
(* What the safety properties do not need: the calls of a tick are bounded, *)
(* and so are the attempt and the wait.                                     *)
(***************************************************************************)
BusyInv ==
    \A i \in Slot : /\ thread[i].calls <= MaxCalls
                    /\ thread[i].step \in {"ensure", "connecting", "cursor", "call"} =>
                         thread[i].calls < MaxCalls
VerdictInv == verdict \in [Slot -> {"none", "NORMAL", "RETRY_BACKOFF", "raised"}]
WaitInv ==
    /\ stop \in BOOLEAN /\ cancelled \in BOOLEAN
    /\ attempt \in 0 .. MaxAttempt
    /\ delay \in 0 .. 60

LEMMA BackOffWaits == ASSUME attempt \in 0 .. MaxAttempt, BackOff
                      PROVE  attempt' \in 0 .. MaxAttempt /\ delay' \in 0 .. 60
<1>1. Ceiling[attempt] \in 1 .. 60
  BY BackoffIsCapped, BoundsAssumption
<1> QED
  BY <1>1, BoundsAssumption DEF BackOff

LEMMA WaitStep == WaitInv /\ [Next]_vars => WaitInv'
<1> SUFFICES ASSUME WaitInv, [Next]_vars PROVE WaitInv'
  OBVIOUS
<1> USE DEF WaitInv
<1>1. \/ BackOff
      \/ UNCHANGED <<attempt, delay>>
      \/ attempt' = 0 /\ delay' = 0
  <2>1. ASSUME NEW why, Raise(why) PROVE BackOff \/ UNCHANGED <<attempt, delay>>
    BY <2>1 DEF Raise
  <2>2. ASSUME NEW why, Fail(why) PROVE BackOff \/ UNCHANGED <<attempt, delay>>
    BY <2>1, <2>2 DEF Fail
  <2>3. CASE LoopStep
    BY <2>1, <2>2, <2>3 DEF LoopStep, Submit, Leave, TickReturns, TickRaises, Timeout, Drained,
       CadenceOver, Release
  <2>4. CASE Cancel
    BY <2>1, <2>2, <2>4 DEF Cancel
  <2>5. CASE UNCHANGED vars \/ SetStop \/ \E i \in Slot : ThreadStep(i)
    BY <2>5 DEF vars, SetStop, ThreadStep, loopVars
  <2> QED
    BY <2>3, <2>4, <2>5 DEF Next
<1>2. stop' \in BOOLEAN /\ cancelled' \in BOOLEAN
  BY DEF Next, vars, LoopStep, Submit, Leave, TickReturns, TickRaises, Timeout, Drained,
     CadenceOver, Release, Cancel, SetStop, ThreadStep, loopVars
<1>3. attempt' \in 0 .. MaxAttempt /\ delay' \in 0 .. 60
  BY <1>1, BackOffWaits, BoundsAssumption
<1> QED
  BY <1>2, <1>3

LEMMA BusyStep == IInv /\ BusyInv /\ [Next]_vars => BusyInv'
<1> SUFFICES ASSUME IInv, BusyInv, [Next]_vars PROVE BusyInv'
  OBVIOUS
<1>1. CASE UNCHANGED thread
  BY <1>1 DEF BusyInv
<1>2. ASSUME NEW i \in Slot, ThreadStep(i) PROVE BusyInv'
  <2> DEFINE s == thread'[i]
  <2>1. /\ \A j \in Slot : thread[j].calls \in Nat /\ (thread[j].unknown \in BOOLEAN)
        /\ \A j \in Slot : j # i => thread'[j] = thread[j]
    BY <1>2 DEF IInv, TypeInv, ThreadStep, StartTick, EnsureConnected, Connect, OpenCursor, Call,
       Between, GoTo, Finish
  <2>2. /\ s.calls <= MaxCalls
        /\ s.step \in {"ensure", "connecting", "cursor", "call"} => s.calls < MaxCalls
    <3>1. ASSUME NEW how, Finish(i, how) \/ StartTick(i)
          PROVE  s.calls = 0
      BY <3>1 DEF Finish, StartTick, IdleThread, IInv, TypeInv
    <3>2. ASSUME NEW step, GoTo(i, step)
          PROVE  s.calls = thread[i].calls /\ s.step = step
      BY <3>2 DEF GoTo, IInv, TypeInv
    <3>3. CASE EnsureConnected(i)
      BY <2>1, <3>2, <3>3 DEF EnsureConnected, At, BusyInv
    <3>4. CASE Connect(i)
      BY <2>1, <3>1, <3>2, <3>4, BoundsAssumption DEF Connect, At, BusyInv
    <3>5. CASE OpenCursor(i)
      <4>1. \/ Finish(i, "raised")
            \/ s.calls = thread[i].calls /\ s.step = "call"
        BY <3>5 DEF OpenCursor, IInv, TypeInv
      <4> QED
        BY <2>1, <3>1, <3>5, <4>1, BoundsAssumption DEF OpenCursor, At, BusyInv
    <3>6. CASE Call(i)
      <4>1. \/ Finish(i, "raised")
            \/ s.calls = thread[i].calls + 1 /\ s.step = "between"
        <5>1. SUFFICES ASSUME ~Finish(i, "raised")
                       PROVE  s.calls = thread[i].calls + 1 /\ s.step = "between"
          OBVIOUS
        <5>2. PICK unknown :
                 thread' = [thread EXCEPT ![i].step = "between", ![i].conn = NoConn,
                                          ![i].calls = @ + 1, ![i].unknown = @ \/ unknown]
          BY <3>6, <5>1 DEF Call
        <5>3. /\ i \in DOMAIN thread
              /\ {"step", "conn", "calls", "unknown"} = DOMAIN thread[i]
          BY DEF IInv, TypeInv
        <5>4. s = [thread[i] EXCEPT !.step = "between", !.conn = NoConn,
                                    !.calls = @ + 1, !.unknown = @ \/ unknown]
          BY <5>2, <5>3
        <5>5. \A b, n : LET t == [thread[i] EXCEPT !.step = "between", !.conn = NoConn,
                                                   !.calls = n, !.unknown = b]
                        IN  t.calls = n /\ t.step = "between"
          BY <5>3
        <5> HIDE DEF s
        <5> QED
          BY <5>4, <5>5
      <4> QED
        BY <2>1, <3>1, <3>6, <4>1, BoundsAssumption DEF Call, At, BusyInv
    <3>7. CASE Between(i)
      BY <2>1, <3>1, <3>2, <3>7, BoundsAssumption DEF Between, At, BusyInv
    <3> QED
      BY <1>2, <3>1, <3>3, <3>4, <3>5, <3>6, <3>7, BoundsAssumption DEF ThreadStep
  <2> QED
    BY <2>1, <2>2 DEF BusyInv
<1> QED
  BY <1>1, <1>2 DEF Next, vars, LoopStep, Submit, Leave, TickReturns, TickRaises, Timeout, Drained,
     CadenceOver, Release, Cancel, SetStop, threadVars

LEMMA VerdictStep == IInv /\ VerdictInv /\ [Next]_vars => VerdictInv'
<1> SUFFICES ASSUME IInv, VerdictInv, [Next]_vars PROVE VerdictInv'
  OBVIOUS
<1> USE DEF VerdictInv
<1>1. CASE UNCHANGED verdict
  BY <1>1
<1>2. CASE Submit
  BY <1>2 DEF Submit
<1>3. ASSUME NEW i \in Slot, ThreadStep(i) PROVE VerdictInv'
  <2>1. \/ UNCHANGED verdict
        \/ \E how \in {"NORMAL", "RETRY_BACKOFF", "raised"} : Finish(i, how)
    BY <1>3 DEF ThreadStep, StartTick, EnsureConnected, Connect, OpenCursor, Call, Between, GoTo
  <2> QED
    BY <2>1 DEF Finish
<1> QED
  BY <1>1, <1>2, <1>3 DEF Next, vars, LoopStep, Leave, TickReturns, TickRaises, Timeout, Drained,
     CadenceOver, Release, Cancel, SetStop, threadVars

LEMMA AllHold == Spec => [](IInv /\ WaitInv /\ BusyInv /\ VerdictInv)
<1>1. Init => IInv /\ WaitInv /\ BusyInv /\ VerdictInv
  <2>1. Init => WaitInv
    <3>1. 0 \in 0 .. MaxAttempt /\ 0 \in 0 .. 60
      BY BoundsAssumption
    <3> QED
      BY <3>1 DEF Init, WaitInv
  <2>2. Init => BusyInv
    BY BoundsAssumption DEF Init, BusyInv, IdleThread
  <2>3. Init => VerdictInv
    BY DEF Init, VerdictInv
  <2> QED
    BY <2>1, <2>2, <2>3, InitInv
<1> QED
  BY <1>1, StepInv, WaitStep, BusyStep, VerdictStep, PTL DEF Spec

\* The loop, its work items, its thread and its session are well typed: no tick
\* makes more calls than MaxCalls, and whatever is open is a connection.
THEOREM TypeCorrectness == Spec => []TypeOK
<1>1. IInv /\ WaitInv /\ BusyInv /\ VerdictInv => TypeOK
  <2> SUFFICES ASSUME IInv, WaitInv, BusyInv, VerdictInv PROVE TypeOK
    OBVIOUS
  <2>1. thread \in [Slot -> Thread]
    <3>1. \A i \in Slot : thread[i] \in Thread
      BY BoundsAssumption DEF IInv, TypeInv, BusyInv, Thread
    <3> QED
      BY <3>1 DEF IInv, TypeInv
  <2>2. open \in SUBSET Conn
    BY DEF IInv, TypeInv, SessionInv
  <2>3. delay \in Nat
    BY DEF WaitInv
  <2> QED
    BY <2>1, <2>2, <2>3 DEF IInv, TypeInv, WaitInv, VerdictInv, TypeOK
<1> QED
  BY <1>1, AllHold, PTL

\* However long an outage lasts, the loop never waits longer than next_backoff's
\* cap of 30 s, counted in half seconds, before it tries again.
THEOREM WaitsAreBounded == Spec => [](delay <= 60)
<1>1. WaitInv => delay <= 60
  BY DEF WaitInv
<1> QED
  BY <1>1, AllHold, PTL
=============================================================================
