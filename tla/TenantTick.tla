----------------------------- MODULE TenantTick -----------------------------
(***************************************************************************)
(* One tenant of the Automated Savings worker (apps/auto-savings,           *)
(* tenant_loop.py and snowflake_session.py): the asyncio loop that submits  *)
(* ticks, the pool thread that runs a tick, and the warm Snowflake          *)
(* connection both can touch. The loop may time out, be stopped or be       *)
(* cancelled while the thread is anywhere inside its blocking calls.        *)
(*                                                                         *)
(* Two slots are enough for the ticks of a run: the current one and the one *)
(* before it, which must be over when the next is submitted.                *)
(***************************************************************************)
EXTENDS Naturals, FiniteSets

CONSTANTS
    Conn,          \* connections Snowflake can hand out
    NoConn,        \* session._connection is None
    MaxCalls,      \* bound: Snowflake calls of one tick
    MaxAttempt     \* bound: attempts counted; next_backoff is flat from here on

ASSUME ConnAssumption == NoConn \notin Conn
ASSUME BoundsAssumption == MaxCalls \in Nat \ {0} /\ MaxAttempt \in Nat

Slot == {0, 1}

VARIABLES
    pc,           \* where tenant_loop is
    stop,         \* its stop event
    cancelled,    \* the task was cancelled (worker shutdown)
    cause,        \* why the tick in hand failed
    attempt,      \* consecutive ticks without a NORMAL result
    delay,        \* ceiling of the current wait in half seconds, 0 = poll cadence
    interrupted,  \* history: the cancellation hit the drain itself
    current,      \* slot of the latest tick
    tick,         \* executor state of each slot's work item
    verdict,      \* what the work item returned
    thread,       \* where the pool thread is, per slot
    connection,   \* session._connection
    open          \* connections opened and not closed

loopVars    == <<pc, stop, cancelled, cause, attempt, delay, interrupted>>
threadVars  == <<tick, verdict, thread>>
sessionVars == <<connection, open>>
vars == <<pc, stop, cancelled, cause, attempt, delay, interrupted, current, tick, verdict,
          thread, connection, open>>

Thread == [step : {"idle", "ensure", "connecting", "cursor", "call", "between"},
           conn : Conn \cup {NoConn}, calls : 0..MaxCalls, unknown : BOOLEAN]

TypeOK ==
    /\ pc \in {"top", "awaiting", "draining", "cadence", "ended", "released"}
    /\ stop \in BOOLEAN /\ cancelled \in BOOLEAN /\ interrupted \in BOOLEAN
    /\ cause \in {"none", "timeout", "raised", "cancelled"}
    /\ attempt \in 0..MaxAttempt
    /\ delay \in Nat
    /\ current \in Slot
    /\ tick \in [Slot -> {"none", "queued", "running", "over", "dropped"}]
    /\ verdict \in [Slot -> {"none", "NORMAL", "RETRY_BACKOFF", "raised"}]
    /\ thread \in [Slot -> Thread]
    /\ connection \in Conn \cup {NoConn}
    /\ open \in SUBSET Conn

IdleThread == [step |-> "idle", conn |-> NoConn, calls |-> 0, unknown |-> FALSE]

Init ==
    /\ pc = "top" /\ stop = FALSE /\ cancelled = FALSE /\ interrupted = FALSE
    /\ cause = "none" /\ attempt = 0 /\ delay = 0
    /\ current = 0
    /\ tick = [i \in Slot |-> "none"]
    /\ verdict = [i \in Slot |-> "none"]
    /\ thread = [i \in Slot |-> IdleThread]
    /\ connection = NoConn
    /\ open = {}

-----------------------------------------------------------------------------
(* The pool thread: show_warehouses, then run_cycle's calls.                *)

At(i, step) == tick[i] = "running" /\ thread[i].step = step
GoTo(i, step) == thread' = [thread EXCEPT ![i].step = step] /\ UNCHANGED <<tick, verdict>>

Finish(i, how) ==
    /\ tick' = [tick EXCEPT ![i] = "over"]
    /\ verdict' = [verdict EXCEPT ![i] = how]
    /\ thread' = [thread EXCEPT ![i] = IdleThread]

\* A pool thread takes the work item.
StartTick(i) ==
    /\ tick[i] = "queued"
    /\ tick' = [tick EXCEPT ![i] = "running"]
    /\ thread' = [thread EXCEPT ![i] = [IdleThread EXCEPT !.step = "ensure"]]
    /\ UNCHANGED <<verdict, sessionVars>>

\* ensure_connected reads session._connection ...
EnsureConnected(i) ==
    /\ At(i, "ensure")
    /\ GoTo(i, IF connection = NoConn THEN "connecting" ELSE "cursor")
    /\ UNCHANGED sessionVars

\* ... and assigns it when the driver's connect returns, however late.
Connect(i) ==
    /\ At(i, "connecting")
    /\ \/ \E c \in Conn \ (open \cup {connection, thread[0].conn, thread[1].conn}) :
            /\ connection' = c
            /\ open' = open \cup {c}
            /\ GoTo(i, "cursor")
       \/ Finish(i, "raised") /\ UNCHANGED sessionVars

\* snowflake_cursor(self._connection): the loop may have closed it meanwhile.
OpenCursor(i) ==
    /\ At(i, "cursor")
    /\ IF connection = NoConn
       THEN Finish(i, "raised")
       ELSE /\ thread' = [thread EXCEPT ![i].step = "call", ![i].conn = connection]
            /\ UNCHANGED <<tick, verdict>>
    /\ UNCHANGED sessionVars

\* The first call is SHOW WAREHOUSES, later ones are suspends, whose outcome may
\* be unknown (90064). A call on a closed connection fails.
Call(i) ==
    /\ At(i, "call")
    /\ \/ /\ thread[i].conn \in open
          /\ \E unknown \in IF thread[i].calls = 0 THEN {FALSE} ELSE BOOLEAN :
               thread' = [thread EXCEPT ![i].step = "between", ![i].conn = NoConn,
                                        ![i].calls = @ + 1, ![i].unknown = @ \/ unknown]
          /\ UNCHANGED <<tick, verdict>>
       \/ Finish(i, "raised")
    /\ UNCHANGED sessionVars

\* Store calls, then another suspend or the end of the cycle.
Between(i) ==
    /\ At(i, "between")
    /\ \/ thread[i].calls < MaxCalls /\ GoTo(i, "ensure")
       \/ Finish(i, IF thread[i].unknown THEN "RETRY_BACKOFF" ELSE "NORMAL")
       \/ Finish(i, "raised")
    /\ UNCHANGED sessionVars

ThreadStep(i) ==
    /\ \/ StartTick(i) \/ EnsureConnected(i) \/ Connect(i)
       \/ OpenCursor(i) \/ Call(i) \/ Between(i)
    /\ UNCHANGED <<loopVars, current>>

-----------------------------------------------------------------------------
(* The loop.                                                                *)

\* close_hard: forget the connection, then close it.
CloseHard == connection' = NoConn /\ open' = open \ {connection}

\* min(cap, base * 2^attempt) with cap = 30s and base = 0.5s, in half seconds.
Ceiling[a \in Nat] == IF a = 0 THEN 1 ELSE LET d == 2 * Ceiling[a - 1] IN IF d > 60 THEN 60 ELSE d

BackOff ==
    /\ delay' = Ceiling[attempt]
    /\ attempt' = IF attempt < MaxAttempt THEN attempt + 1 ELSE attempt
    /\ pc' = "cadence"

\* Mutant: the loop ignores its stop event.
SubmitAlways ==
    /\ pc = "top"
    /\ pc' = "awaiting" /\ cause' = "none"
    /\ current' = 1 - current
    /\ tick' = [tick EXCEPT ![1 - current] = "queued"]
    /\ verdict' = [verdict EXCEPT ![1 - current] = "none"]
    /\ UNCHANGED <<stop, cancelled, attempt, delay, interrupted, thread, sessionVars>>

\* while not stop.is_set(): the tick goes to the executor.
Submit ==
    /\ pc = "top" /\ ~stop
    /\ pc' = "awaiting" /\ cause' = "none"
    /\ current' = 1 - current
    /\ tick' = [tick EXCEPT ![1 - current] = "queued"]
    /\ verdict' = [verdict EXCEPT ![1 - current] = "none"]
    /\ UNCHANGED <<stop, cancelled, attempt, delay, interrupted, thread, sessionVars>>

Leave ==
    /\ pc = "top" /\ stop
    /\ pc' = "ended"
    /\ UNCHANGED <<stop, cancelled, cause, attempt, delay, interrupted, current, threadVars,
                   sessionVars>>

TickReturns ==
    /\ pc = "awaiting"
    /\ tick[current] = "over" /\ verdict[current] # "raised"
    /\ IF verdict[current] = "NORMAL"
       THEN attempt' = 0 /\ delay' = 0 /\ pc' = "cadence"
       ELSE BackOff
    /\ UNCHANGED <<stop, cancelled, cause, interrupted, current, threadVars, sessionVars>>

\* The error leaves run_tenant_once: a cancellation ends the task.
Raise(why) ==
    IF why = "cancelled" THEN pc' = "ended" /\ UNCHANGED <<attempt, delay>> ELSE BackOff

\* Mutant: the tick is abandoned without waiting for its thread.
FailWithoutDrain(why) ==
    /\ cause' = why
    /\ IF tick[current] = "queued"
       THEN /\ tick' = [tick EXCEPT ![current] = "dropped"]
            /\ UNCHANGED sessionVars
       ELSE CloseHard /\ UNCHANGED tick
    /\ Raise(why)

\* Mutant: a work item that never started is waited for.
FailDrainsQueued(why) ==
    /\ cause' = why
    /\ CloseHard
    /\ pc' = "draining"
    /\ UNCHANGED <<tick, attempt, delay>>

\* except BaseException: a still queued item is cancelled and leaves the session
\* alone, otherwise the session is closed and the thread waited for.
Fail(why) ==
    /\ cause' = why
    /\ IF tick[current] = "queued"
       THEN /\ tick' = [tick EXCEPT ![current] = "dropped"]
            /\ UNCHANGED sessionVars
            /\ Raise(why)
       ELSE /\ CloseHard
            /\ pc' = "draining"
            /\ UNCHANGED <<tick, attempt, delay>>

TickRaises ==
    /\ pc = "awaiting"
    /\ tick[current] = "over" /\ verdict[current] = "raised"
    /\ Fail("raised")
    /\ UNCHANGED <<stop, cancelled, interrupted, current, verdict, thread>>

\* wait_for gives up on a tick that is queued or running, or is over before the
\* loop has heard of it.
Timeout ==
    /\ pc = "awaiting"
    /\ Fail("timeout")
    /\ UNCHANGED <<stop, cancelled, interrupted, current, verdict, thread>>

\* Mutant: no second close after the thread is gone.
DrainedKeepsConnection ==
    /\ pc = "draining" /\ tick[current] = "over"
    /\ Raise(cause)
    /\ UNCHANGED <<stop, cancelled, cause, interrupted, current, threadVars, sessionVars>>

\* The thread is over: close what it may have reconnected.
Drained ==
    /\ pc = "draining" /\ tick[current] = "over"
    /\ CloseHard
    /\ Raise(cause)
    /\ UNCHANGED <<stop, cancelled, cause, interrupted, current, threadVars>>

\* The wait ends with the sleep or with the stop event.
CadenceOver ==
    /\ pc = "cadence"
    /\ pc' = "top"
    /\ UNCHANGED <<stop, cancelled, cause, attempt, delay, interrupted, current, threadVars,
                   sessionVars>>

\* The task is cancelled once, while it waits: for the tick, for the drain
\* (whose finally still closes the session) or for the cadence.
Cancel ==
    /\ ~cancelled
    /\ cancelled' = TRUE
    /\ \/ /\ pc = "awaiting"
          /\ Fail("cancelled")
          /\ UNCHANGED <<interrupted, verdict, thread>>
       \/ /\ pc = "draining"
          /\ cause' = "cancelled"
          /\ interrupted' = (tick[current] # "over")
          /\ CloseHard
          /\ Raise("cancelled")
          /\ UNCHANGED threadVars
       \/ /\ pc = "cadence"
          /\ cause' = "cancelled"
          /\ Raise("cancelled")
          /\ UNCHANGED <<interrupted, threadVars, sessionVars>>
    /\ UNCHANGED <<stop, current>>

SetStop ==
    /\ ~stop
    /\ stop' = TRUE
    /\ UNCHANGED <<pc, cancelled, cause, attempt, delay, interrupted, current, threadVars,
                   sessionVars>>

\* The supervisor's _drain_loop, after the task has ended.
Release ==
    /\ pc = "ended"
    /\ CloseHard
    /\ pc' = "released"
    /\ UNCHANGED <<stop, cancelled, cause, attempt, delay, interrupted, current, threadVars>>

LoopStep == \/ Submit \/ Leave \/ TickReturns \/ TickRaises \/ Timeout \/ Drained
            \/ CadenceOver \/ Release

Next == LoopStep \/ Cancel \/ SetStop \/ \E i \in Slot : ThreadStep(i)

Spec == Init /\ [][Next]_vars

\* The event loop keeps running its tasks, and every blocking call of a thread
\* returns within its timeout. A free pool thread is not assumed: a tick that
\* stays queued is ended by wait_for.
FairSpec == /\ Spec
            /\ WF_vars(LoopStep)
            /\ \A i \in Slot : WF_vars(ThreadStep(i) /\ tick[i] = "running")

-----------------------------------------------------------------------------
(* Properties.                                                              *)

\* A slow tenant never overlaps its own polls: no two ticks run on the session
\* at once, whatever timed out or was cancelled (run_tenant_once).
OneTickAtATime == Cardinality({i \in Slot : tick[i] = "running"}) <= 1

\* Between ticks the only connection open is the session's warm one, and a tick
\* that failed after it started leaves none: a late reconnect cannot leak.
NoLeakedConnection ==
    pc \in {"top", "cadence", "released"} /\ ~interrupted =>
        /\ open = {connection} \ {NoConn}
        /\ pc = "released" \/ (cause \in {"timeout", "raised"} /\ tick[current] = "over")
             => open = {}

\* A stop request or a cancellation ends the task and releases its session.
StopReleases == (stop \/ cancelled) ~> pc = "released"

\* No tick holds the loop for ever.
TickSettles == pc = "awaiting" ~> pc \in {"cadence", "ended"}
=============================================================================
