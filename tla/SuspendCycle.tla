---------------------------- MODULE SuspendCycle ----------------------------
(***************************************************************************)
(* Automated Savings for one organization: the worker's tick               *)
(* (apps/auto-savings, engine.run_cycle) interleaved with the API that      *)
(* enrolls warehouses and flips switches (apps/api, routes/                 *)
(* automated_savings.py), the Supabase tables both share, and the Snowflake *)
(* account whose warehouses anyone may drop, recreate or use meanwhile.     *)
(*                                                                         *)
(* Every network call of the worker is one atomic step at the service it    *)
(* reaches; the Python between two calls is folded into the next call.      *)
(* Timestamps are abstracted to counters per warehouse name: identities     *)
(* (created_on) and row versions (updated_at) are never issued twice.       *)
(***************************************************************************)
EXTENDS Naturals

CONSTANTS
    Warehouse,      \* the warehouse names of the organization
    NoRow,          \* "no such row"
    MaxIdentity,    \* bound: incarnations of one warehouse name
    MaxStamp,       \* bound: writes of one enrollment row
    MaxFaults       \* bound: failed calls, unreadable rows and restarts

ASSUME BoundsAssumption ==
    /\ MaxIdentity \in Nat \ {0}
    /\ MaxStamp \in Nat
    /\ MaxFaults \in Nat

VARIABLES
    live,            \* Snowflake: what each name denotes now
    global_enabled,  \* automated_savings_settings
    enrollments,     \* automated_savings_warehouses, by warehouse name
    stamp,           \* last updated_at issued for each enrollment row
    capture,         \* identity a toggle request holds before its upsert, 0 if none
    pc,              \* where the tick is
    snapshot,        \* rows of this tick's SHOW WAREHOUSES, by unique name
    listed,          \* rows of this tick's list_enrollments
    pending,         \* enrollments the loop has not reached
    target,          \* warehouse of the authorization in hand
    backoff_required,
    result,          \* how the last tick ended
    outcome,         \* history: result of this tick's command per warehouse
    audited,         \* automated_savings_events rows written by this tick
    touched,         \* history: rows written by others since list_enrollments
    late,            \* history: commands sent per warehouse since consent ended
    lateOff,         \* history: commands sent since the global switch went off
    stray,           \* history: commands sent at a warehouse its row never named
    faults           \* faults spent so far

snowflakeVars == <<live>>
settingVars   == <<global_enabled>>
tableVars     == <<enrollments, stamp>>
tickVars      == <<pc, snapshot, listed, pending, target, backoff_required, result>>
ledgerVars    == <<outcome, audited>>
consentVars   == <<touched, late, lateOff>>
vars == <<live, global_enabled, enrollments, stamp, capture, pc, snapshot,
          listed, pending, target, backoff_required, result, outcome, audited,
          touched, late, lateOff, stray, faults>>

Identity == 1..MaxIdentity
Stamp    == 1..MaxStamp

\* created is the current or, after a drop, the last identity of the name;
\* suspendable is the verdict should_suspend would reach on every field of the
\* row but created_on (type, state, activity, quiescing, uptime, auto_resume).
LiveWarehouse == [exists : BOOLEAN, created : 0..MaxIdentity, suspendable : BOOLEAN]

\* created_on = 0 stands for a timestamp _coerce_ts rejects.
SnapshotRow   == [created_on : 0..MaxIdentity, suspendable : BOOLEAN]
EnrollmentRow == [enabled : BOOLEAN, created_on : Identity, updated_at : Stamp]

ASSUME NoRowAssumption == NoRow \notin SnapshotRow /\ NoRow \notin EnrollmentRow
                          /\ NoRow \notin Warehouse

\* The state in which authorize_suspend may say yes for some identity and version.
Consent(w) ==
    /\ global_enabled
    /\ enrollments[w] # NoRow
    /\ enrollments[w].enabled

\* The enrollment names the incarnation that exists now.
Named(w) == enrollments[w] # NoRow /\ enrollments[w].created_on = live[w].created

TypeOK ==
    /\ live \in [Warehouse -> LiveWarehouse]
    /\ global_enabled \in BOOLEAN
    /\ enrollments \in [Warehouse -> EnrollmentRow \cup {NoRow}]
    /\ stamp \in [Warehouse -> 0..MaxStamp]
    /\ capture \in [Warehouse -> 0..MaxIdentity]
    /\ pc \in {"idle", "shown", "deciding", "suspending", "recording"}
    /\ snapshot \in [Warehouse -> SnapshotRow \cup {NoRow}]
    /\ listed \in [Warehouse -> EnrollmentRow \cup {NoRow}]
    /\ pending \in SUBSET Warehouse
    /\ target \in Warehouse \cup {NoRow}
    /\ target # NoRow <=> pc \in {"suspending", "recording"}
    /\ backoff_required \in BOOLEAN
    /\ result \in {"NORMAL", "RETRY_BACKOFF", "raised"}
    /\ outcome \in [Warehouse -> {"none", "accepted", "unknown", "error"}]
    /\ audited \in SUBSET Warehouse
    /\ touched \in SUBSET Warehouse
    /\ late \in [Warehouse -> Nat]
    /\ lateOff \in Nat
    /\ stray \in [Warehouse -> Nat]
    /\ faults \in 0..MaxFaults

Init ==
    /\ live \in [Warehouse -> {[exists |-> e, created |-> IF e THEN 1 ELSE 0,
                                suspendable |-> e] : e \in BOOLEAN}]
    /\ global_enabled = FALSE
    /\ enrollments = [w \in Warehouse |-> NoRow]
    /\ stamp = [w \in Warehouse |-> 0]
    /\ capture = [w \in Warehouse |-> 0]
    /\ pc = "idle"
    /\ snapshot = [w \in Warehouse |-> NoRow]
    /\ listed = [w \in Warehouse |-> NoRow]
    /\ pending = {}
    /\ target = NoRow
    /\ backoff_required = FALSE
    /\ result = "NORMAL"
    /\ outcome = [w \in Warehouse |-> "none"]
    /\ audited = {}
    /\ touched = {}
    /\ late = [w \in Warehouse |-> 0]
    /\ lateOff = 0
    /\ stray = [w \in Warehouse |-> 0]
    /\ faults = 0

-----------------------------------------------------------------------------
(* Snowflake, as its users drive it.                                        *)

CreateWarehouse(w) ==
    /\ ~live[w].exists
    /\ live[w].created < MaxIdentity
    /\ live' = [live EXCEPT ![w] = [exists |-> TRUE, created |-> @.created + 1,
                                    suspendable |-> FALSE]]
    /\ stray' = [stray EXCEPT ![w] = 0]

DropWarehouse(w) ==
    /\ live[w].exists
    /\ live' = [live EXCEPT ![w] = [exists |-> FALSE, created |-> @.created,
                                    suspendable |-> FALSE]]
    /\ UNCHANGED stray

\* Queries start or finish, the uptime floor passes, the warehouse resumes.
ChangeActivity(w) ==
    /\ live[w].exists
    /\ live' = [live EXCEPT ![w] = [exists |-> TRUE, created |-> @.created,
                                    suspendable |-> ~@.suspendable]]
    /\ UNCHANGED stray

SnowflakeStep ==
    /\ \E w \in Warehouse : CreateWarehouse(w) \/ DropWarehouse(w) \/ ChangeActivity(w)
    /\ UNCHANGED <<settingVars, tableVars, capture, tickVars, ledgerVars, consentVars, faults>>

-----------------------------------------------------------------------------
(* The API. Each request is one upsert or RPC, but enabling a warehouse     *)
(* first reads its live identity and writes the row in a second step.       *)

\* Consent returns, and the history counters restart, when the tables say so.
RestartCounters ==
    /\ late' = [w \in Warehouse |-> IF Consent(w)' THEN 0 ELSE late[w]]
    /\ lateOff' = IF global_enabled' THEN 0 ELSE lateOff

\* History: w was written while the running tick holds a listed copy of it.
MarkTouched(w) == touched' = IF listed[w] # NoRow THEN touched \cup {w} ELSE touched

SetGlobalEnabled(enabled) ==
    /\ global_enabled' = enabled
    /\ UNCHANGED <<tableVars, capture, touched, stray>>
    /\ RestartCounters

\* capture_warehouse_identity: SHOW WAREHOUSES on the API's own connection.
CaptureWarehouseIdentity(w) ==
    /\ capture[w] = 0
    /\ live[w].exists
    /\ capture' = [capture EXCEPT ![w] = live[w].created]
    /\ UNCHANGED <<settingVars, tableVars, consentVars, stray>>

\* automated_savings_upsert_enrollment; the trigger issues a fresh updated_at.
UpsertEnrollment(w) ==
    /\ capture[w] # 0
    /\ stamp[w] < MaxStamp
    /\ stamp' = [stamp EXCEPT ![w] = @ + 1]
    /\ enrollments' = [enrollments EXCEPT ![w] =
                        [enabled |-> TRUE, created_on |-> capture[w], updated_at |-> stamp'[w]]]
    /\ capture' = [capture EXCEPT ![w] = 0]
    /\ stray' = IF capture[w] = live[w].created THEN [stray EXCEPT ![w] = 0] ELSE stray
    /\ MarkTouched(w)
    /\ UNCHANGED settingVars
    /\ RestartCounters

\* The toggle request fails before its write (upstream or store failure).
AbandonToggle(w) ==
    /\ capture[w] # 0
    /\ capture' = [capture EXCEPT ![w] = 0]
    /\ UNCHANGED <<settingVars, tableVars, consentVars, stray>>

\* automated_savings_disable_enrollment; without a row the request fails.
Unenroll(w) ==
    /\ enrollments[w] # NoRow
    /\ stamp[w] < MaxStamp
    /\ stamp' = [stamp EXCEPT ![w] = @ + 1]
    /\ enrollments' = [enrollments EXCEPT ![w] =
                        [enabled |-> FALSE, created_on |-> @.created_on, updated_at |-> stamp'[w]]]
    /\ MarkTouched(w)
    /\ UNCHANGED <<settingVars, capture, stray>>
    /\ RestartCounters

ApiStep ==
    /\ \/ \E enabled \in BOOLEAN : SetGlobalEnabled(enabled)
       \/ \E w \in Warehouse : \/ CaptureWarehouseIdentity(w)
                               \/ UpsertEnrollment(w)
                               \/ AbandonToggle(w)
                               \/ Unenroll(w)
    /\ UNCHANGED <<snowflakeVars, tickVars, ledgerVars, faults>>

-----------------------------------------------------------------------------
(* The worker's tick: SHOW WAREHOUSES, then run_cycle.                      *)

Fault == faults < MaxFaults /\ faults' = faults + 1

\* The next tick starts; names that SHOW lists twice are left out of the
\* snapshot, and a row's created_on may be unreadable.
ShowWarehouses ==
    /\ pc = "idle"
    /\ \E ambiguous, unreadable \in SUBSET Warehouse :
        /\ IF ambiguous \cup unreadable = {} THEN faults' = faults ELSE Fault
        /\ snapshot' = [w \in Warehouse |->
                          IF ~live[w].exists \/ w \in ambiguous THEN NoRow
                          ELSE [created_on  |-> IF w \in unreadable THEN 0 ELSE live[w].created,
                                suspendable |-> live[w].suspendable]]
    /\ pc' = "shown"
    /\ outcome' = [w \in Warehouse |-> "none"]
    /\ audited' = {}
    /\ UNCHANGED <<snowflakeVars, settingVars, tableVars, capture, listed, pending, target,
                   backoff_required, result, consentVars, stray>>

ListEnrollments ==
    /\ pc = "shown"
    /\ pc' = "deciding"
    /\ listed' = enrollments
    /\ pending' = {w \in Warehouse : enrollments[w] # NoRow}
    /\ UNCHANGED <<snowflakeVars, settingVars, tableVars, capture, snapshot, target,
                   backoff_required, result, ledgerVars, consentVars, stray, faults>>

\* What run_cycle and _eligible_created_on make of one enrollment.
Comparable(w) == snapshot[w] # NoRow /\ snapshot[w].created_on # 0
IsStale(w)    == Comparable(w) /\ snapshot[w].created_on # listed[w].created_on

\* Mutant: the comparison is left to the RPC, which gets the enrollment's own
\* identity.
TrustedCreatedOn(w) ==
    IF Comparable(w) /\ listed[w].enabled /\ snapshot[w].suspendable
    THEN listed[w].created_on ELSE 0

\* The identity to authorize, 0 when there is nothing to suspend.
EligibleCreatedOn(w) ==
    IF Comparable(w) /\ ~IsStale(w) /\ listed[w].enabled /\ snapshot[w].suspendable
    THEN snapshot[w].created_on ELSE 0

\* Mutants: the version is left out of the RPC, or compared the wrong way.
RowMatchesByIdentity(w, created_on) ==
    /\ enrollments[w] # NoRow
    /\ enrollments[w].created_on = created_on

RowMatchesNewer(w, created_on) ==
    /\ RowMatchesByIdentity(w, created_on)
    /\ enrollments[w].updated_at > listed[w].updated_at

\* The store's row names that identity and is still the row the tick listed.
RowMatches(w, created_on) ==
    /\ enrollments[w] # NoRow
    /\ enrollments[w].created_on = created_on
    /\ enrollments[w].updated_at = listed[w].updated_at

Skip(w) ==
    /\ pc = "deciding" /\ w \in pending
    /\ ~IsStale(w) /\ EligibleCreatedOn(w) = 0
    /\ pending' = pending \ {w}
    /\ UNCHANGED <<snowflakeVars, settingVars, tableVars, capture, pc, snapshot, listed,
                   target, backoff_required, result, ledgerVars, consentVars, stray, faults>>

DeleteStaleEnrollment(w) ==
    /\ pc = "deciding" /\ w \in pending
    /\ IsStale(w)
    /\ enrollments' = IF RowMatches(w, listed[w].created_on) THEN [enrollments EXCEPT ![w] = NoRow] ELSE enrollments
    /\ pending' = pending \ {w}
    /\ UNCHANGED <<snowflakeVars, settingVars, stamp, capture, pc, snapshot, listed, target,
                   backoff_required, result, ledgerVars, consentVars, stray, faults>>

\* Mutant: the RPC forgets the organization's switch.
AuthorizedByRow(w) == RowMatches(w, EligibleCreatedOn(w)) /\ enrollments[w].enabled

Authorized(w) == /\ global_enabled
                 /\ RowMatches(w, EligibleCreatedOn(w))
                 /\ enrollments[w].enabled

AuthorizeSuspend(w) ==
    /\ pc = "deciding" /\ w \in pending
    /\ EligibleCreatedOn(w) # 0
    /\ pending' = pending \ {w}
    /\ IF Authorized(w) THEN pc' = "suspending" /\ target' = w
                        ELSE UNCHANGED <<pc, target>>
    /\ UNCHANGED <<snowflakeVars, settingVars, tableVars, capture, snapshot, listed,
                   backoff_required, result, ledgerVars, consentVars, stray, faults>>

\* History of the command that leaves the worker now.
CountCommand ==
    /\ late' = IF Consent(target) THEN late ELSE [late EXCEPT ![target] = @ + 1]
    /\ lateOff' = IF global_enabled THEN lateOff ELSE lateOff + 1
    /\ stray' = IF live[target].exists /\ ~Named(target) THEN [stray EXCEPT ![target] = @ + 1]
                                                         ELSE stray

\* ALTER WAREHOUSE reaches whatever incarnation carries the name now.
Executed == live' = [live EXCEPT ![target] = [exists |-> @.exists, created |-> @.created,
                                              suspendable |-> FALSE]]

\* Mutant: an accepted command clears the backoff an earlier one asked for.
AcceptedClearsBackoff ==
    /\ pc = "suspending"
    /\ live[target].exists
    /\ Executed
    /\ outcome' = [outcome EXCEPT ![target] = "accepted"]
    /\ backoff_required' = FALSE
    /\ pc' = "recording"
    /\ CountCommand
    /\ UNCHANGED <<settingVars, tableVars, capture, snapshot, listed, pending, target,
                   result, audited, touched, faults>>

SuspendAccepted ==
    /\ pc = "suspending"
    /\ live[target].exists
    /\ Executed
    /\ outcome' = [outcome EXCEPT ![target] = "accepted"]
    /\ pc' = "recording"
    /\ CountCommand
    /\ UNCHANGED <<settingVars, tableVars, capture, snapshot, listed, pending, target,
                   backoff_required, result, audited, touched, faults>>

\* Snowflake error 90064: the command may or may not have taken effect.
SuspendUnknown ==
    /\ pc = "suspending"
    /\ Fault
    /\ Executed \/ UNCHANGED snowflakeVars
    /\ outcome' = [outcome EXCEPT ![target] = "unknown"]
    /\ backoff_required' = TRUE
    /\ pc' = "deciding"
    /\ target' = NoRow
    /\ CountCommand
    /\ UNCHANGED <<settingVars, tableVars, capture, snapshot, listed, pending, result,
                   audited, touched>>

\* The tick's locals are gone; its outcome is what tenant_loop sees.
EndTick(how) ==
    /\ pc' = "idle"
    /\ result' = how
    /\ snapshot' = [w \in Warehouse |-> NoRow]
    /\ listed' = [w \in Warehouse |-> NoRow]
    /\ pending' = {}
    /\ target' = NoRow
    /\ backoff_required' = FALSE
    /\ touched' = {}
    /\ UNCHANGED <<settingVars, tableVars, capture>>

\* Any other command error propagates and ends the tick; a dropped warehouse
\* gives one without any fault.
SuspendError ==
    /\ pc = "suspending"
    /\ IF live[target].exists THEN Fault ELSE faults' = faults
    /\ Executed \/ UNCHANGED snowflakeVars
    /\ outcome' = [outcome EXCEPT ![target] = "error"]
    /\ CountCommand
    /\ EndTick("raised")
    /\ UNCHANGED audited

\* _record_accepted_event: a StoreError is logged and swallowed.
RecordAcceptedEvent ==
    /\ pc = "recording"
    /\ \/ audited' = audited \cup {target} /\ faults' = faults
       \/ audited' = audited /\ Fault
    /\ pc' = "deciding"
    /\ target' = NoRow
    /\ UNCHANGED <<snowflakeVars, settingVars, tableVars, capture, snapshot, listed, pending,
                   backoff_required, result, outcome, consentVars, stray>>

FinishCycle ==
    /\ pc = "deciding" /\ pending = {}
    /\ EndTick(IF backoff_required THEN "RETRY_BACKOFF" ELSE "NORMAL")
    /\ UNCHANGED <<snowflakeVars, ledgerVars, late, lateOff, stray, faults>>

\* SHOW, list_enrollments or a state RPC fails, or the worker process restarts:
\* nothing of the tick survives.
AbortTick ==
    /\ Fault
    /\ EndTick("raised")
    /\ UNCHANGED <<snowflakeVars, ledgerVars, late, lateOff, stray>>

TickStep ==
    \/ ShowWarehouses
    \/ ListEnrollments
    \/ \E w \in Warehouse : Skip(w) \/ DeleteStaleEnrollment(w) \/ AuthorizeSuspend(w)
    \/ SuspendAccepted
    \/ SuspendUnknown
    \/ SuspendError
    \/ RecordAcceptedEvent
    \/ FinishCycle

Next == SnowflakeStep \/ ApiStep \/ TickStep \/ AbortTick

Spec == Init /\ [][Next]_vars

\* tenant_loop starts the next tick after a bounded delay, and every call of a
\* tick returns within its timeout.
FairSpec == Spec /\ WF_vars(TickStep)

-----------------------------------------------------------------------------
(* The inductive invariant of the proofs.                                   *)

\* No row is newer than the last stamp, and a row written after the listing
\* carries a newer stamp than the listed copy (or is gone).
VersionInv ==
    /\ pc \in {"idle", "shown"} => \A w \in Warehouse : listed[w] = NoRow
    /\ \A w \in Warehouse : enrollments[w] # NoRow => enrollments[w].updated_at <= stamp[w]
    /\ \A w \in Warehouse : listed[w] # NoRow => listed[w].updated_at <= stamp[w]
    /\ \A w \in touched : /\ listed[w] # NoRow
                          /\ enrollments[w] # NoRow =>
                               enrollments[w].updated_at > listed[w].updated_at

\* Commands are counted as late only while consent is missing, and none was
\* late when the authorization in hand was given.
LateInv ==
    /\ \A w \in Warehouse : late[w] <= 1 /\ (Consent(w) => late[w] = 0)
    /\ lateOff <= 1 /\ (global_enabled => lateOff = 0)
    /\ pc = "suspending" => late[target] = 0 /\ lateOff = 0

\* This tick's snapshot of w is older than the incarnation that exists now, and
\* the tick has yet to act on it.
Outrun(w) == /\ pc = "shown" \/ w \in pending
             /\ Comparable(w)
             /\ snapshot[w].created_on # live[w].created

\* No command counts as stray while the row names the warehouse, before the one
\* tick that an incarnation can outrun has acted, or when one is authorized.
StrayInv ==
    /\ \A w \in Warehouse : /\ stray[w] <= 1
                            /\ Named(w) \/ Outrun(w) => stray[w] = 0
    /\ pc = "suspending" => stray[target] = 0 /\ target \notin pending

IInv == TypeOK /\ VersionInv /\ LateInv /\ StrayInv

-----------------------------------------------------------------------------
(* Properties.                                                              *)

\* An authorization succeeds only on a row nobody wrote since the tick listed
\* it: disabling and enabling again, or re-enrolling the same identity, in
\* between is noticed (updated_at in automated_savings_authorize_suspend).
AuthorizationSeesNoRewrite ==
    [][\A w \in Warehouse : AuthorizeSuspend(w) /\ pc' = "suspending" => w \notin touched]_vars

\* The worker deletes only an enrollment nobody wrote since the tick listed it,
\* so a re-enrollment that lands first always survives
\* (automated_savings_delete_stale_enrollment).
DeleteSparesRewrite ==
    [][\A w \in Warehouse :
         enrollments[w] # NoRow /\ enrollments'[w] = NoRow => w \notin touched]_vars

\* "A later disable takes effect on the next authorization": once consent for a
\* warehouse has ended, at most the one command already authorized still leaves;
\* once the organization is switched off, at most one in total, whatever the
\* number of enrolled warehouses (engine.run_cycle).
OneLateCommand == lateOff <= 1 /\ \A w \in Warehouse : late[w] <= 1

\* The audit table never overstates: only accepted commands have an event, and
\* a tick that ran to its end reports RETRY_BACKOFF exactly when some command
\* of it had an unknown outcome, even if a later one was accepted.
AuditAndCadence ==
    /\ \A w \in audited : outcome[w] = "accepted"
    /\ pc = "idle" /\ result # "raised" =>
         (result = "RETRY_BACKOFF" <=> \E w \in Warehouse : outcome[w] = "unknown")

\* Names are all a command carries, so one may hit a warehouse that replaced the
\* enrolled one under its name. It happens once at most: from then on the worker
\* spares it until an enrollment names it, whatever is dropped, recreated or
\* enrolled on an identity captured before, between any calls of any ticks.
OneStrayCommand == \A w \in Warehouse : stray[w] <= 1

\* docs/automated-savings-how-it-works.md: "If it differs, the worker
\* conditionally removes the stale enrollment". Stale would mean that the row
\* does not name the warehouse that exists now.
OnlyStaleEnrollmentDeleted ==
    [][\A w \in Warehouse :
         enrollments[w] # NoRow /\ enrollments'[w] = NoRow =>
            ~(live[w].exists /\ live[w].created = enrollments[w].created_on)]_vars

\* An enrolled warehouse that stays suspendable is commanded in the end, once
\* faults have stopped: no interleaving of toggles, recreations and ticks parks
\* the worker or wedges the row in a state it never acts on.
Wanted(w) == /\ Consent(w)
             /\ live[w].exists /\ live[w].suspendable
             /\ live[w].created = enrollments[w].created_on
IdleWarehouseSuspended == \A w \in Warehouse : Wanted(w) ~> ~Wanted(w)

\* The tick implements the permit protocol: the permit is the authorization in
\* hand, consent is what the two tables say.
Permit == INSTANCE SuspendPermit WITH
    consent <- [w \in Warehouse |-> Consent(w)],
    permit  <- IF pc = "suspending" THEN target ELSE NoRow
ImplementsPermit == Permit!Spec
=============================================================================
