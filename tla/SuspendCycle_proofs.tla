------------------------- MODULE SuspendCycle_proofs -------------------------
(***************************************************************************)
(* The safety properties of SuspendCycle for every set of warehouses and    *)
(* every bound: type correctness, the inductive invariant, the bound on     *)
(* commands that outlive consent and on commands at a replaced warehouse,   *)
(* version-guarded authorization and deletion, the tick's ledger, and       *)
(* refinement of SuspendPermit.                                             *)
(***************************************************************************)
EXTENDS SuspendCycle, TLAPS


(***************************************************************************)
(* Every step keeps the types.                                              *)
(***************************************************************************)
LEMMA TypeInit == Init => TypeOK
<1> SUFFICES ASSUME Init PROVE TypeOK
    OBVIOUS
<1> USE BoundsAssumption, NoRowAssumption DEF Init
<1>1. live \in [Warehouse -> LiveWarehouse]
  <2>1. ASSUME NEW e \in BOOLEAN
        PROVE  [exists |-> e, created |-> IF e THEN 1 ELSE 0, suspendable |-> e] \in LiveWarehouse
    BY <2>1 DEF LiveWarehouse
  <2> QED
    BY <2>1
<1>2. /\ target \in Warehouse \cup {NoRow} /\ (target # NoRow <=> pc \in {"suspending", "recording"})
      /\ pc \in {"idle", "shown", "deciding", "suspending", "recording"}
      /\ result \in {"NORMAL", "RETRY_BACKOFF", "raised"}
  OBVIOUS
<1>3. /\ outcome \in [Warehouse -> {"none", "accepted", "unknown", "error"}]
      /\ snapshot \in [Warehouse -> SnapshotRow \cup {NoRow}]
      /\ listed \in [Warehouse -> EnrollmentRow \cup {NoRow}]
      /\ enrollments \in [Warehouse -> EnrollmentRow \cup {NoRow}]
  OBVIOUS
<1>4. /\ stamp \in [Warehouse -> 0..MaxStamp] /\ capture \in [Warehouse -> 0..MaxIdentity]
      /\ late \in [Warehouse -> Nat] /\ lateOff \in Nat /\ stray \in [Warehouse -> Nat]
      /\ faults \in 0..MaxFaults
  OBVIOUS
<1> QED
  BY <1>1, <1>2, <1>3, <1>4 DEF TypeOK

\* What the two row writers leave is a row.
LEMMA WrittenRow ==
  ASSUME TypeOK, NEW w \in Warehouse, UpsertEnrollment(w) \/ Unenroll(w)
  PROVE  enrollments'[w] \in EnrollmentRow
<1> USE BoundsAssumption DEF TypeOK, EnrollmentRow
<1>1. stamp'[w] \in Stamp
  BY DEF UpsertEnrollment, Unenroll, Stamp
<1>2. CASE UpsertEnrollment(w)
  BY <1>1, <1>2 DEF UpsertEnrollment, Identity
<1>3. CASE Unenroll(w)
  BY <1>1, <1>3 DEF Unenroll
<1> QED
  BY <1>2, <1>3

LEMMA TypeStep == TypeOK /\ [Next]_vars => TypeOK'
<1> SUFFICES ASSUME TypeOK, [Next]_vars PROVE TypeOK'
    OBVIOUS
<1> USE BoundsAssumption, NoRowAssumption
<1>1. CASE SnowflakeStep
  <2>1. live' \in [Warehouse -> LiveWarehouse]
    <3> USE DEF TypeOK, LiveWarehouse
    <3>1. ASSUME NEW w \in Warehouse, CreateWarehouse(w) PROVE live' \in [Warehouse -> LiveWarehouse]
      BY <3>1 DEF CreateWarehouse
    <3>2. ASSUME NEW w \in Warehouse, DropWarehouse(w) PROVE live' \in [Warehouse -> LiveWarehouse]
      BY <3>2 DEF DropWarehouse
    <3>3. ASSUME NEW w \in Warehouse, ChangeActivity(w) PROVE live' \in [Warehouse -> LiveWarehouse]
      BY <3>3 DEF ChangeActivity
    <3> QED
      BY <1>1, <3>1, <3>2, <3>3 DEF SnowflakeStep
  <2>2. stray' \in [Warehouse -> Nat]
    BY <1>1 DEF SnowflakeStep, CreateWarehouse, DropWarehouse, ChangeActivity, TypeOK
  <2> QED
    BY <1>1, <2>1, <2>2 DEF SnowflakeStep, TypeOK, settingVars, tableVars, tickVars, ledgerVars, consentVars
<1>2. CASE ApiStep
  <2> USE DEF TypeOK, snowflakeVars, settingVars, tableVars, tickVars, ledgerVars, consentVars
  <2>1. UNCHANGED <<live, pc, snapshot, listed, pending, target, backoff_required, result,
                    outcome, audited, faults>>
    BY <1>2 DEF ApiStep
  <2>2. ASSUME RestartCounters PROVE late' \in [Warehouse -> Nat] /\ lateOff' \in Nat
    BY <2>2 DEF RestartCounters
  <2>3. ASSUME NEW enabled \in BOOLEAN, SetGlobalEnabled(enabled) PROVE TypeOK'
    BY <2>1, <2>2, <2>3 DEF SetGlobalEnabled
  <2>4. ASSUME NEW w \in Warehouse, CaptureWarehouseIdentity(w) PROVE TypeOK'
    BY <2>1, <2>4 DEF CaptureWarehouseIdentity, LiveWarehouse
  <2>5. ASSUME NEW w \in Warehouse, UpsertEnrollment(w) PROVE TypeOK'
    <3>1. stamp'[w] \in Stamp /\ capture[w] \in Identity
      BY <2>5 DEF UpsertEnrollment, Stamp, Identity
    <3>2. enrollments' \in [Warehouse -> EnrollmentRow \cup {NoRow}]
      BY <2>5, <3>1 DEF UpsertEnrollment, EnrollmentRow
    <3>3. stray' \in [Warehouse -> Nat]
      BY <2>5 DEF UpsertEnrollment
    <3> QED
      BY <2>1, <2>2, <2>5, <3>1, <3>2, <3>3 DEF UpsertEnrollment, MarkTouched, Stamp
  <2>6. ASSUME NEW w \in Warehouse, AbandonToggle(w) PROVE TypeOK'
    BY <2>1, <2>6 DEF AbandonToggle
  <2>7. ASSUME NEW w \in Warehouse, Unenroll(w) PROVE TypeOK'
    <3>1. stamp'[w] \in Stamp /\ enrollments[w] \in EnrollmentRow
      BY <2>7 DEF Unenroll, Stamp
    <3>2. enrollments' \in [Warehouse -> EnrollmentRow \cup {NoRow}]
      BY <2>7, <3>1 DEF Unenroll, EnrollmentRow
    <3> QED
      BY <2>1, <2>2, <2>7, <3>1, <3>2 DEF Unenroll, MarkTouched, Stamp
  <2> QED
    BY <1>2, <2>2, <2>3, <2>4, <2>5, <2>6, <2>7 DEF ApiStep
<1>3. CASE TickStep
  <2> USE DEF TypeOK, snowflakeVars, settingVars, tableVars, tickVars, ledgerVars, consentVars
  <2>1. CASE ShowWarehouses
    <3>1. snapshot' \in [Warehouse -> SnapshotRow \cup {NoRow}]
      BY <2>1 DEF ShowWarehouses, SnapshotRow, LiveWarehouse
    <3>2. faults' \in 0..MaxFaults
      BY <2>1 DEF ShowWarehouses, Fault
    <3> QED
      BY <2>1, <3>1, <3>2 DEF ShowWarehouses
  <2>2. CASE ListEnrollments
    BY <2>2 DEF ListEnrollments
  <2>3. ASSUME NEW w \in Warehouse, Skip(w) PROVE TypeOK'
    BY <2>3 DEF Skip
  <2>4. ASSUME NEW w \in Warehouse, DeleteStaleEnrollment(w) PROVE TypeOK'
    BY <2>4 DEF DeleteStaleEnrollment
  <2>5. ASSUME NEW w \in Warehouse, AuthorizeSuspend(w) PROVE TypeOK'
    BY <2>5 DEF AuthorizeSuspend
  <2>6. ASSUME CountCommand, target \in Warehouse
        PROVE  late' \in [Warehouse -> Nat] /\ lateOff' \in Nat /\ stray' \in [Warehouse -> Nat]
    BY <2>6 DEF CountCommand
  <2>7. ASSUME target \in Warehouse, Executed PROVE live' \in [Warehouse -> LiveWarehouse]
    BY <2>7 DEF Executed, LiveWarehouse
  <2>8. ASSUME Fault PROVE faults' \in 0..MaxFaults
    BY <2>8 DEF Fault
  <2>9. CASE SuspendAccepted
    BY <2>6, <2>7, <2>9 DEF SuspendAccepted
  <2>10. CASE SuspendUnknown
    BY <2>6, <2>7, <2>8, <2>10 DEF SuspendUnknown
  <2>11. CASE SuspendError
    BY <2>6, <2>7, <2>8, <2>11 DEF SuspendError, EndTick
  <2>12. CASE RecordAcceptedEvent
    BY <2>8, <2>12 DEF RecordAcceptedEvent
  <2>13. CASE FinishCycle
    BY <2>13 DEF FinishCycle, EndTick
  <2> QED
    BY <1>3, <2>1, <2>2, <2>3, <2>4, <2>5, <2>9, <2>10, <2>11, <2>12, <2>13 DEF TickStep
<1>4. CASE AbortTick
  <2>1. faults' \in 0..MaxFaults
    BY <1>4 DEF AbortTick, Fault, TypeOK
  <2> QED
    BY <1>4, <2>1 DEF AbortTick, EndTick, TypeOK, snowflakeVars, settingVars, tableVars, ledgerVars
<1>5. CASE UNCHANGED vars
  BY <1>5 DEF vars, TypeOK
<1> QED
  BY <1>1, <1>2, <1>3, <1>4, <1>5 DEF Next

(***************************************************************************)
(* Stamps grow with every write, so a matching updated_at is a proof that   *)
(* nobody wrote the row.                                                    *)
(***************************************************************************)
LEMMA VersionStep == TypeOK /\ VersionInv /\ [Next]_vars => VersionInv'
<1> SUFFICES ASSUME TypeOK, VersionInv, [Next]_vars PROVE VersionInv'
    OBVIOUS
<1> USE NoRowAssumption, BoundsAssumption
<1>1. CASE /\ UNCHANGED <<enrollments, stamp, listed, touched>>
           /\ pc' \in {"idle", "shown"} => pc \in {"idle", "shown"}
  BY <1>1 DEF VersionInv
<1>2. ASSUME NEW w \in Warehouse, NEW on \in BOOLEAN, NEW c \in Identity,
             stamp[w] < MaxStamp,
             stamp' = [stamp EXCEPT ![w] = @ + 1],
             enrollments' = [enrollments EXCEPT ![w] =
                 [enabled |-> on, created_on |-> c, updated_at |-> stamp'[w]]],
             MarkTouched(w), UNCHANGED <<listed, pc>>
      PROVE  VersionInv'
  <2>1. \A v \in Warehouse : stamp[v] \in Nat /\ stamp'[v] \in Nat /\ stamp[v] <= stamp'[v]
    BY <1>2 DEF TypeOK
  <2>2. enrollments'[w].updated_at = stamp[w] + 1 /\ stamp'[w] = stamp[w] + 1
    BY <1>2 DEF TypeOK
  <2>3. \A v \in Warehouse \ {w} : enrollments'[v] = enrollments[v]
    BY <1>2 DEF TypeOK
  <2>4. \A v \in Warehouse : /\ enrollments[v] # NoRow => enrollments[v].updated_at \in Nat
                             /\ listed[v] # NoRow => listed[v].updated_at \in Nat
    BY DEF TypeOK, EnrollmentRow, Stamp
  <2>5. \A v \in Warehouse : enrollments'[v] # NoRow => enrollments'[v].updated_at <= stamp'[v]
    BY <2>1, <2>2, <2>3, <2>4 DEF VersionInv
  <2>6. \A v \in Warehouse : listed'[v] # NoRow => listed'[v].updated_at <= stamp'[v]
    BY <1>2, <2>1, <2>4 DEF VersionInv
  <2>7. \A v \in touched' : v \in Warehouse /\ listed'[v] # NoRow
    BY <1>2 DEF VersionInv, MarkTouched, TypeOK
  <2>8. ASSUME NEW v \in touched', enrollments'[v] # NoRow
        PROVE  enrollments'[v].updated_at > listed'[v].updated_at
    <3>1. CASE v = w
      BY <1>2, <2>1, <2>2, <2>4, <2>7, <2>8, <3>1 DEF VersionInv
    <3>2. CASE v # w
      BY <1>2, <2>3, <2>7, <2>8, <3>2 DEF VersionInv, MarkTouched, TypeOK
    <3> QED
      BY <3>1, <3>2
  <2> QED
    BY <1>2, <2>5, <2>6, <2>7, <2>8 DEF VersionInv
<1>3. CASE SnowflakeStep
  BY <1>1, <1>3 DEF SnowflakeStep, tableVars, tickVars, consentVars
<1>4. CASE ApiStep
  <2>1. listed' = listed /\ pc' = pc
    BY <1>4 DEF ApiStep, tickVars
  <2>2. CASE \E enabled \in BOOLEAN : SetGlobalEnabled(enabled)
    BY <1>1, <2>1, <2>2 DEF SetGlobalEnabled, tableVars, consentVars
  <2>3. ASSUME NEW w \in Warehouse, CaptureWarehouseIdentity(w) \/ AbandonToggle(w)
        PROVE  VersionInv'
    BY <1>1, <2>1, <2>3 DEF CaptureWarehouseIdentity, AbandonToggle, tableVars, consentVars
  <2>4. ASSUME NEW w \in Warehouse, UpsertEnrollment(w) PROVE VersionInv'
    <3>1. capture[w] \in Identity
      BY <2>4 DEF UpsertEnrollment, TypeOK, Identity
    <3> QED
      BY <1>2, <2>1, <2>4, <3>1 DEF UpsertEnrollment
  <2>5. ASSUME NEW w \in Warehouse, Unenroll(w) PROVE VersionInv'
    <3>1. enrollments[w].created_on \in Identity
      BY <2>5 DEF Unenroll, TypeOK, EnrollmentRow
    <3> QED
      BY <1>2, <2>1, <2>5, <3>1 DEF Unenroll
  <2> QED
    BY <1>4, <2>2, <2>3, <2>4, <2>5 DEF ApiStep
<1>5. ASSUME NEW how, EndTick(how) PROVE VersionInv'
  BY <1>5 DEF EndTick, tableVars, VersionInv
<1>6. CASE TickStep
  <2>1. CASE ShowWarehouses \/ SuspendAccepted \/ SuspendUnknown \/ RecordAcceptedEvent
    BY <1>1, <2>1 DEF ShowWarehouses, SuspendAccepted, SuspendUnknown, RecordAcceptedEvent,
                      tableVars, consentVars
  <2>2. CASE ListEnrollments
    <3>1. touched' = touched /\ enrollments' = enrollments /\ stamp' = stamp /\ listed' = enrollments
      BY <2>2 DEF ListEnrollments, tableVars, consentVars
    <3>2. touched = {} /\ pc' = "deciding"
      BY <2>2 DEF ListEnrollments, VersionInv, TypeOK
    <3> QED
      BY <3>1, <3>2 DEF VersionInv
  <2>3. ASSUME NEW w \in Warehouse, Skip(w) \/ AuthorizeSuspend(w) PROVE VersionInv'
    BY <1>1, <2>3 DEF Skip, AuthorizeSuspend, tableVars, consentVars
  <2>4. ASSUME NEW w \in Warehouse, DeleteStaleEnrollment(w) PROVE VersionInv'
    BY <2>4 DEF DeleteStaleEnrollment, consentVars, VersionInv, TypeOK
  <2>5. CASE SuspendError \/ FinishCycle
    BY <1>5, <2>5 DEF SuspendError, FinishCycle
  <2> QED
    BY <1>6, <2>1, <2>2, <2>3, <2>4, <2>5 DEF TickStep
<1>7. CASE AbortTick
  BY <1>5, <1>7 DEF AbortTick
<1>8. CASE UNCHANGED vars
  BY <1>1, <1>8 DEF vars
<1> QED
  BY <1>3, <1>4, <1>6, <1>7, <1>8 DEF Next

(***************************************************************************)
(* While consent holds no command of that warehouse counts as late, so the  *)
(* one authorization in hand is the only command that can become late.      *)
(***************************************************************************)
LEMMA LateStep == TypeOK /\ LateInv /\ [Next]_vars => LateInv'
<1> SUFFICES ASSUME TypeOK, LateInv, [Next]_vars PROVE LateInv'
    OBVIOUS
<1> USE NoRowAssumption, BoundsAssumption
<1>1. CASE /\ UNCHANGED <<global_enabled, enrollments, late, lateOff, target>>
           /\ pc' = "suspending" => pc = "suspending"
  BY <1>1 DEF LateInv, Consent
<1>2. CASE RestartCounters /\ UNCHANGED <<pc, target>>
  <2>1. \A w \in Warehouse : late'[w] = IF Consent(w)' THEN 0 ELSE late[w]
    BY <1>2 DEF RestartCounters
  <2>2. pc = "suspending" => target \in Warehouse
    BY DEF TypeOK
  <2>3. lateOff' = IF global_enabled' THEN 0 ELSE lateOff
    BY <1>2 DEF RestartCounters
  <2>4. \A w \in Warehouse : late[w] \in Nat
    BY DEF TypeOK
  <2> QED
    BY <1>2, <2>1, <2>2, <2>3, <2>4 DEF LateInv
<1>3. CASE SnowflakeStep
  BY <1>1, <1>3 DEF SnowflakeStep, settingVars, tableVars, tickVars, consentVars
<1>4. CASE ApiStep
  <2>1. UNCHANGED <<pc, target>>
    BY <1>4 DEF ApiStep, tickVars
  <2>2. CASE \E enabled \in BOOLEAN : SetGlobalEnabled(enabled)
    BY <1>2, <2>1, <2>2 DEF SetGlobalEnabled
  <2>3. CASE \E w \in Warehouse : CaptureWarehouseIdentity(w) \/ AbandonToggle(w)
    BY <1>1, <2>1, <2>3 DEF CaptureWarehouseIdentity, AbandonToggle, settingVars, tableVars, consentVars
  <2>4. CASE \E w \in Warehouse : UpsertEnrollment(w) \/ Unenroll(w)
    BY <1>2, <2>1, <2>4 DEF UpsertEnrollment, Unenroll
  <2> QED
    BY <1>4, <2>2, <2>3, <2>4 DEF ApiStep
<1>5. ASSUME NEW how, EndTick(how), UNCHANGED <<late, lateOff>> PROVE LateInv'
  BY <1>5 DEF EndTick, settingVars, tableVars, LateInv, Consent
<1>6. ASSUME pc = "suspending", CountCommand, pc' # "suspending", UNCHANGED <<global_enabled, enrollments>>
      PROVE  LateInv'
  <2>1. target \in Warehouse /\ late[target] = 0 /\ lateOff = 0
    BY <1>6 DEF TypeOK, LateInv
  <2>2. \A w \in Warehouse : /\ late'[w] \in {late[w], 0, 1}
                             /\ Consent(w) => late'[w] = late[w]
    BY <1>6, <2>1 DEF CountCommand, TypeOK
  <2>3. lateOff' \in {0, 1} /\ (global_enabled => lateOff' = 0)
    BY <1>6, <2>1 DEF CountCommand
  <2>4. \A w \in Warehouse : Consent(w)' = Consent(w)
    BY <1>6 DEF Consent
  <2> QED
    BY <1>6, <2>2, <2>3, <2>4 DEF LateInv
<1>7. CASE TickStep
  <2>1. CASE ShowWarehouses \/ ListEnrollments \/ (\E w \in Warehouse : Skip(w))
    BY <1>1, <2>1 DEF ShowWarehouses, ListEnrollments, Skip, settingVars, tableVars, consentVars
  <2>2. ASSUME NEW w \in Warehouse, DeleteStaleEnrollment(w) PROVE LateInv'
    <3>1. \A v \in Warehouse : Consent(v)' => Consent(v)
      BY <2>2 DEF DeleteStaleEnrollment, Consent, settingVars, TypeOK
    <3> QED
      BY <2>2, <3>1 DEF DeleteStaleEnrollment, LateInv, settingVars, consentVars
  <2>3. ASSUME NEW w \in Warehouse, AuthorizeSuspend(w) PROVE LateInv'
    <3>1. CASE pc' = "suspending"
      <4>1. Consent(w) /\ global_enabled /\ target' = w
        BY <2>3, <3>1 DEF AuthorizeSuspend, Authorized, RowMatches, Consent
      <4> QED
        BY <2>3, <4>1 DEF AuthorizeSuspend, LateInv, Consent, settingVars, tableVars, consentVars
    <3>2. CASE pc' # "suspending"
      BY <2>3, <3>2 DEF AuthorizeSuspend, LateInv, Consent, settingVars, tableVars, consentVars
    <3> QED
      BY <3>1, <3>2
  <2>4. CASE SuspendAccepted \/ SuspendUnknown
    BY <1>6, <2>4 DEF SuspendAccepted, SuspendUnknown, settingVars, tableVars
  <2>5. CASE SuspendError
    BY <1>6, <2>5 DEF SuspendError, EndTick, settingVars, tableVars
  <2>6. CASE RecordAcceptedEvent
    BY <2>6 DEF RecordAcceptedEvent, LateInv, Consent, settingVars, tableVars, consentVars
  <2>7. CASE FinishCycle
    BY <1>5, <2>7 DEF FinishCycle
  <2> QED
    BY <1>7, <2>1, <2>2, <2>3, <2>4, <2>5, <2>6, <2>7 DEF TickStep
<1>8. CASE AbortTick
  BY <1>5, <1>8 DEF AbortTick
<1>9. CASE UNCHANGED vars
  BY <1>1, <1>9 DEF vars
<1> QED
  BY <1>3, <1>4, <1>7, <1>8, <1>9 DEF Next

(***************************************************************************)
(* One tick at most holds a listing older than the incarnation that exists, *)
(* and it has no command left for the warehouse once it has sent one.       *)
(***************************************************************************)
LEMMA StrayStep == TypeOK /\ StrayInv /\ [Next]_vars => StrayInv'
<1> SUFFICES ASSUME TypeOK, StrayInv, [Next]_vars PROVE StrayInv'
    OBVIOUS
<1> USE NoRowAssumption, BoundsAssumption
<1> DEFINE Kept(w) == stray'[w] <= 1 /\ (Named(w)' \/ Outrun(w)' => stray'[w] = 0)
           Armed == pc' = "suspending" => stray'[target'] = 0 /\ target' \notin pending'
<1>1. ASSUME \A w \in Warehouse : Kept(w), Armed PROVE StrayInv'
  BY <1>1 DEF StrayInv
<1>2. /\ \A w \in Warehouse : stray[w] \in Nat /\ stray[w] <= 1
      /\ \A w \in Warehouse : Named(w) \/ Outrun(w) => stray[w] = 0
      /\ pc = "suspending" => target \in Warehouse /\ stray[target] = 0 /\ target \notin pending
  BY DEF StrayInv, TypeOK
<1>3. ASSUME NEW w \in Warehouse, stray'[w] = stray[w], Named(w)' => Named(w), Outrun(w)' => Outrun(w)
      PROVE  Kept(w)
  BY <1>2, <1>3
<1>4. ASSUME NEW w \in Warehouse, stray'[w] = 0 PROVE Kept(w)
  BY <1>4
<1> HIDE DEF Kept, Armed
<1>5. ASSUME UNCHANGED <<stray, pc, snapshot, pending, target>>,
             \A w \in Warehouse : Named(w)' => Named(w), \A w \in Warehouse : Outrun(w)' => Outrun(w)
      PROVE  StrayInv'
  BY <1>1, <1>2, <1>3, <1>5 DEF Armed
<1>6. CASE SnowflakeStep
  <2>1. UNCHANGED <<enrollments, pc, snapshot, pending, target>>
    BY <1>6 DEF SnowflakeStep, tableVars, tickVars
  <2>2. ASSUME NEW v \in Warehouse, CreateWarehouse(v) PROVE StrayInv'
    <3>1. stray'[v] = 0 /\ \A w \in Warehouse : w # v => stray'[w] = stray[w] /\ live'[w] = live[w]
      BY <2>2 DEF CreateWarehouse, TypeOK
    <3>2. ASSUME NEW w \in Warehouse PROVE Kept(w)
      BY <1>3, <1>4, <2>1, <3>1 DEF Named, Outrun, Comparable
    <3>3. Armed
      BY <1>2, <2>1, <3>1 DEF Armed
    <3> QED
      BY <1>1, <3>2, <3>3
  <2>3. ASSUME NEW v \in Warehouse, DropWarehouse(v) \/ ChangeActivity(v) PROVE StrayInv'
    <3>1. stray' = stray /\ \A w \in Warehouse : live'[w].created = live[w].created
      BY <2>3 DEF DropWarehouse, ChangeActivity, TypeOK
    <3> QED
      BY <1>5, <2>1, <3>1 DEF Named, Outrun, Comparable
  <2> QED
    BY <1>6, <2>2, <2>3 DEF SnowflakeStep
<1>7. CASE ApiStep
  <2>1. UNCHANGED <<live, pc, snapshot, pending, target>>
    BY <1>7 DEF ApiStep, snowflakeVars, tickVars
  <2>2. CASE \E enabled \in BOOLEAN : SetGlobalEnabled(enabled)
    BY <1>5, <2>1, <2>2 DEF SetGlobalEnabled, tableVars, Named, Outrun, Comparable
  <2>3. CASE \E w \in Warehouse : CaptureWarehouseIdentity(w) \/ AbandonToggle(w)
    BY <1>5, <2>1, <2>3 DEF CaptureWarehouseIdentity, AbandonToggle, tableVars, Named, Outrun, Comparable
  <2>4. ASSUME NEW v \in Warehouse, UpsertEnrollment(v) PROVE StrayInv'
    <3>1. ASSUME NEW w \in Warehouse, w # v PROVE stray'[w] = stray[w] /\ enrollments'[w] = enrollments[w]
      BY <2>4, <3>1 DEF UpsertEnrollment, TypeOK
    <3>2. /\ capture[v] = live[v].created => stray'[v] = 0
          /\ capture[v] # live[v].created => stray'[v] = stray[v]
          /\ enrollments'[v].created_on = capture[v]
      BY <2>4 DEF UpsertEnrollment, TypeOK
    <3>3. ASSUME NEW w \in Warehouse PROVE Kept(w)
      BY <1>3, <1>4, <2>1, <3>1, <3>2 DEF Named, Outrun, Comparable
    <3>4. Armed
      BY <1>2, <2>1, <3>1, <3>2 DEF Armed
    <3> QED
      BY <1>1, <3>3, <3>4
  <2>5. ASSUME NEW v \in Warehouse, Unenroll(v) PROVE StrayInv'
    <3>1. \A w \in Warehouse : Named(w)' => Named(w)
      BY <2>1, <2>5 DEF Unenroll, Named, TypeOK
    <3> QED
      BY <1>5, <2>1, <2>5, <3>1 DEF Unenroll, Outrun, Comparable
  <2> QED
    BY <1>7, <2>2, <2>3, <2>4, <2>5 DEF ApiStep
<1>8. ASSUME pc = "suspending", CountCommand, enrollments' = enrollments, pending' \subseteq pending,
             pc' \notin {"suspending", "shown"}, pending' # {} => snapshot' = snapshot,
             \A w \in Warehouse : live'[w].created = live[w].created
      PROVE  StrayInv'
  <2>1. /\ target \in Warehouse
        /\ \A w \in Warehouse : w # target => stray'[w] = stray[w]
        /\ stray'[target] = 0 \/ (stray'[target] = 1 /\ ~Named(target))
    BY <1>2, <1>8 DEF CountCommand, TypeOK
  <2>2. \A w \in Warehouse : (Named(w)' => Named(w)) /\ (Outrun(w)' => Outrun(w))
    BY <1>8 DEF Named, Outrun, Comparable
  <2>3. \A w \in Warehouse : Outrun(w)' => w # target
    BY <1>2, <1>8 DEF Outrun
  <2>4. ASSUME NEW w \in Warehouse, w = target PROVE Kept(w)
    <3>1. ~Outrun(w)' /\ (Named(w)' => Named(target))
      BY <2>2, <2>3, <2>4
    <3>2. stray'[w] \in {0, 1} /\ (Named(w)' => stray'[w] = 0)
      BY <2>1, <2>4, <3>1
    <3> QED
      BY <3>1, <3>2 DEF Kept
  <2>5. ASSUME NEW w \in Warehouse, w # target PROVE Kept(w)
    BY <1>3, <2>1, <2>2, <2>5
  <2>6. Armed
    BY <1>8 DEF Armed
  <2> QED
    BY <1>1, <2>4, <2>5, <2>6
<1>9. ASSUME NEW how, EndTick(how), UNCHANGED <<live, stray>> PROVE StrayInv'
  <2>1. ASSUME NEW w \in Warehouse PROVE (Named(w)' => Named(w)) /\ ~Outrun(w)'
    BY <1>9 DEF EndTick, tableVars, Named, Outrun
  <2>2. ASSUME NEW w \in Warehouse PROVE Kept(w)
    BY <1>3, <1>9, <2>1
  <2> QED
    BY <1>1, <1>9, <2>2 DEF EndTick, Armed
<1>10. CASE TickStep
  <2> USE DEF snowflakeVars, tableVars
  <2>1. CASE ShowWarehouses
    <3>1. UNCHANGED <<live, enrollments, stray>> /\ pc' = "shown"
      BY <2>1 DEF ShowWarehouses
    <3>2. \A w \in Warehouse : Comparable(w)' => snapshot'[w].created_on = live[w].created
      BY <2>1 DEF ShowWarehouses, Comparable
    <3>3. ASSUME NEW w \in Warehouse PROVE Kept(w)
      BY <1>3, <3>1, <3>2 DEF Named, Outrun
    <3> QED
      BY <1>1, <3>1, <3>3 DEF Armed
  <2>2. CASE ListEnrollments
    <3>1. UNCHANGED <<live, enrollments, stray, snapshot>> /\ pc = "shown" /\ pc' = "deciding"
      BY <2>2 DEF ListEnrollments
    <3>2. ASSUME NEW w \in Warehouse PROVE Kept(w)
      BY <1>3, <3>1 DEF Named, Outrun, Comparable
    <3> QED
      BY <1>1, <3>1, <3>2 DEF Armed
  <2>3. ASSUME NEW v \in Warehouse, Skip(v) \/ DeleteStaleEnrollment(v) PROVE StrayInv'
    <3>1. /\ UNCHANGED <<live, stray, snapshot>> /\ pc = "deciding" /\ pc' = "deciding"
          /\ pending' = pending \ {v}
      BY <2>3 DEF Skip, DeleteStaleEnrollment
    <3>2. \A w \in Warehouse : enrollments'[w] \in {enrollments[w], NoRow}
      BY <2>3 DEF Skip, DeleteStaleEnrollment, TypeOK
    <3>3. ASSUME NEW w \in Warehouse PROVE Kept(w)
      BY <1>3, <3>1, <3>2 DEF Named, Outrun, Comparable
    <3> QED
      BY <1>1, <3>1, <3>3 DEF Armed
  <2>4. ASSUME NEW v \in Warehouse, AuthorizeSuspend(v) PROVE StrayInv'
    <3>1. UNCHANGED <<live, enrollments, stray, snapshot>> /\ pc = "deciding" /\ v \in pending
          /\ pending' = pending \ {v} /\ pc' \in {"deciding", "suspending"}
      BY <2>4 DEF AuthorizeSuspend
    <3>2. ASSUME NEW w \in Warehouse PROVE Kept(w)
      BY <1>3, <3>1 DEF Named, Outrun, Comparable
    <3>3. ASSUME pc' = "suspending" PROVE target' = v /\ (Named(v) \/ Outrun(v))
      <4>1. target' = v /\ Authorized(v)
        BY <2>4, <3>1, <3>3 DEF AuthorizeSuspend
      <4>2. Comparable(v) /\ enrollments[v] # NoRow /\ enrollments[v].created_on = snapshot[v].created_on
        BY <2>4, <4>1 DEF AuthorizeSuspend, Authorized, RowMatches, EligibleCreatedOn
      <4> QED
        BY <3>1, <4>1, <4>2 DEF Named, Outrun
    <3>4. Armed
      BY <1>2, <3>1, <3>3 DEF Armed
    <3> QED
      BY <1>1, <3>2, <3>4
  <2>5. ASSUME target \in Warehouse, Executed \/ live' = live
        PROVE  \A w \in Warehouse : live'[w].created = live[w].created
    BY <2>5 DEF Executed, TypeOK
  <2>6. CASE SuspendAccepted \/ SuspendUnknown
    BY <1>2, <1>8, <2>5, <2>6 DEF SuspendAccepted, SuspendUnknown
  <2>7. CASE SuspendError
    BY <1>2, <1>8, <2>5, <2>7 DEF SuspendError, EndTick
  <2>8. CASE RecordAcceptedEvent
    <3>1. UNCHANGED <<live, enrollments, stray, snapshot, pending>> /\ pc' = "deciding"
      BY <2>8 DEF RecordAcceptedEvent, consentVars
    <3>2. ASSUME NEW w \in Warehouse PROVE Kept(w)
      BY <1>3, <3>1 DEF Named, Outrun, Comparable
    <3> QED
      BY <1>1, <3>1, <3>2 DEF Armed
  <2>9. CASE FinishCycle
    BY <1>9, <2>9 DEF FinishCycle
  <2> QED
    BY <1>10, <2>1, <2>2, <2>3, <2>4, <2>6, <2>7, <2>8, <2>9 DEF TickStep
<1>11. CASE AbortTick
  BY <1>9, <1>11 DEF AbortTick, snowflakeVars
<1>12. CASE UNCHANGED vars
  BY <1>5, <1>12 DEF vars, Named, Outrun, Comparable
<1> QED
  BY <1>6, <1>7, <1>10, <1>11, <1>12 DEF Next

LEMMA InitInv == Init => IInv
<1> SUFFICES ASSUME Init PROVE IInv
    OBVIOUS
<1>1. TypeOK
  BY TypeInit
<1>2. VersionInv
  BY DEF Init, VersionInv
<1>3. LateInv
  BY DEF Init, LateInv, Consent
<1>4. StrayInv
  BY DEF Init, StrayInv
<1> QED
  BY <1>1, <1>2, <1>3, <1>4 DEF IInv

\* The inductive invariant holds throughout every behaviour.
THEOREM Invariance == Spec => []IInv
<1>1. IInv /\ [Next]_vars => IInv'
  BY TypeStep, VersionStep, LateStep, StrayStep DEF IInv
<1> QED
  BY InitInv, <1>1, PTL DEF Spec

\* Type correctness of the tick, the tables and the account.
THEOREM TypeCorrectness == Spec => []TypeOK
<1>1. IInv => TypeOK
  BY DEF IInv
<1> QED
  BY Invariance, <1>1, PTL

\* engine.run_cycle's promise: a withdrawn consent lets at most the authorized
\* command through, per warehouse and, for the organization switch, in total.
THEOREM LateCommandsBounded == Spec => []OneLateCommand
<1>1. IInv => OneLateCommand
  BY DEF IInv, LateInv, OneLateCommand
<1> QED
  BY Invariance, <1>1, PTL

\* engine._eligible_created_on and authorize_suspend let at most one command
\* through to a warehouse that replaced the enrolled one.
THEOREM StraysBounded == Spec => []OneStrayCommand
<1>1. IInv => OneStrayCommand
  BY DEF IInv, StrayInv, OneStrayCommand
<1> QED
  BY Invariance, <1>1, PTL

(***************************************************************************)
(* A row that matches the listed copy was not written since the listing.    *)
(***************************************************************************)
LEMMA MatchIsUntouched ==
  ASSUME IInv, NEW w \in Warehouse, NEW created_on, RowMatches(w, created_on)
  PROVE  w \notin touched
<1>1. enrollments[w].updated_at \in Nat
  BY DEF IInv, TypeOK, RowMatches, EnrollmentRow, Stamp
<1> QED
  BY <1>1 DEF IInv, VersionInv, RowMatches

\* automated_savings_authorize_suspend says yes only to the row as it was
\* listed, rewritten to the same content or not.
THEOREM AuthorizationIsVersioned == Spec => AuthorizationSeesNoRewrite
<1>1. IInv /\ [Next]_vars =>
        [\A w \in Warehouse : AuthorizeSuspend(w) /\ pc' = "suspending" => w \notin touched]_vars
  <2> SUFFICES ASSUME IInv, NEW w \in Warehouse, AuthorizeSuspend(w), pc' = "suspending"
               PROVE  w \notin touched
      OBVIOUS
  <2>1. RowMatches(w, EligibleCreatedOn(w))
    BY DEF AuthorizeSuspend, Authorized
  <2> QED
    BY <2>1, MatchIsUntouched
<1> QED
  BY Invariance, <1>1, PTL DEF Spec, AuthorizationSeesNoRewrite

\* automated_savings_delete_stale_enrollment spares a re-enrolled row.
THEOREM DeletionIsVersioned == Spec => DeleteSparesRewrite
<1>1. IInv /\ [Next]_vars =>
        [\A w \in Warehouse :
           enrollments[w] # NoRow /\ enrollments'[w] = NoRow => w \notin touched]_vars
  <2> SUFFICES ASSUME IInv, Next, NEW w \in Warehouse,
                      enrollments[w] # NoRow, enrollments'[w] = NoRow
               PROVE  w \notin touched
      OBVIOUS
  <2> USE NoRowAssumption
  <2>1. CASE SnowflakeStep
    BY <2>1 DEF SnowflakeStep, tableVars
  <2>2. CASE ApiStep
    <3>1. CASE \E enabled \in BOOLEAN : SetGlobalEnabled(enabled)
      BY <3>1 DEF SetGlobalEnabled, tableVars
    <3>2. ASSUME NEW v \in Warehouse, CaptureWarehouseIdentity(v) \/ AbandonToggle(v) PROVE FALSE
      BY <3>2 DEF CaptureWarehouseIdentity, AbandonToggle, tableVars
    <3>3. ASSUME NEW v \in Warehouse, UpsertEnrollment(v) \/ Unenroll(v) PROVE FALSE
      <4>1. /\ enrollments \in [Warehouse -> EnrollmentRow \cup {NoRow}]
            /\ enrollments' \in [Warehouse -> EnrollmentRow \cup {NoRow}]
        BY TypeStep DEF IInv, TypeOK
      <4>2. CASE v = w
        <5>1. enrollments'[w] \in EnrollmentRow
          BY <3>3, <4>2, WrittenRow DEF IInv
        <5> QED
          BY <5>1
      <4>3. CASE v # w
        BY <3>3, <4>1, <4>3 DEF UpsertEnrollment, Unenroll
      <4> QED
        BY <4>2, <4>3
    <3> QED
      BY <2>2, <3>1, <3>2, <3>3 DEF ApiStep
  <2>3. CASE TickStep
    <3>1. ASSUME NEW v \in Warehouse, DeleteStaleEnrollment(v) PROVE w \notin touched
      <4>1. v = w /\ RowMatches(w, listed[w].created_on)
        BY <3>1 DEF DeleteStaleEnrollment, IInv, TypeOK
      <4> QED
        BY <4>1, MatchIsUntouched
    <3> QED
      BY <2>3, <3>1 DEF TickStep, ShowWarehouses, ListEnrollments, Skip, AuthorizeSuspend,
         SuspendAccepted, SuspendUnknown, SuspendError, RecordAcceptedEvent, FinishCycle,
         EndTick, tableVars
  <2>4. CASE AbortTick
    BY <2>4 DEF AbortTick, EndTick, tableVars
  <2> QED
    BY <2>1, <2>2, <2>3, <2>4 DEF Next
<1> QED
  BY Invariance, <1>1, PTL DEF Spec, DeleteSparesRewrite

(***************************************************************************)
(* Refinement: every step of the tick, the API and the account is a step of *)
(* the permit protocol or leaves its state alone.                           *)
(***************************************************************************)
LEMMA PermitStep == IInv /\ [Next]_vars => [Permit!Next]_Permit!vars
<1> SUFFICES ASSUME IInv, [Next]_vars PROVE [Permit!Next]_Permit!vars
    OBVIOUS
<1> DEFINE consent == [w \in Warehouse |-> Consent(w)]
           permit  == IF pc = "suspending" THEN target ELSE NoRow
<1> USE NoRowAssumption
<1>0. TypeOK /\ LateInv
  BY DEF IInv
<1>1. CASE /\ UNCHANGED <<global_enabled, enrollments, late>>
           /\ permit' = permit
  BY <1>1 DEF Permit!vars, Consent
<1>2. CASE /\ late' = [w \in Warehouse |-> IF Consent(w)' THEN 0 ELSE late[w]]
           /\ permit' = permit
  <2>1. consent' \in [Warehouse -> BOOLEAN]
    BY <1>0 DEF Consent, TypeOK, EnrollmentRow
  <2>2. late' = [w \in Warehouse |-> IF consent'[w] THEN 0 ELSE late[w]]
    BY <1>2
  <2> QED
    BY <1>2, <2>1, <2>2 DEF Permit!Next, Permit!ChangeConsent
<1>3. ASSUME pc = "suspending", pc' # "suspending", UNCHANGED <<global_enabled, enrollments>>,
             CountCommand \/ late' = late
      PROVE  Permit!Send \/ Permit!Lose
  <2>1. permit = target /\ permit \in Warehouse /\ permit' = NoRow
    BY <1>0, <1>3 DEF TypeOK
  <2>2. consent' = consent /\ consent[target] = Consent(target)
    BY <1>3, <2>1 DEF Consent
  <2>3. CASE CountCommand
    BY <2>1, <2>2, <2>3 DEF Permit!Send, CountCommand
  <2>4. CASE late' = late
    BY <2>1, <2>2, <2>4 DEF Permit!Lose
  <2> QED
    BY <1>3, <2>3, <2>4
<1>4. CASE SnowflakeStep
  BY <1>1, <1>4 DEF SnowflakeStep, settingVars, tableVars, tickVars, consentVars
<1>5. CASE ApiStep
  <2>1. permit' = permit
    BY <1>5 DEF ApiStep, tickVars
  <2>2. CASE \E enabled \in BOOLEAN : SetGlobalEnabled(enabled)
    BY <1>2, <2>1, <2>2 DEF SetGlobalEnabled, RestartCounters
  <2>3. CASE \E w \in Warehouse : CaptureWarehouseIdentity(w) \/ AbandonToggle(w)
    BY <1>1, <2>1, <2>3 DEF CaptureWarehouseIdentity, AbandonToggle, settingVars, tableVars, consentVars
  <2>4. CASE \E w \in Warehouse : UpsertEnrollment(w) \/ Unenroll(w)
    BY <1>2, <2>1, <2>4 DEF UpsertEnrollment, Unenroll, RestartCounters
  <2> QED
    BY <1>5, <2>2, <2>3, <2>4 DEF ApiStep
<1>6. ASSUME NEW how, EndTick(how), late' = late PROVE [Permit!Next]_Permit!vars
  <2>1. UNCHANGED <<global_enabled, enrollments>> /\ pc' = "idle"
    BY <1>6 DEF EndTick, settingVars, tableVars
  <2>2. CASE pc = "suspending"
    BY <1>3, <1>6, <2>1, <2>2 DEF Permit!Next
  <2>3. CASE pc # "suspending"
    BY <1>1, <1>6, <2>1, <2>3
  <2> QED
    BY <2>2, <2>3
<1>7. CASE TickStep
  <2> USE DEF settingVars, tableVars, consentVars
  <2>1. CASE ShowWarehouses \/ ListEnrollments \/ RecordAcceptedEvent \/ (\E w \in Warehouse : Skip(w))
    BY <1>1, <2>1 DEF ShowWarehouses, ListEnrollments, RecordAcceptedEvent, Skip
  <2>2. ASSUME NEW w \in Warehouse, DeleteStaleEnrollment(w) PROVE [Permit!Next]_Permit!vars
    <3>1. \A v \in Warehouse : Consent(v)' => Consent(v)
      BY <1>0, <2>2 DEF DeleteStaleEnrollment, Consent, TypeOK
    <3>2. \A v \in Warehouse : Consent(v)' => late[v] = 0
      BY <1>0, <3>1 DEF LateInv
    <3>3. late' = [v \in Warehouse |-> IF Consent(v)' THEN 0 ELSE late[v]]
      BY <1>0, <2>2, <3>2 DEF DeleteStaleEnrollment, TypeOK
    <3> QED
      BY <1>2, <2>2, <3>3 DEF DeleteStaleEnrollment
  <2>3. ASSUME NEW w \in Warehouse, AuthorizeSuspend(w) PROVE [Permit!Next]_Permit!vars
    <3>1. CASE Authorized(w)
      <4>1. permit = NoRow /\ permit' = w /\ consent[w] /\ consent' = consent /\ late' = late
        BY <2>3, <3>1 DEF AuthorizeSuspend, Authorized, RowMatches, Consent
      <4> QED
        BY <4>1 DEF Permit!Next, Permit!Grant
    <3>2. CASE ~Authorized(w)
      BY <1>1, <2>3, <3>2 DEF AuthorizeSuspend
    <3> QED
      BY <3>1, <3>2
  <2>4. CASE SuspendAccepted \/ SuspendUnknown \/ SuspendError
    BY <1>3, <2>4 DEF SuspendAccepted, SuspendUnknown, SuspendError, EndTick, Permit!Next
  <2>5. CASE FinishCycle
    BY <1>6, <2>5 DEF FinishCycle
  <2> QED
    BY <1>7, <2>1, <2>2, <2>3, <2>4, <2>5 DEF TickStep
<1>8. CASE AbortTick
  BY <1>6, <1>8 DEF AbortTick
<1>9. CASE UNCHANGED vars
  BY <1>1, <1>9 DEF vars
<1> QED
  BY <1>4, <1>5, <1>7, <1>8, <1>9 DEF Next

\* The worker's commands follow the permit protocol of SuspendPermit, whatever
\* the toggles, recreations and failures around it.
THEOREM Refinement == Spec => ImplementsPermit
<1>1. Init => Permit!Init
  BY DEF Init, Permit!Init, Consent
<1> QED
  BY Invariance, PermitStep, <1>1, PTL DEF Spec, ImplementsPermit, Permit!Spec

(***************************************************************************)
(* The tick's ledger.                                                       *)
(***************************************************************************)
\* What this tick has done so far: each warehouse is taken once, so what is
\* recorded of it stays as it is.
LedgerInv ==
    /\ \A w \in audited : outcome[w] = "accepted"
    /\ pc = "idle" /\ result # "raised" =>
         (result = "RETRY_BACKOFF" <=> \E w \in Warehouse : outcome[w] = "unknown")
    /\ pc \in {"idle", "shown"} => ~backoff_required
    /\ pc = "shown" => \A w \in Warehouse : outcome[w] = "none"
    /\ pc \in {"deciding", "suspending", "recording"} =>
         /\ backoff_required <=> \E w \in Warehouse : outcome[w] = "unknown"
         /\ \A w \in pending : outcome[w] = "none"
    /\ pc = "suspending" => target \notin pending /\ outcome[target] = "none"
    /\ pc = "recording" => target \notin pending /\ outcome[target] = "accepted"

\* Nothing of the tick moves.
TickStands == UNCHANGED <<pc, snapshot, listed, pending, target, backoff_required, result, outcome,
                          audited>>

LEMMA StandsKeep == LedgerInv /\ TickStands => LedgerInv'
BY DEF TickStands, LedgerInv

\* The outcome of the command in hand is its warehouse's first.
LEMMA CommandOutcome ==
  ASSUME TypeOK, NEW how, outcome' = [outcome EXCEPT ![target] = how], target \in Warehouse
  PROVE  /\ outcome'[target] = how
         /\ \A w \in Warehouse : w # target => outcome'[w] = outcome[w]
BY DEF TypeOK

LEMMA LedgerStep == TypeOK /\ LedgerInv /\ [Next]_vars => LedgerInv'
<1> SUFFICES ASSUME TypeOK, LedgerInv, [Next]_vars PROVE LedgerInv'
    OBVIOUS
<1> USE NoRowAssumption DEF snowflakeVars, settingVars, tableVars, tickVars, ledgerVars, consentVars
<1>1. audited \subseteq Warehouse /\ pending \subseteq Warehouse
      /\ (pc \in {"suspending", "recording"} => target \in Warehouse)
  BY DEF TypeOK
<1>2. CASE UNCHANGED vars \/ SnowflakeStep \/ ApiStep
  BY <1>2, StandsKeep DEF vars, SnowflakeStep, ApiStep, TickStands
<1>3. ASSUME NEW how, EndTick(how), UNCHANGED audited, \A w \in audited : outcome'[w] = "accepted",
             how # "raised" =>
               (how = "RETRY_BACKOFF" <=> \E w \in Warehouse : outcome'[w] = "unknown")
      PROVE  LedgerInv'
  BY <1>3 DEF EndTick, LedgerInv
<1>4. CASE AbortTick
  BY <1>3, <1>4 DEF AbortTick, LedgerInv
<1>5. CASE ShowWarehouses
  BY <1>5 DEF ShowWarehouses, LedgerInv
<1>6. CASE ListEnrollments
  BY <1>6 DEF ListEnrollments, LedgerInv
<1>7. ASSUME NEW w \in Warehouse, Skip(w) \/ DeleteStaleEnrollment(w) PROVE LedgerInv'
  BY <1>7 DEF Skip, DeleteStaleEnrollment, LedgerInv
<1>8. ASSUME NEW w \in Warehouse, AuthorizeSuspend(w) PROVE LedgerInv'
  BY <1>8 DEF AuthorizeSuspend, LedgerInv
<1>9. CASE SuspendAccepted
  <2>1. /\ target \in Warehouse /\ outcome[target] = "none" /\ target \notin pending
        /\ target \notin audited
    BY <1>1, <1>9 DEF SuspendAccepted, LedgerInv
  <2>2. /\ outcome'[target] = "accepted"
        /\ \A w \in Warehouse : w # target => outcome'[w] = outcome[w]
    BY <1>9, <2>1, CommandOutcome DEF SuspendAccepted
  <2> QED
    BY <1>1, <1>9, <2>1, <2>2 DEF SuspendAccepted, LedgerInv
<1>10. CASE SuspendUnknown
  <2>1. /\ target \in Warehouse /\ outcome[target] = "none" /\ target \notin pending
        /\ target \notin audited
    BY <1>1, <1>10 DEF SuspendUnknown, LedgerInv
  <2>2. /\ outcome'[target] = "unknown"
        /\ \A w \in Warehouse : w # target => outcome'[w] = outcome[w]
    BY <1>10, <2>1, CommandOutcome DEF SuspendUnknown
  <2> QED
    BY <1>1, <1>10, <2>1, <2>2 DEF SuspendUnknown, LedgerInv
<1>11. CASE SuspendError
  <2>1. target \in Warehouse /\ outcome[target] = "none" /\ target \notin audited
    BY <1>1, <1>11 DEF SuspendError, LedgerInv
  <2>2. \A w \in Warehouse : w # target => outcome'[w] = outcome[w]
    BY <1>11, <2>1, CommandOutcome DEF SuspendError
  <2> QED
    BY <1>1, <1>3, <1>11, <2>1, <2>2 DEF SuspendError, LedgerInv
<1>12. CASE RecordAcceptedEvent
  BY <1>1, <1>12 DEF RecordAcceptedEvent, LedgerInv
<1>13. CASE FinishCycle
  BY <1>3, <1>13 DEF FinishCycle, LedgerInv
<1> QED
  BY <1>2, <1>4, <1>5, <1>6, <1>7, <1>8, <1>9, <1>10, <1>11, <1>12, <1>13 DEF Next, TickStep

LEMMA LedgerHolds == Spec => [](TypeOK /\ LedgerInv)
<1>1. Init => LedgerInv
  BY DEF Init, LedgerInv
<1> QED
  BY TypeInit, TypeStep, LedgerStep, <1>1, PTL DEF Spec

\* automated_savings_events and the cadence tell the truth: an event only for an
\* accepted command, and a backoff exactly when an outcome is unknown.
THEOREM LedgerIsHonest == Spec => []AuditAndCadence
<1>1. LedgerInv => AuditAndCadence
  BY DEF LedgerInv, AuditAndCadence
<1> QED
  BY <1>1, LedgerHolds, PTL
=============================================================================
