---------------------------- MODULE SuspendPermit ----------------------------
(***************************************************************************)
(* What Automated Savings promises about its commands, with no ticks,       *)
(* listings or row versions: a command spends a permit, a permit is granted *)
(* only while the organization consents to suspending that warehouse, and   *)
(* there is one permit at a time. Withdrawing consent does not revoke it.   *)
(***************************************************************************)
EXTENDS Naturals

CONSTANTS Warehouse, NoRow

VARIABLES
    consent,   \* warehouses the organization currently lets the worker suspend
    permit,    \* the warehouse whose command is authorized but not sent
    late       \* commands sent per warehouse since consent ended

vars == <<consent, permit, late>>

Init ==
    /\ consent = [w \in Warehouse |-> FALSE]
    /\ permit = NoRow
    /\ late = [w \in Warehouse |-> 0]

\* Switches are flipped, warehouses enrolled, disabled or their rows removed.
ChangeConsent ==
    /\ consent' \in [Warehouse -> BOOLEAN]
    /\ late' = [w \in Warehouse |-> IF consent'[w] THEN 0 ELSE late[w]]
    /\ UNCHANGED permit

Grant(w) ==
    /\ permit = NoRow
    /\ consent[w]
    /\ permit' = w
    /\ UNCHANGED <<consent, late>>

Send ==
    /\ permit # NoRow
    /\ permit' = NoRow
    /\ late' = IF consent[permit] THEN late ELSE [late EXCEPT ![permit] = @ + 1]
    /\ UNCHANGED consent

\* The worker fails before the command leaves.
Lose ==
    /\ permit # NoRow
    /\ permit' = NoRow
    /\ UNCHANGED <<consent, late>>

Next == ChangeConsent \/ (\E w \in Warehouse : Grant(w)) \/ Send \/ Lose

Spec == Init /\ [][Next]_vars
=============================================================================
