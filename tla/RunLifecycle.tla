---------------------------- MODULE RunLifecycle ----------------------------
(***************************************************************************)
(* What a dashboard client may rely on while it polls a run, without jobs,  *)
(* locks or clocks: the run's status, and the gating sources it may render. *)
(* Sources land one by one while the run is running; the end of the run     *)
(* settles them in one step, for good; dropping the run takes them all.     *)
(***************************************************************************)
CONSTANTS AccountGating, OrgGating   \* gating sources of the two source groups

VARIABLES status, ready

vars == <<status, ready>>

Gating == AccountGating \cup OrgGating

\* A group is rendered whole or not at all, and a completed run has one.
Rendered == {AccountGating, OrgGating, Gating}

\* A run starts empty, or comes settled from the cache.
Init == \/ status = "running" /\ ready = {}
        \/ status = "completed" /\ ready \in Rendered

Land(s) ==
    /\ status = "running"
    /\ ready' = ready \cup {s}
    /\ UNCHANGED status

Complete ==
    /\ status = "running"
    /\ status' = "completed"
    /\ ready' \in Rendered

Abort ==
    /\ status = "running"
    /\ status' = "failed"
    /\ ready' = {}

Drop ==
    /\ \/ status' = "deleted"
       \/ status \notin {"deleted", "expired"} /\ status' = "expired"
    /\ ready' = {}

Next == (\E s \in Gating : Land(s)) \/ Complete \/ Abort \/ Drop

Spec == Init /\ [][Next]_vars
=============================================================================
