----------------------------- MODULE MC_RunCache -----------------------------
(* Runs, snapshots and readers are interchangeable among themselves.         *)
EXTENDS RunCache, TLC

Symmetry == Permutations(Run) \cup Permutations(Snapshot) \cup Permutations(Reader)

\* Bound: two requests at a time, two readers or a reader and a fold; memberships
\* are fetched while no fold is under way, which never looks at them.
TwoAtATime ==
    LET folds == {d \in Trigger : trigger[d].pc # "idle"}
    IN  /\ Cardinality({q \in Reader : reader[q].pc # "idle"}) + Cardinality(folds) <= 2
        /\ membership.fetch # "none" => folds = {}
==============================================================================
