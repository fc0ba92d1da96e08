--------------------------- MODULE MC_SuspendCycle ---------------------------
EXTENDS SuspendCycle, TLC

\* Names are interchangeable and no liveness property is checked with this set.
WarehouseSymmetry == Permutations(Warehouse)
=============================================================================
