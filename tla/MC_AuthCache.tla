---------------------------- MODULE MC_AuthCache ----------------------------
EXTENDS AuthCache, TLC

\* Requests are interchangeable and no liveness property is checked.
RequestSymmetry == Permutations(Request)
=============================================================================
