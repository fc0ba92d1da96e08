---------------------------- MODULE MC_Onboarding ----------------------------
(* Request threads are interchangeable.                                      *)
EXTENDS Onboarding, TLC

Symmetry == Permutations(Request)
==============================================================================
