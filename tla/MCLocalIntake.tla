---------------------------- MODULE MCLocalIntake ----------------------------
(* Symmetry for the model-checking run of the development adapters. *)
EXTENDS LocalIntake, TLC

Symmetry == Permutations(Req) \cup Permutations(Org)
=============================================================================
