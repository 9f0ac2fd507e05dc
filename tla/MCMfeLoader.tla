---------------------------- MODULE MCMfeLoader ----------------------------
(* Instances of MfeLoader for TLC. *)
EXTENDS MfeLoader, TLC

CONSTANTS d1, d2, d3, d4

MC_symmetry == Permutations(Loads)
============================================================================
