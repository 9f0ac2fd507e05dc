--------------------------- MODULE MCAuthClient ---------------------------
(* Instances of AuthClient for TLC. *)
EXTENDS AuthClient, TLC

CONSTANTS s1, s2, f1, f2, l1

MC_symmetry == Permutations(SignIns \ External) \union Permutations(Refreshes)
===========================================================================
