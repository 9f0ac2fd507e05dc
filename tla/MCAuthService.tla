-------------------------- MODULE MCAuthService --------------------------
(* Instances of AuthService for TLC. *)
EXTENDS AuthService, TLC

CONSTANTS i1, i2, x1, x2, f1, f2, l1, p1, p2, ann, bob, bad

\* Whose requests go where: one replica, or the exchanges and refreshes of
\* one session spread over two.
MC_oneHome == [r \in Requests |-> p1]
MC_twoHomes == [r \in Requests |-> IF r \in {x2, f1, f2} THEN p2 ELSE p1]

\* The allow-list is shortened by a redeploy, or empty: then all may sign in.
MC_fixedList == {{ann}}
MC_lists == {{ann}, {}}

MC_symmetry == Permutations(Exchanges) \union Permutations(Refreshes)
==========================================================================
