------------------------------- MODULE MCBff -------------------------------
(* Instances of Bff for TLC. *)
EXTENDS Bff

CONSTANTS analytics, reports, s1, s2, p1, p2

MC_services == <<analytics, reports>>

\* Two connections to one replica, none to the other.
MC_home == [s \in Sockets |-> p1]
============================================================================
