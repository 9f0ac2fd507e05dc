---------------------------- MODULE MCLegacyBff ----------------------------
(* Instances of LegacyBff and LegacyStream for TLC. *)
EXTENDS LegacyStream

CONSTANTS s1, s2
============================================================================
