----------------------------- MODULE MCFrontend -----------------------------
(* Instances of Frontend for TLC. *)
EXTENDS Frontend

CONSTANTS tab, other

\* Two tabs, or a tab and a frame in it.
MC_settings ==
  [channel : {"auth", "analytics"},
   parent : {[w \in Windows |-> w], [w \in Windows |-> tab]}]
=============================================================================
