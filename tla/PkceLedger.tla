---------------------------- MODULE PkceLedger ----------------------------
(***************************************************************************)
(* What a PKCE session promises, without a cache.  A session is opened     *)
(* once, can be claimed by login attempts while it is open, is closed once *)
(* and never opens again.  An attempt that holds a claim turns it into     *)
(* tokens at most once, and only after the session has been closed.        *)
(*                                                                         *)
(* The ledger does not promise that one attempt claims a session: two      *)
(* attempts may both read it before either deletes it.  AuthService        *)
(* implements exactly this ledger, and a run shows that it does not        *)
(* implement the stronger one.                                             *)
(***************************************************************************)
CONSTANTS Sessions,   \* PKCE session ids
          Attempts    \* exchange requests

VARIABLES status,     \* per session: "unused", "open" or "closed"
          claims,     \* <<attempt, session>>: read while open, undecided
          redeemed    \* <<attempt, session>>: answered with tokens

lvars == <<status, claims, redeemed>>

LedgerTypeOK ==
  /\ status \in [Sessions -> {"unused", "open", "closed"}]
  /\ claims \subseteq Attempts \X Sessions
  /\ redeemed \subseteq Attempts \X Sessions

Init ==
  /\ status = [s \in Sessions |-> "unused"]
  /\ claims = {}
  /\ redeemed = {}

Open(s) ==
  /\ status[s] = "unused"
  /\ status' = [status EXCEPT ![s] = "open"]
  /\ UNCHANGED <<claims, redeemed>>

\* An attempt claims one session in its life.
Claim(a, s) ==
  /\ status[s] = "open"
  /\ \A t \in Sessions : <<a, t>> \notin claims \union redeemed
  /\ claims' = claims \union {<<a, s>>}
  /\ UNCHANGED <<status, redeemed>>

Redeem(a, s) ==
  /\ <<a, s>> \in claims
  /\ status[s] = "closed"
  /\ claims' = claims \ {<<a, s>>}
  /\ redeemed' = redeemed \union {<<a, s>>}
  /\ UNCHANGED status

\* Sessions are consumed, expire or are lost; claims are rejected or die
\* with the process that held them.
Lose(S, C) ==
  /\ status' = [s \in Sessions |-> IF s \in S THEN "closed" ELSE status[s]]
  /\ claims' = claims \ C
  /\ UNCHANGED redeemed

Next ==
  \/ \E s \in Sessions : Open(s)
  \/ \E a \in Attempts, s \in Sessions : Claim(a, s) \/ Redeem(a, s)
  \/ \E S \in SUBSET Sessions, C \in SUBSET claims : Lose(S, C)

Spec == Init /\ [][Next]_lvars
---------------------------------------------------------------------------
\* A closed session stays closed, whoever still holds a claim on it, and
\* from then on nobody gains a claim or is answered with tokens for it
\* except out of a claim taken while it was open (consumeSession: the record
\* is gone from the cache, so every later read misses).
NoLateClaim ==
  [][\A s \in Sessions : status[s] = "closed" =>
       /\ status'[s] = "closed"
       /\ \A a \in Attempts :
            /\ <<a, s>> \in claims' => <<a, s>> \in claims
            /\ <<a, s>> \in redeemed' => <<a, s>> \in claims \union redeemed]_lvars
===========================================================================
