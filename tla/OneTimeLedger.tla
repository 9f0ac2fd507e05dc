--------------------------- MODULE OneTimeLedger ---------------------------
(***************************************************************************)
(* The one-time session the documents promise: opened once, open until it  *)
(* is redeemed, given up or runs out, and redeemed in the step that closes *)
(* it. PkceLedger is the weaker promise a session store with an await      *)
(* between its get and its del can keep; a synchronous one keeps this.     *)
(***************************************************************************)
CONSTANT Sessions

VARIABLES status,    \* per session: "unused", "open" or "closed"
          redeemed   \* sessions that were answered with tokens

lvars == <<status, redeemed>>

Init == status = [s \in Sessions |-> "unused"] /\ redeemed = {}

Open(s) ==
  /\ status[s] = "unused"
  /\ status' = [status EXCEPT ![s] = "open"]
  /\ UNCHANGED redeemed

Redeem(s) ==
  /\ status[s] = "open"
  /\ status' = [status EXCEPT ![s] = "closed"]
  /\ redeemed' = redeemed \union {s}

Close(S) ==
  /\ \A s \in S : status[s] = "open"
  /\ status' = [s \in Sessions |-> IF s \in S THEN "closed" ELSE status[s]]
  /\ UNCHANGED redeemed

Next ==
  \/ \E s \in Sessions : Open(s) \/ Redeem(s)
  \/ \E S \in SUBSET Sessions : Close(S)

Spec == Init /\ [][Next]_lvars
============================================================================
