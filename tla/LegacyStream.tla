---------------------------- MODULE LegacyStream ----------------------------
(***************************************************************************)
(* The archived BFF's report stream, GET /api/reports/stream, beside the   *)
(* handlers of LegacyBff whose tokens it checks. It is the one handler     *)
(* that goes on after it returned: an interval writes rows until the       *)
(* request's close event clears it.                                        *)
(*                                                                         *)
(* The rows' contents and the filters are left out; filters that are no    *)
(* JSON are refused before anything is opened.                             *)
(***************************************************************************)
EXTENDS LegacyBff, Sequences

CONSTANTS
  Streams,     \* requests for a stream: a bound
  AccessLife,  \* seconds an access token lives: JWT_EXPIRES_IN
  NoJwt,       \* no header, no cookie
  MaxRows      \* bound on the rows of a stream

ASSUME StreamAssumption ==
  /\ AccessLife \in Nat \ {0} /\ MaxRows \in Nat \ {0}
  /\ NoJwt \notin [type : {"access", "refresh"}, payload : Tokens]

VARIABLES
  socket,  \* stream -> its connection
  timer,   \* stream -> its interval runs
  count,   \* stream -> rows sent
  got      \* stream -> totalCount of each row its client got

streamVars == <<socket, timer, count, got>>

StreamInit ==
  /\ Init
  /\ socket = [c \in Streams |-> "none"]
  /\ timer = [c \in Streams |-> FALSE]
  /\ count = [c \in Streams |-> 0]
  /\ got = [c \in Streams |-> <<>>]

-----------------------------------------------------------------------------
\* createAuthResponse and its GraphQL twins sign the two tokens together.
Jwts == [type : {"access", "refresh"}, payload : signed]

\* Whether a JWT has expired, and no more: jwt.verify with the one secret.
verifyJwt(jwt) ==
  LET life == IF jwt.type = "access" THEN AccessLife ELSE RefreshLife IN
    seconds < jwt.payload.iat + life

getBearerToken(authorization, cookie) ==
  IF authorization # NoJwt THEN authorization ELSE cookie

requireJwt(jwt) == jwt \in Jwts /\ verifyJwt(jwt)

Mutant_send(c) ==
  /\ count' = [count EXCEPT ![c] = 1]
  /\ got' = [got EXCEPT ![c] = IF socket'[c] = "open" THEN Append(@, 1) ELSE @]

send(c) ==
  /\ count' = [count EXCEPT ![c] = @ + 1]
  /\ got' = [got EXCEPT ![c] = IF socket'[c] = "open" THEN Append(@, count'[c]) ELSE @]

\* The first row is sent at once.
stream(c, authorization, cookie) ==
  /\ socket[c] = "none"
  /\ requireJwt(getBearerToken(authorization, cookie))
  /\ socket' = [socket EXCEPT ![c] = "open"]
  /\ send(c)
  /\ timer' = [timer EXCEPT ![c] = TRUE]

interval(c) ==
  /\ timer[c] /\ count[c] < MaxRows
  /\ UNCHANGED <<socket, timer>>
  /\ send(c)

\* The client leaves, or the network does.
drop(c) ==
  /\ socket[c] = "open"
  /\ socket' = [socket EXCEPT ![c] = "dropped"]
  /\ UNCHANGED <<timer, count, got>>

Mutant_close(c) ==
  /\ socket[c] = "dropped"
  /\ socket' = [socket EXCEPT ![c] = "closed"]
  /\ UNCHANGED <<timer, count, got>>

\* The request's close event.
close(c) ==
  /\ socket[c] = "dropped"
  /\ socket' = [socket EXCEPT ![c] = "closed"]
  /\ timer' = [timer EXCEPT ![c] = FALSE]
  /\ UNCHANGED <<count, got>>

StreamStep(c) ==
  \/ \E authorization \in Jwts \union {NoJwt}, cookie \in Jwts \union {NoJwt} :
       stream(c, authorization, cookie)
  \/ interval(c) \/ drop(c) \/ close(c)

StreamNext ==
  \/ Next /\ UNCHANGED streamVars
  \/ (\E c \in Streams : StreamStep(c)) /\ UNCHANGED vars

StreamSpec == StreamInit /\ [][StreamNext]_<<vars, streamVars>>

\* Node emits close for every connection that is gone.
FairStreamSpec ==
  StreamSpec /\ \A c \in Streams : WF_<<vars, streamVars>>(close(c) /\ UNCHANGED vars)

-----------------------------------------------------------------------------
(* Every variable of the streams has its type. *)
StreamTypeOK ==
  /\ socket \in [Streams -> {"none", "open", "dropped", "closed"}]
  /\ timer \in [Streams -> BOOLEAN]
  /\ count \in [Streams -> 0 .. MaxRows]
  /\ got \in [Streams -> Seq(1 .. MaxRows)]

(* A client has got rows 1, 2, 3 ..., by totalCount, and as long as it is  *)
(* connected all of them; the interval that writes them runs until it left *)
(* (count, which is the handler's, and send, which the handler and its     *)
(* interval call).                                                         *)
RowsAreCounted ==
  \A c \in Streams :
    /\ \A n \in DOMAIN got[c] : got[c][n] = n
    /\ socket[c] = "open" => timer[c] /\ Len(got[c]) = count[c]

(* The types, and RowsAreCounted. *)
StreamInv == StreamTypeOK /\ RowsAreCounted

(* Whoever leaves takes his interval with him: no timer runs for ever on a *)
(* connection that is gone (req.on('close'), line 226).                    *)
IntervalsEnd == \A c \in Streams : socket[c] = "dropped" ~> ~ timer[c]
=============================================================================
