------------------------------ MODULE BffHttp ------------------------------
(***************************************************************************)
(* The HTTP edge of the BFF (main.ts): GET /health with the services it    *)
(* probes (Microservices) and GET /api/auth/me with the tabs of a browser  *)
(* that ask it, each with a session of its own in sessionStorage and one   *)
(* cookie between them. Every request passes RequestValidationMiddleware   *)
(* and, for /me, JwtAuthGuard; both decide without an await.               *)
(*                                                                         *)
(* exchange sets the access token as a cookie, refresh does not, and       *)
(* logout clears the tab's session and not the cookie. What the two do     *)
(* with refresh tokens is AuthService's. Headers that are only added       *)
(* (request id, helmet, CORS) are left out. jwtService.verify knows only   *)
(* signature and expiry.                                                   *)
(***************************************************************************)
EXTENDS Microservices

CONSTANTS
  Users,
  Tabs,
  Askers,      \* tabs that call getCurrentUser: a bound, the others only sign in and out
  expiresIn,   \* jwt.expiresIn
  maxAge,      \* of the cookie: an hour in the code whatever expiresIn is
  NoToken,     \* no session, no cookie, no header
  OtherScheme, \* an Authorization header that is not a Bearer one
  MaxTime,     \* bound on the clock
  MaxRequests  \* bound on the requests the BFF receives

ASSUME HttpAssumption ==
  /\ expiresIn \in Nat \ {0} /\ maxAge \in Nat \ {0} /\ MaxTime \in Nat
  /\ MaxRequests \in Nat
  /\ NoToken # OtherScheme /\ Askers \subseteq Tabs
  /\ Users \intersect {"none", "pending", "401"} = {}

Tokens == [user : Users, exp : 1 .. (MaxTime + expiresIn)]

ASSUME TokensAssumption == NoToken \notin Tokens /\ OtherScheme \notin Tokens

VARIABLES
  now,
  received,      \* requests so far
  session,       \* tab -> access token in its sessionStorage
  cookie,        \* the browser's accessToken cookie and when it is dropped
  granting,      \* tab -> answer of exchange or refresh on its way to it
  asked,         \* tab -> its last getCurrentUser: the headers it sent
  answer         \* tab -> the user it was answered, or a refusal

tabVars == <<now, session, cookie, granting, asked, answer>>
httpVars == <<serviceVars, tabVars, received>>

None == [from |-> "none", token |-> NoToken]
refusals == {"none", "pending", "401"}

HttpInit ==
  /\ Init
  /\ now = 0 /\ received = 0
  /\ session = [t \in Tabs |-> NoToken]
  /\ cookie = [token |-> NoToken, until |-> 0]
  /\ granting = [t \in Tabs |-> None]
  /\ asked = [t \in Askers |-> [authorization |-> NoToken, cookie |-> NoToken]]
  /\ answer = [t \in Askers |-> "none"]

-----------------------------------------------------------------------------
(* Tokens *)

signAccessToken(u) == [user |-> u, exp |-> now + expiresIn]

\* The BFF answers a sign-in of the tab, or a refresh of its session.
exchange(t, u) ==
  /\ granting[t] = None
  /\ granting' = [granting EXCEPT ![t] = [from |-> "exchange", token |-> signAccessToken(u)]]
  /\ UNCHANGED <<serviceVars, now, session, cookie, asked, answer>>

refresh(t) ==
  /\ granting[t] = None /\ session[t] # NoToken
  /\ granting' = [granting EXCEPT ![t] =
       [from |-> "refresh", token |-> signAccessToken(session[t].user)]]
  /\ UNCHANGED <<serviceVars, now, session, cookie, asked, answer>>

setAccessTokenCookie(token) == [token |-> token, until |-> now + maxAge]

\* The answer arrives: Set-Cookie if exchange sent it, then persistAuthSession,
\* also in a tab that logged out meanwhile.
persistAuthSession(t) ==
  /\ granting[t] # None
  /\ cookie' = IF granting[t].from = "exchange"
               THEN setAccessTokenCookie(granting[t].token) ELSE cookie
  /\ session' = [session EXCEPT ![t] = granting[t].token]
  /\ granting' = [granting EXCEPT ![t] = None]
  /\ UNCHANGED <<serviceVars, now, asked, answer>>

lost(t) ==
  /\ granting[t] # None
  /\ granting' = [granting EXCEPT ![t] = None]
  /\ UNCHANGED <<serviceVars, now, session, cookie, asked, answer>>

clearAuthSession(t) ==
  /\ session[t] # NoToken
  /\ session' = [session EXCEPT ![t] = NoToken]
  /\ UNCHANGED <<serviceVars, now, cookie, granting, asked, answer>>

-----------------------------------------------------------------------------
(* GET /api/auth/me *)

getAccessToken(t) == session[t]

\* request of bff-client: the tab's token unless the caller set the header.
getCurrentUser(t, authorization) ==
  /\ answer[t] # "pending"
  /\ asked' = [asked EXCEPT ![t] =
       [authorization |-> authorization,
        cookie |-> IF now < cookie.until THEN cookie.token ELSE NoToken]]
  /\ answer' = [answer EXCEPT ![t] = "pending"]
  /\ UNCHANGED <<serviceVars, now, session, cookie, granting>>

Mutant_extractToken(headers) ==
  IF headers.cookie # NoToken THEN headers.cookie ELSE headers.authorization

extractToken(headers) ==
  IF headers.authorization # NoToken THEN headers.authorization ELSE headers.cookie

getUserFromAccessToken(token) ==
  IF token \in Tokens /\ now < token.exp THEN token.user ELSE "401"

canActivate(headers) == getUserFromAccessToken(extractToken(headers))

\* RequestValidationMiddleware: one with a body and no Content-Type passes too,
\* the body is parsed later.
validated(headers) == headers.authorization # OtherScheme

\* The middleware in the order of bootstrap, then the guard of the route.
pipeline(headers) == IF validated(headers) THEN canActivate(headers) ELSE "401"

me(t) ==
  /\ answer[t] = "pending"
  /\ answer' = [answer EXCEPT ![t] = pipeline(asked[t])]
  /\ UNCHANGED <<serviceVars, now, session, cookie, granting, asked>>

Tick ==
  /\ now < MaxTime
  /\ now' = now + 1
  /\ UNCHANGED <<serviceVars, session, cookie, granting, asked, answer>>

\* What is a request to the BFF, and what is not.
TabRequest ==
  \/ \E t \in Tabs : refresh(t) \/ \E u \in Users : exchange(t, u)
  \/ \E t \in Askers :
       \/ getCurrentUser(t, getAccessToken(t))
       \/ getCurrentUser(t, OtherScheme)

TabStep ==
  \/ \E t \in Tabs : persistAuthSession(t) \/ lost(t) \/ clearAuthSession(t)
  \/ \E t \in Askers : me(t)
  \/ Tick

HttpNext ==
  \/ /\ received < MaxRequests /\ received' = received + 1
     /\ TabRequest \/ (Receive /\ UNCHANGED tabVars)
  \/ /\ UNCHANGED received
     /\ TabStep \/ (Serve /\ UNCHANGED tabVars)

HttpSpec == HttpInit /\ [][HttpNext]_httpVars

-----------------------------------------------------------------------------
(* Every variable has its type. *)
HttpTypeOK ==
  /\ TypeOK
  /\ now \in 0 .. MaxTime /\ received \in 0 .. MaxRequests
  /\ session \in [Tabs -> Tokens \union {NoToken}]
  /\ cookie \in [token : Tokens \union {NoToken}, until : 0 .. (MaxTime + maxAge)]
  /\ granting \in [Tabs -> [from : {"exchange", "refresh"}, token : Tokens] \union {None}]
  /\ asked \in [Askers -> [authorization : Tokens \union {NoToken, OtherScheme},
                         cookie : Tokens \union {NoToken}]]
  /\ answer \in [Askers -> Users \union refusals]

(* A tab that had a session when it asked is never answered with the user  *)
(* of the cookie, the last one to sign in in any tab: JwtAuthGuard reads   *)
(* the header first, and an invalid one does not fall back on the cookie.  *)
OwnUser ==
  \A t \in Askers :
    asked[t].authorization \in Tokens =>
      answer[t] \in refusals \union {asked[t].authorization.user}

(* The types, and OwnUser. *)
HttpInv == HttpTypeOK /\ OwnUser

\* The answer to t is for a token t sent.
TokenIsLive(t) ==
  \E token \in {asked[t].authorization, asked[t].cookie} :
    /\ token \in Tokens
    /\ token.user = answer'[t]
    /\ now < token.exp /\ token.exp <= now + expiresIn

(* A tab is answered with a user only for a token it sent that was signed  *)
(* for that user and has not expired, however long the cookie is kept or   *)
(* the request was under way; and it is not refused while the token of its *)
(* session is valid, whatever became of the cookie, which a refresh leaves *)
(* as it is.                                                               *)
ServedWhileLive ==
  [][\A t \in Askers : answer'[t] # answer[t] =>
       /\ answer'[t] \in Users => TokenIsLive(t)
       /\ answer'[t] = "401" /\ asked[t].authorization \in Tokens =>
            asked[t].authorization.exp <= now]_httpVars
=============================================================================
