---------------------------- MODULE AuthService ----------------------------
(***************************************************************************)
(* The authentication endpoints of the BFF (services/bff/src/modules/auth) *)
(* over the cache they share: initiate, exchange, refresh and logout.      *)
(*                                                                         *)
(* A request is a process.  The code between two awaits is one action, and *)
(* the effect of each awaited cache operation on the store is another, so  *)
(* requests interleave wherever the event loop, or a second replica of the *)
(* BFF, lets them.  Every request id is used for one request.              *)
(*                                                                         *)
(* Data: a PKCE session id is the id of the initiate request that created  *)
(* it (randomUUID); state, verifier and code of an exchange are the        *)
(* booleans "matches" / "present"; a refresh token is what its text is a   *)
(* function of, the e-mail and the second of signing, because jwtService   *)
(* signs {sub, email, roles, type} deterministically with a second-        *)
(* granular iat; a cache entry is its expiry time, 0 when absent.          *)
(***************************************************************************)
EXTENDS Integers, FiniteSets

CONSTANTS
  Initiates, Exchanges, Refreshes, Logouts,  \* request ids, by endpoint
  Replicas,       \* BFF processes
  home,           \* home[r]: the replica the load balancer gives request r
  Emails,         \* normalised e-mail addresses
  Malformed,      \* those PkceInitiateSchema rejects
  AllowLists,     \* values DEMO_ALLOWED_EMAILS takes over the deployments
  PkceTtl,        \* seconds a PKCE session lives in the cache
  RefreshTtl,     \* seconds a refresh:<token> entry lives in the cache
  RefreshLife,    \* seconds until the refresh JWT's own exp
  MemoryCache,    \* USE_MEMORY_CACHE: the cache dies with the process
  MaxTime,        \* bound on the clock
  NoToken, Forged, NoDto  \* no token; a string never signed; no body yet

Requests == Initiates \union Exchanges \union Refreshes \union Logouts
Minters == Exchanges \union Refreshes
Tokens == [email : Emails, iat : 0..MaxTime]
Providers == {"local", "keycloak"}

ASSUME KindsAreDisjoint ==
  /\ Initiates \intersect Exchanges = {}
  /\ Initiates \intersect Refreshes = {}
  /\ Initiates \intersect Logouts = {}
  /\ Exchanges \intersect Refreshes = {}
  /\ Exchanges \intersect Logouts = {}
  /\ Refreshes \intersect Logouts = {}
ASSUME Deployment ==
  /\ home \in [Requests -> Replicas]
  /\ Malformed \subseteq Emails
  /\ AllowLists \subseteq SUBSET Emails
  /\ MemoryCache \in BOOLEAN
  /\ MemoryCache => \A p, q \in Replicas : p = q
ASSUME Durations ==
  /\ MaxTime \in Nat
  /\ PkceTtl \in Nat \ {0}
  /\ RefreshTtl \in Nat \ {0}
  /\ RefreshLife \in Nat
\* Both come from jwt.refreshExpiresIn, a number of minutes, hours or days:
\* parseDurationMs and jsonwebtoken read these alike.
ASSUME Lifetimes == RefreshLife <= RefreshTtl
ASSUME Nulls == NoToken \notin Tokens /\ Forged \notin Tokens /\ NoDto \notin Tokens

VARIABLES
  now,         \* the clock, in seconds
  allowed,     \* per replica: the allow-list it was started with
  sessionExp,  \* pkce:<id> entries
  refreshExp,  \* refresh:<token> entries
  pc,          \* per request: the await it is at
  dto,         \* per request: its body
  minted,      \* per exchange and refresh: the refresh token it signed
  reply,       \* per request: the code it was answered with
  metrics,     \* per replica: auth-metrics.ts
  answered     \* requests answered since their replica last started

cacheVars == <<sessionExp, refreshExp>>
vars == <<now, allowed, sessionExp, refreshExp, pc, dto, minted, reply,
          metrics, answered>>

Waiting == {"set session", "get session", "delete session", "check",
            "get token", "delete token", "sign", "set token", "respond"}
Codes == {"INVALID_EMAIL", "USER_NOT_FOUND", "INVALID_PKCE_SESSION",
          "STATE_MISMATCH", "INVALID_INPUT", "INVALID_TOKEN"}
Replies == Codes \union {"none", "OK", "INTERNAL", "lost"}
Metrics == [initiate : Nat, success : Nat, failure : Nat,
            reasons : [Codes -> Nat]]
NoMetrics == [initiate |-> 0, success |-> 0, failure |-> 0,
              reasons |-> [c \in Codes |-> 0]]
InitiateDtos == [email : Emails, provider : Providers]
ExchangeDtos == [sid : Initiates, stateOk : BOOLEAN, verifierOk : BOOLEAN,
                 hasCode : BOOLEAN]
TokenDtos == Tokens \union {Forged}
Dtos == {NoDto} \union InitiateDtos \union ExchangeDtos \union TokenDtos

TypeOK ==
  /\ now \in 0..MaxTime
  /\ allowed \in [Replicas -> SUBSET Emails]
  /\ sessionExp \in [Initiates -> Nat]
  /\ refreshExp \in [Tokens -> Nat]
  /\ pc \in [Requests -> Waiting \union {"new", "done"}]
  /\ dto \in [Requests -> Dtos]
  /\ minted \in [Minters -> Tokens \union {NoToken}]
  /\ reply \in [Requests -> Replies]
  /\ metrics \in [Replicas -> Metrics]
  /\ answered \subseteq Requests

Init ==
  /\ now = 0
  /\ allowed \in [Replicas -> AllowLists]
  /\ sessionExp = [i \in Initiates |-> 0]
  /\ refreshExp = [t \in Tokens |-> 0]
  /\ pc = [r \in Requests |-> "new"]
  /\ dto = [r \in Requests |-> NoDto]
  /\ minted = [r \in Minters |-> NoToken]
  /\ reply = [r \in Requests |-> "none"]
  /\ metrics = [p \in Replicas |-> NoMetrics]
  /\ answered = {}
---------------------------------------------------------------------------
(* The helpers the handlers call. *)

\* auth-metrics.ts, on the counters of one replica.
recordPkceInitiate(m) == [m EXCEPT !.initiate = @ + 1]
recordPkceExchange(m, status) ==
  IF status = "success" THEN [m EXCEPT !.success = @ + 1]
                        ELSE [m EXCEPT !.failure = @ + 1]
recordLoginFailure(m, reason) == [m EXCEPT !.reasons[reason] = @ + 1]

\* assertUserCanSignIn: the code it throws, or "OK".
SignInCheck(p, email) ==
  CASE email \in Malformed -> "INVALID_EMAIL"
    [] email \notin Malformed /\ allowed[p] # {} /\ email \notin allowed[p]
         -> "USER_NOT_FOUND"
    [] OTHER -> "OK"

\* jwtService.verify plus the type check: a refresh token this service
\* signed and whose exp has not come.
Verifies(t) == t \in Tokens /\ now < t.iat + RefreshLife

SessionEmail(x) == dto[dto[x].sid].email

Goto(r, l) == pc' = [pc EXCEPT ![r] = l]

Answer(r, code) ==
  /\ Goto(r, "done")
  /\ reply' = [reply EXCEPT ![r] = code]
  /\ answered' = answered \union {r}

Count(r, m) == metrics' = [metrics EXCEPT ![home[r]] = m]

\* The request ends with an error that is no AuthException: nothing counts it.
Breaks(r) == Answer(r, "INTERNAL") /\ UNCHANGED metrics

stays == UNCHANGED <<reply, metrics, answered>>
---------------------------------------------------------------------------
(* POST /api/auth/initiate *)

initiatePkce(i, email, provider) ==
  /\ pc[i] = "new"
  /\ dto' = [dto EXCEPT ![i] = [email |-> email, provider |-> provider]]
  /\ LET verdict == SignInCheck(home[i], email) IN
       \/ verdict = "OK" /\ Goto(i, "set session") /\ stays
       \/ /\ verdict # "OK"
          /\ Answer(i, verdict)
          /\ Count(i, recordLoginFailure(metrics[home[i]], verdict))
  /\ UNCHANGED <<now, allowed, cacheVars, minted>>

\* Mutant: the ttl is subtracted.
Mutant_setSession(i) == sessionExp' = [sessionExp EXCEPT ![i] = now - PkceTtl]

setSession(i) == sessionExp' = [sessionExp EXCEPT ![i] = now + PkceTtl]

createSession(i) ==
  /\ pc[i] = "set session"
  /\ setSession(i)
  /\ Goto(i, "respond")
  /\ stays
  /\ UNCHANGED <<now, allowed, refreshExp, dto, minted>>

createSessionRejects(i) ==
  /\ pc[i] = "set session"
  /\ setSession(i) \/ UNCHANGED sessionExp
  /\ Breaks(i)
  /\ UNCHANGED <<now, allowed, refreshExp, dto, minted>>

respondInitiate(i) ==
  /\ pc[i] = "respond"
  /\ Answer(i, "OK")
  /\ Count(i, recordPkceInitiate(metrics[home[i]]))
  /\ UNCHANGED <<now, allowed, cacheVars, dto, minted>>
---------------------------------------------------------------------------
(* POST /api/auth/exchange *)

\* The client names a session id it was answered with, or one under which the
\* cache holds nothing.
exchangePkce(x, s, stateOk, verifierOk, hasCode) ==
  /\ pc[x] = "new"
  /\ pc[s] = "done"
  /\ reply[s] = "OK" \/ sessionExp[s] = 0
  /\ dto' = [dto EXCEPT ![x] = [sid |-> s, stateOk |-> stateOk,
                                verifierOk |-> verifierOk, hasCode |-> hasCode]]
  /\ Goto(x, "get session")
  /\ stays
  /\ UNCHANGED <<now, allowed, cacheVars, minted>>

\* Every AuthException thrown in exchangePkce passes its catch block, which
\* records the login failure; the three rejections that know the session is
\* bad have recorded the exchange and the login failure before throwing.
CountedTwice == {"INVALID_PKCE_SESSION", "STATE_MISMATCH"}

\* Mutant: the catch block is the only one to record.
Mutant_failureMetrics(m, code) == recordLoginFailure(m, code)

failureMetrics(m, code) ==
  IF code \in CountedTwice
    THEN recordLoginFailure(
           recordLoginFailure(recordPkceExchange(m, "failure"), code), code)
    ELSE recordLoginFailure(m, code)

\* Mutant: a failed check is tried again.
Mutant_exchangeFails(x, code) == Goto(x, "check") /\ stays

exchangeFails(x, code) ==
  /\ Answer(x, code)
  /\ Count(x, failureMetrics(metrics[home[x]], code))

\* Mutant: the state is compared before the record is deleted.
Mutant_consumeSessionGet(x) ==
  /\ pc[x] = "get session"
  /\ \/ /\ sessionExp[dto[x].sid] # 0 /\ dto[x].stateOk
        /\ Goto(x, "delete session") /\ stays
     \/ /\ sessionExp[dto[x].sid] # 0 /\ ~dto[x].stateOk
        /\ exchangeFails(x, "STATE_MISMATCH")
     \/ sessionExp[dto[x].sid] = 0 /\ exchangeFails(x, "INVALID_PKCE_SESSION")
  /\ UNCHANGED <<now, allowed, cacheVars, dto, minted>>

\* consumeSession, first await: the record is read, or there is none.
consumeSessionGet(x) ==
  /\ pc[x] = "get session"
  /\ \/ sessionExp[dto[x].sid] # 0 /\ Goto(x, "delete session") /\ stays
     \/ sessionExp[dto[x].sid] = 0 /\ exchangeFails(x, "INVALID_PKCE_SESSION")
     \/ Breaks(x)
  /\ UNCHANGED <<now, allowed, cacheVars, dto, minted>>

\* Mutant: the record is left to its ttl.
Mutant_delSession(x) == UNCHANGED sessionExp

delSession(x) == sessionExp' = [sessionExp EXCEPT ![dto[x].sid] = 0]

\* consumeSession, second await: the delete succeeds whether or not another
\* request has deleted the record already.
consumeSessionDel(x) ==
  /\ pc[x] = "delete session"
  /\ delSession(x)
  /\ Goto(x, "check")
  /\ stays
  /\ UNCHANGED <<now, allowed, refreshExp, dto, minted>>

consumeSessionDelRejects(x) ==
  /\ pc[x] = "delete session"
  /\ delSession(x) \/ UNCHANGED sessionExp
  /\ Breaks(x)
  /\ UNCHANGED <<now, allowed, refreshExp, dto, minted>>

\* The checks of exchangePkce in their order: the code thrown, or "OK".
Verdict(x) ==
  IF ~dto[x].stateOk THEN "STATE_MISMATCH"
  ELSE IF ~dto[x].verifierOk THEN "INVALID_PKCE_SESSION"
  ELSE IF dto[dto[x].sid].provider # "local" /\ ~dto[x].hasCode
    THEN "INVALID_INPUT"
  ELSE SignInCheck(home[x], SessionEmail(x))

\* Mutant: the payload signed is the one verify returned, iat included.
Mutant_signRefreshToken(r, email) ==
  /\ minted' = [minted EXCEPT ![r] = IF r \in Refreshes THEN dto[r]
                                     ELSE [email |-> email, iat |-> now]]
  /\ Goto(r, "set token")
  /\ stays

\* signRefreshToken up to its await.
signRefreshToken(r, email) ==
  /\ minted' = [minted EXCEPT ![r] = [email |-> email, iat |-> now]]
  /\ Goto(r, "set token")
  /\ stays

checkExchange(x) ==
  /\ pc[x] = "check"
  /\ \/ Verdict(x) = "OK" /\ signRefreshToken(x, SessionEmail(x))
     \/ /\ Verdict(x) # "OK"
        /\ exchangeFails(x, Verdict(x))
        /\ UNCHANGED minted
  /\ UNCHANGED <<now, allowed, cacheVars, dto>>

\* Mutant: the entry gets the ttl of PKCE sessions.
Mutant_setToken(r) == refreshExp' = [refreshExp EXCEPT ![minted[r]] = now + PkceTtl]

setToken(r) == refreshExp' = [refreshExp EXCEPT ![minted[r]] = now + RefreshTtl]

\* The await of signRefreshToken, for exchange and refresh alike.
storeRefreshToken(r) ==
  /\ pc[r] = "set token"
  /\ setToken(r)
  /\ Goto(r, "respond")
  /\ stays
  /\ UNCHANGED <<now, allowed, sessionExp, dto, minted>>

storeRefreshTokenRejects(r) ==
  /\ pc[r] = "set token"
  /\ setToken(r) \/ UNCHANGED refreshExp
  /\ Breaks(r)
  /\ UNCHANGED <<now, allowed, sessionExp, dto, minted>>

respondExchange(x) ==
  /\ pc[x] = "respond"
  /\ Answer(x, "OK")
  /\ Count(x, recordPkceExchange(metrics[home[x]], "success"))
  /\ UNCHANGED <<now, allowed, cacheVars, dto, minted>>
---------------------------------------------------------------------------
(* POST /api/auth/refresh and /api/auth/logout *)

\* Clients present tokens they were answered with, or something else.
Presentable == {minted[r] : r \in {q \in Minters : reply[q] = "OK"}}
                 \union {Forged}

refreshFails(f) ==
  /\ Answer(f, "INVALID_TOKEN")
  /\ Count(f, recordLoginFailure(metrics[home[f]], "INVALID_TOKEN"))

refreshAccessToken(f, t) ==
  /\ pc[f] = "new"
  /\ dto' = [dto EXCEPT ![f] = t]
  /\ IF Verifies(t) THEN Goto(f, "get token") /\ stays ELSE refreshFails(f)
  /\ UNCHANGED <<now, allowed, cacheVars, minted>>

\* validateRefreshToken: a miss, and a rejected read too, make it null.
validateRefreshToken(f) ==
  /\ pc[f] = "get token"
  /\ \/ refreshExp[dto[f]] # 0 /\ Goto(f, "delete token") /\ stays
     \/ refreshFails(f)
  /\ UNCHANGED <<now, allowed, cacheVars, dto, minted>>

delToken(r) ==
  refreshExp' = [t \in Tokens |-> IF t = dto[r] THEN 0 ELSE refreshExp[t]]

revokeRefreshToken(r) ==
  /\ pc[r] = "delete token"
  /\ delToken(r)
  /\ Goto(r, IF r \in Refreshes THEN "sign" ELSE "respond")
  /\ stays
  /\ UNCHANGED <<now, allowed, sessionExp, dto, minted>>

revokeRefreshTokenRejects(r) ==
  /\ pc[r] = "delete token"
  /\ delToken(r) \/ UNCHANGED refreshExp
  /\ Breaks(r)
  /\ UNCHANGED <<now, allowed, sessionExp, dto, minted>>

\* refreshAccessToken after its revoke: the allow-list is not asked again.
createAuthResponse(f) ==
  /\ pc[f] = "sign"
  /\ signRefreshToken(f, dto[f].email)
  /\ UNCHANGED <<now, allowed, cacheVars, dto>>

logout(l, t) ==
  /\ pc[l] = "new"
  /\ dto' = [dto EXCEPT ![l] = t]
  /\ Goto(l, "delete token")
  /\ stays
  /\ UNCHANGED <<now, allowed, cacheVars, minted>>

respondPlain(r) ==
  /\ pc[r] = "respond"
  /\ Answer(r, "OK")
  /\ UNCHANGED <<now, allowed, cacheVars, dto, minted, metrics>>
---------------------------------------------------------------------------
(* The environment: time, the cache's expiry, a replica that goes down. *)

\* A second passes once every entry that ends in it is gone, so an entry may
\* be found during the whole second its ttl ends in.
Tick ==
  /\ now < MaxTime
  /\ \A i \in Initiates : sessionExp[i] # now \/ sessionExp[i] = 0
  /\ \A t \in Tokens : refreshExp[t] # now \/ refreshExp[t] = 0
  /\ now' = now + 1
  /\ UNCHANGED <<allowed, cacheVars, pc, dto, minted, reply, metrics, answered>>

expireSession(i) ==
  /\ sessionExp[i] = now /\ now > 0
  /\ sessionExp' = [sessionExp EXCEPT ![i] = 0]
  /\ UNCHANGED <<now, allowed, refreshExp, pc, dto, minted, reply, metrics, answered>>

expireToken(t) ==
  /\ refreshExp[t] = now /\ now > 0
  /\ refreshExp' = [refreshExp EXCEPT ![t] = 0]
  /\ UNCHANGED <<now, allowed, sessionExp, pc, dto, minted, reply, metrics, answered>>

InFlight(r) == pc[r] \notin {"new", "done"}

\* The process dies and is started again, with its configuration re-read:
\* its requests get no answer, its counters and an in-process cache are gone.
restart(p, list) ==
  LET dies(r) == home[r] = p /\ InFlight(r) IN
  /\ allowed' = [allowed EXCEPT ![p] = list]
  /\ metrics' = [metrics EXCEPT ![p] = NoMetrics]
  /\ answered' = {r \in answered : home[r] # p}
  /\ pc' = [r \in Requests |-> IF dies(r) THEN "done" ELSE pc[r]]
  /\ reply' = [r \in Requests |-> IF dies(r) THEN "lost" ELSE reply[r]]
  /\ IF MemoryCache
       THEN /\ sessionExp' = [i \in Initiates |-> 0]
            /\ refreshExp' = [t \in Tokens |-> 0]
       ELSE UNCHANGED cacheVars
  /\ UNCHANGED <<now, dto, minted>>
---------------------------------------------------------------------------
Arrive ==
  \/ \E i \in Initiates, e \in Emails, p \in Providers : initiatePkce(i, e, p)
  \/ \E x \in Exchanges, s \in Initiates, so, vo, hc \in BOOLEAN :
       exchangePkce(x, s, so, vo, hc)
  \/ \E f \in Refreshes, t \in Presentable : refreshAccessToken(f, t)
  \/ \E l \in Logouts, t \in Presentable : logout(l, t)

InitiateStep(i) ==
  createSession(i) \/ createSessionRejects(i) \/ respondInitiate(i)
ExchangeStep(x) ==
  \/ consumeSessionGet(x) \/ consumeSessionDel(x) \/ consumeSessionDelRejects(x)
  \/ checkExchange(x) \/ storeRefreshToken(x) \/ storeRefreshTokenRejects(x)
  \/ respondExchange(x)
RefreshStep(f) ==
  \/ validateRefreshToken(f) \/ revokeRefreshToken(f)
  \/ revokeRefreshTokenRejects(f) \/ createAuthResponse(f)
  \/ storeRefreshToken(f) \/ storeRefreshTokenRejects(f) \/ respondPlain(f)
LogoutStep(l) ==
  revokeRefreshToken(l) \/ revokeRefreshTokenRejects(l) \/ respondPlain(l)

Environment ==
  \/ Tick
  \/ \E i \in Initiates : expireSession(i)
  \/ \E t \in Tokens : expireToken(t)
  \/ \E p \in Replicas, list \in AllowLists : restart(p, list)

Next ==
  \/ Arrive
  \/ \E i \in Initiates : InitiateStep(i)
  \/ \E x \in Exchanges : ExchangeStep(x)
  \/ \E f \in Refreshes : RefreshStep(f)
  \/ \E l \in Logouts : LogoutStep(l)
  \/ Environment

Spec == Init /\ [][Next]_vars

\* The event loop runs every continuation that is due, and the cache client
\* settles every promise it returned; nothing makes a client send a request
\* or a process stop.
Fairness ==
  /\ \A i \in Initiates : WF_vars(InitiateStep(i))
  /\ \A x \in Exchanges : WF_vars(ExchangeStep(x))
  /\ \A f \in Refreshes : WF_vars(RefreshStep(f))
  /\ \A l \in Logouts : WF_vars(LogoutStep(l))
FairSpec == Spec /\ Fairness
---------------------------------------------------------------------------
(* Correctness. *)

\* The ledger a client of the auth service may rely on, read off its state.
LedgerStatus ==
  [i \in Initiates |-> IF sessionExp[i] # 0 THEN "open"
                       ELSE IF pc[i] \in {"new", "set session"} THEN "unused"
                       ELSE "closed"]
Holding == {"delete session", "check", "set token", "respond"}
LedgerClaims ==
  {<<x, dto[x].sid>> : x \in {y \in Exchanges : pc[y] \in Holding}}
LedgerRedeemed ==
  {<<x, dto[x].sid>> : x \in {y \in Exchanges : reply[y] = "OK"}}
Ledger == INSTANCE PkceLedger WITH
            Sessions <- Initiates, Attempts <- Exchanges,
            status <- LedgerStatus, claims <- LedgerClaims,
            redeemed <- LedgerRedeemed

\* createSession / consumeSession implement the PKCE ledger: a session that
\* was deleted never comes back, only attempts that read it before the delete
\* can still succeed, and none succeeds while it is still in the cache.
ImplementsLedger == Ledger!Spec

\* Once a session is consumed, expired or lost, nobody gains a claim on it:
\* only attempts that read the record before the delete can still be answered
\* with tokens.
NoLateClaim == Ledger!NoLateClaim

\* An exchange that was given an answer has used the session up, whatever
\* the answer: a wrong state or verifier cannot be tried a second time.
AttemptConsumesSession ==
  \A x \in Exchanges :
    pc[x] = "done" /\ reply[x] \notin {"INTERNAL", "lost"} =>
      sessionExp[dto[x].sid] = 0

\* Once the second a refresh token was signed in is over and no request is
\* about to store that same text, a token missing from the cache is dead for
\* good: neither a refresh nor a login brings back what refresh, logout or
\* the ttl has removed.
Dead(t) ==
  /\ refreshExp[t] = 0
  /\ t.iat < now
  /\ \A r \in Minters : pc[r] = "set token" => minted[r] # t
RevokedTokenStaysDead == [][\A t \in Tokens : Dead(t) => Dead(t)']_vars

\* A refresh token a client was given, whose exp has not come and which no
\* refresh or logout has tried to revoke, is accepted: the cache forgets it
\* no earlier than the JWT ends (parseDurationMs and expiresIn agree).
Revoked(t) ==
  \E r \in Refreshes \union Logouts :
    /\ dto[r] = t
    /\ pc[r] \notin {"get token", "delete token"}
    /\ reply[r] # "INVALID_TOKEN"
UnrevokedTokenUsable ==
  ~MemoryCache =>
    \A r \in Minters :
      reply[r] = "OK" /\ Verifies(minted[r]) /\ ~Revoked(minted[r]) =>
        refreshExp[minted[r]] # 0

\* Requests answered by replica p since it started, with one of the codes.
Told(p, S, codes) == {r \in answered \intersect S : home[r] = p /\ reply[r] \in codes}

\* What the counters of one replica say of the answers it gave since it
\* started, however requests and restarts interleave: every initiate and every
\* successful exchange is in once; no refusal is left out of the reasons, and
\* none is in more than twice; a refused exchange is in failure at most once,
\* and for sure when its session was missing or did not match.
MetricsAgree ==
  \A p \in Replicas :
    /\ metrics[p].initiate = Cardinality(Told(p, Initiates, {"OK"}))
    /\ metrics[p].success = Cardinality(Told(p, Exchanges, {"OK"}))
    /\ Cardinality(Told(p, Exchanges, CountedTwice)) <= metrics[p].failure
    /\ metrics[p].failure <= Cardinality(Told(p, Exchanges, Codes))
    /\ \A c \in Codes :
         /\ Cardinality(Told(p, Requests, {c})) <= metrics[p].reasons[c]
         /\ metrics[p].reasons[c] <=
              Cardinality(Told(p, Requests, {c})) + Cardinality(Told(p, Exchanges, {c}))

\* Every request the service has started on is answered, or dies with its
\* process: no order of cache replies leaves a handler waiting.
RequestsAnswered == \A r \in Requests : InFlight(r) ~> pc[r] = "done"

(* What the documentation says and the code does not do. *)

\* "One-time session | Delete on exchange": a session yields tokens once.
OneTimeSession ==
  \A x, y \in Exchanges :
    reply[x] = "OK" /\ reply[y] = "OK" /\ dto[x].sid = dto[y].sid => x = y

\* "failed exchange increments pkceExchangeFailure": every exchange that was
\* refused is in the counter.
FailedExchangesCounted ==
  \A p \in Replicas : metrics[p].failure = Cardinality(Told(p, Exchanges, Codes))
===========================================================================
