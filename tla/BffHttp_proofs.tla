--------------------------- MODULE BffHttp_proofs ---------------------------
(* Safety of the BFF's HTTP edge and of what it asks of the services       *)
(* behind it, for any services, probes, tabs, users and lifetimes.         *)
EXTENDS BffHttp, SequencesExt, SequenceTheorems, TLAPS

(***************************************************************************)
(* Requests to services: types.                                            *)
(***************************************************************************)
CallInv == call \in [Callers -> Calls]

LEMMA CallInit == ASSUME Init PROVE CallInv
BY RegistryAssumption DEF Init, CallInv, Calls

\* A record request or settle leaves.
LEMMA CallRecords ==
  ASSUME NEW pc \in {"idle", "sent", "ok", "failed"},
         NEW s \in Registry \union {Unregistered}, NEW retries \in 0 .. retryAttempts,
         NEW error \in errors \union {"none"}
  PROVE  [pc |-> pc, service |-> s, retries |-> retries, error |-> error] \in Calls
BY DEF Calls

LEMMA RequestKeeps ==
  ASSUME CallInv, NEW c \in Callers, NEW s \in Registry \union {Unregistered},
         NEW retries \in 0 .. retryAttempts, request(c, s, retries)
  PROVE  CallInv'
<1>1. (IF configured(s) THEN "none" ELSE "unknown service") \in errors \union {"none"}
  BY DEF errors
<1>2. (IF configured(s) THEN "sent" ELSE "failed") \in {"idle", "sent", "ok", "failed"}
  OBVIOUS
<1> DEFINE next == [pc |-> IF configured(s) THEN "sent" ELSE "failed",
                    service |-> s, retries |-> retries,
                    error |-> IF configured(s) THEN "none" ELSE "unknown service"]
<1>3. next \in Calls
  BY <1>1, <1>2, CallRecords
<1>4. call' = [call EXCEPT ![c] = next]
  BY DEF request
<1> HIDE DEF next
<1> QED BY <1>3, <1>4 DEF CallInv

LEMMA CallStepKeeps ==
  ASSUME CallInv, NEW c \in Callers, callStep(c)
  PROVE  CallInv'
<1>1. /\ call[c].service \in Registry \union {Unregistered}
      /\ call[c].retries \in 0 .. retryAttempts
  BY DEF CallInv, Calls
<1>2. ASSUME NEW pc \in {"ok", "failed"}, NEW error \in errors \union {"none"},
             settle(c, pc, error)
      PROVE  CallInv'
  <2>1. call' = [call EXCEPT ![c] = [pc |-> pc, service |-> call[c].service,
                                     retries |-> call[c].retries, error |-> error]]
    BY <1>2 DEF settle
  <2>2. [pc |-> pc, service |-> call[c].service, retries |-> call[c].retries,
         error |-> error] \in Calls
    BY <1>1, CallRecords
  <2> QED BY <2>1, <2>2 DEF CallInv
<1>3. CASE answered(c)
  BY <1>2, <1>3 DEF answered
<1>4. ASSUME NEW error \in errors, fails(c, error) PROVE CallInv'
  <2>1. CASE settle(c, "failed", error)
    BY <1>2, <2>1
  <2>2. CASE call[c].retries > 0 /\ request(c, call[c].service, call[c].retries - 1)
    <3>1. call[c].retries - 1 \in 0 .. retryAttempts
      BY <1>1, <2>2, RegistryAssumption
    <3> QED BY <1>1, <2>2, <3>1, RequestKeeps
  <2> QED BY <1>4, <2>1, <2>2 DEF fails
<1> QED BY <1>3, <1>4 DEF callStep

LEMMA CallStutters == ASSUME CallInv, call' = call PROVE CallInv'
BY DEF CallInv

-----------------------------------------------------------------------------
(***************************************************************************)
(* Health checks: what was probed was seen as it was probed, and what is   *)
(* still to probe is seen as it is.                                        *)
(***************************************************************************)
HealthTypes ==
  /\ serving \subseteq Registry
  /\ todo \in [Checks -> Seq(Registry)]
  /\ healthy \in [Checks -> SUBSET Registry]
  /\ wasUp \in [Checks -> SUBSET Registry]
  /\ wasDown \in [Checks -> SUBSET Registry]
  /\ health \in [Checks -> {"none", "healthy", "degraded", "unhealthy"}]

\* left: services still to probe. up, down: of those seen up, seen down.
Probed(left, found, up, down) == found \subseteq up /\ Registry \ (found \union left) \subseteq down

Witnessed(status, up, down) ==
  /\ status = "healthy" => up = Registry
  /\ status = "unhealthy" => down = Registry
  /\ status = "degraded" => up # {} /\ down # {}

CheckOK(k) ==
  /\ todo[k] # <<>> =>
       /\ health[k] = "none"
       /\ Probed(ToSet(todo[k]), healthy[k], wasUp[k], wasDown[k])
       /\ serving \subseteq wasUp[k] /\ Registry \ serving \subseteq wasDown[k]
  /\ todo[k] = <<>> /\ health[k] = "none" => healthy[k] = {}
  /\ Witnessed(health[k], wasUp[k], wasDown[k])

HealthChecks == HealthTypes /\ \A k \in Checks : CheckOK(k)

LEMMA HealthInit == ASSUME Init PROVE HealthChecks
<1>1. HealthTypes
  BY EmptySeq DEF Init, HealthTypes
<1>2. ASSUME NEW k \in Checks PROVE CheckOK(k)
  BY DEF Init, CheckOK, Witnessed
<1> QED BY <1>1, <1>2 DEF HealthChecks

LEMMA ProbedServices ==
  /\ services \in Seq(Registry) /\ services # <<>> /\ ToSet(services) = Registry
BY RegistryAssumption DEF ToSet

LEMMA GetHealthKeeps == ASSUME HealthChecks, NEW k \in Checks, getHealth(k) PROVE HealthChecks'
<1>1. /\ todo[k] = <<>> /\ health[k] = "none"
      /\ todo' = [todo EXCEPT ![k] = services]
      /\ wasUp' = [wasUp EXCEPT ![k] = serving]
      /\ wasDown' = [wasDown EXCEPT ![k] = Registry \ serving]
      /\ UNCHANGED <<serving, healthy, health>>
  BY DEF getHealth
<1>2. HealthTypes'
  BY <1>1, ProbedServices DEF HealthChecks, HealthTypes
<1>3. ASSUME NEW j \in Checks PROVE CheckOK(j)'
  <2>1. CheckOK(j)
    BY DEF HealthChecks
  <2>2. CASE j = k
    <3>1. /\ todo'[j] = services /\ serving \subseteq Registry
          /\ wasUp'[j] = serving /\ wasDown'[j] = Registry \ serving
      BY <1>1, <2>2 DEF HealthChecks, HealthTypes
    <3>2. healthy[j] = {}
      BY <1>1, <2>1, <2>2 DEF CheckOK
    <3> QED BY <1>1, <2>2, <3>1, <3>2, ProbedServices DEF CheckOK, Probed, Witnessed
  <2>3. CASE j # k
    <3>1. todo'[j] = todo[j] /\ wasUp'[j] = wasUp[j] /\ wasDown'[j] = wasDown[j]
      BY <1>1, <2>3 DEF HealthChecks, HealthTypes
    <3> QED BY <1>1, <2>1, <3>1 DEF CheckOK
  <2> QED BY <2>2, <2>3
<1> QED BY <1>2, <1>3 DEF HealthChecks

\* What is left to probe after the first service of todo.
LEMMA AfterHead ==
  ASSUME NEW t \in Seq(Registry), t # <<>>
  PROVE  /\ Head(t) \in Registry /\ Tail(t) \in Seq(Registry)
         /\ \A s \in ToSet(t) : s = Head(t) \/ s \in ToSet(Tail(t))
         /\ Len(t) = 1 <=> Tail(t) = <<>>
<1>1. /\ Head(t) \in Registry /\ Tail(t) \in Seq(Registry) /\ Len(Tail(t)) = Len(t) - 1
      /\ \A i \in 1 .. Len(Tail(t)) : Tail(t)[i] = t[i + 1]
  BY HeadTailProperties
<1>2. /\ Len(t) \in Nat \ {0} /\ DOMAIN t = 1 .. Len(t)
      /\ DOMAIN Tail(t) = 1 .. Len(t) - 1 /\ Head(t) = t[1]
  BY <1>1, LenProperties, EmptySeq
<1>3. ASSUME NEW i \in 1 .. Len(t), i # 1 PROVE t[i] \in ToSet(Tail(t))
  <2>1. i - 1 \in 1 .. Len(t) - 1 /\ (i - 1) + 1 = i
    BY <1>2, <1>3
  <2>2. Tail(t)[i - 1] = t[i]
    BY <1>1, <2>1
  <2> QED BY <1>2, <2>1, <2>2 DEF ToSet
<1>4. Len(t) = 1 <=> Tail(t) = <<>>
  <2>1. Len(Tail(t)) \in Nat /\ (Tail(t) = <<>> => Len(Tail(t)) = 0)
        /\ (Tail(t) # <<>> => Len(Tail(t)) # 0)
    BY <1>1, EmptySeq, LenProperties
  <2> QED BY <1>1, <1>2, <2>1
<1> QED BY <1>1, <1>2, <1>3, <1>4 DEF ToSet

LEMMA StatusIsWitnessed ==
  ASSUME NEW found, NEW up, NEW down, up \subseteq Registry, down \subseteq Registry,
         Probed({}, found, up, down), found \subseteq Registry
  PROVE  Witnessed(overallStatus(found), up, down)
BY DEF Probed, Witnessed, overallStatus

LEMMA HealthCheckKeeps ==
  ASSUME HealthChecks, NEW k \in Checks, healthCheck(k) PROVE HealthChecks'
<1> DEFINE s == Head(todo[k])
           found == IF s \in serving THEN healthy[k] \union {s} ELSE healthy[k]
           status == IF Tail(todo[k]) = <<>> THEN overallStatus(found) ELSE health[k]
<1>1. todo[k] \in Seq(Registry) /\ todo[k] # <<>> /\ healthy[k] \subseteq Registry
  BY DEF healthCheck, HealthChecks, HealthTypes
<1>2. /\ todo' = [todo EXCEPT ![k] = Tail(todo[k])] /\ healthy' = [healthy EXCEPT ![k] = found]
      /\ UNCHANGED <<serving, wasUp, wasDown>>
  BY DEF healthCheck
<1>3. health' = [health EXCEPT ![k] = status]
  <2>1. healthy'[k] = found
    BY <1>2 DEF HealthChecks, HealthTypes
  <2>2. Len(todo[k]) = 1 <=> Tail(todo[k]) = <<>>
    BY <1>1, AfterHead
  <2>3. health' = [health EXCEPT ![k] =
          IF Len(todo[k]) = 1 THEN overallStatus(healthy'[k]) ELSE health[k]]
    BY DEF healthCheck, HealthChecks, HealthTypes
  <2>4. (IF Len(todo[k]) = 1 THEN overallStatus(healthy'[k]) ELSE health[k]) = status
    BY <2>1, <2>2, Zenon
  <2> QED BY <2>3, <2>4
<1>4. s \in Registry /\ Tail(todo[k]) \in Seq(Registry) /\ found \subseteq Registry
  BY <1>1, AfterHead
<1>5. status \in {"none", "healthy", "degraded", "unhealthy"}
  BY DEF overallStatus, HealthChecks, HealthTypes
<1>6. /\ health[k] = "none"
      /\ Probed(ToSet(todo[k]), healthy[k], wasUp[k], wasDown[k])
      /\ serving \subseteq wasUp[k] /\ Registry \ serving \subseteq wasDown[k]
  BY <1>1 DEF HealthChecks, CheckOK
<1>7. Probed(ToSet(Tail(todo[k])), found, wasUp[k], wasDown[k])
  BY <1>1, <1>4, <1>6, AfterHead DEF Probed
<1>8. Tail(todo[k]) = <<>> => Witnessed(status, wasUp[k], wasDown[k]) /\ status # "none"
  <2>1. ToSet(<<>>) = {}
    BY DEF ToSet
  <2>2. Tail(todo[k]) = <<>> => Witnessed(overallStatus(found), wasUp[k], wasDown[k])
    BY <1>4, <1>7, <2>1, StatusIsWitnessed DEF HealthChecks, HealthTypes
  <2> QED BY <2>2 DEF overallStatus
<1>9. Tail(todo[k]) # <<>> => status = "none"
  BY <1>6
<1> HIDE DEF s, found, status
<1>10. HealthTypes'
  BY <1>2, <1>3, <1>4, <1>5 DEF HealthChecks, HealthTypes
<1>11. ASSUME NEW j \in Checks PROVE CheckOK(j)'
  <2>1. CheckOK(j)
    BY DEF HealthChecks
  <2>2. CASE j = k
    <3>1. /\ todo'[j] = Tail(todo[k]) /\ healthy'[j] = found /\ health'[j] = status
          /\ serving' = serving
      BY <1>2, <1>3, <2>2 DEF HealthChecks, HealthTypes
    <3> QED BY <1>2, <1>6, <1>7, <1>8, <1>9, <2>1, <2>2, <3>1 DEF CheckOK, Witnessed
  <2>3. CASE j # k
    <3>1. todo'[j] = todo[j] /\ healthy'[j] = healthy[j] /\ health'[j] = health[j]
      BY <1>2, <1>3, <2>3 DEF HealthChecks, HealthTypes
    <3> QED BY <1>2, <2>1, <3>1 DEF CheckOK
  <2> QED BY <2>2, <2>3
<1> QED BY <1>10, <1>11 DEF HealthChecks

LEMMA FlipKeeps == ASSUME HealthChecks, NEW s \in Registry, flip(s) PROVE HealthChecks'
<1>1. serving' \subseteq Registry /\ UNCHANGED <<todo, healthy, health>>
  BY DEF flip, HealthChecks, HealthTypes
<1>2. HealthTypes'
  BY <1>1 DEF flip, HealthChecks, HealthTypes
<1>3. ASSUME NEW k \in Checks PROVE CheckOK(k)'
  <2>1. CheckOK(k)
    BY DEF HealthChecks
  <2>2. CASE todo[k] = <<>>
    <3>1. wasUp'[k] = wasUp[k] /\ wasDown'[k] = wasDown[k]
      BY <2>2 DEF flip
    <3> QED BY <1>1, <2>1, <2>2, <3>1 DEF CheckOK
  <2>3. CASE todo[k] # <<>>
    <3>1. wasUp'[k] = wasUp[k] \union serving' /\ wasDown'[k] = wasDown[k] \union (Registry \ serving')
      BY <2>3 DEF flip
    <3> QED BY <1>1, <2>1, <2>3, <3>1 DEF CheckOK, Probed, Witnessed
  <2> QED BY <2>2, <2>3
<1> QED BY <1>2, <1>3 DEF HealthChecks

LEMMA HealthStutters ==
  ASSUME HealthChecks, serving' = serving, UNCHANGED healthVars PROVE HealthChecks'
<1>1. HealthTypes'
  BY DEF HealthChecks, HealthTypes, healthVars
<1>2. \A k \in Checks : CheckOK(k)'
  BY DEF HealthChecks, CheckOK, healthVars
<1> QED BY <1>1, <1>2 DEF HealthChecks

-----------------------------------------------------------------------------
ServiceInv == CallInv /\ HealthChecks

LEMMA ServiceInit == Init => ServiceInv
BY CallInit, HealthInit DEF ServiceInv

LEMMA ServiceStepKeeps == ASSUME ServiceInv, [Next]_serviceVars PROVE ServiceInv'
<1>1. CASE UNCHANGED serviceVars
  BY <1>1, CallStutters, HealthStutters DEF ServiceInv, serviceVars
<1>2. ASSUME NEW c \in Callers, NEW s \in Registry \union {Unregistered},
             requestWithRetry(c, s)
      PROVE  ServiceInv'
  <2>1. retryAttempts \in 0 .. retryAttempts
    BY RegistryAssumption
  <2> QED BY <1>2, <2>1, RequestKeeps, HealthStutters DEF ServiceInv, requestWithRetry
<1>3. ASSUME NEW c \in Callers, callStep(c) PROVE ServiceInv'
  <2>1. serving' = serving /\ UNCHANGED healthVars
    BY <1>3 DEF callStep, answered, fails
  <2> QED BY <1>3, <2>1, CallStepKeeps, HealthStutters DEF ServiceInv
<1>4. ASSUME NEW k \in Checks, getHealth(k) \/ healthCheck(k) PROVE ServiceInv'
  <2>1. call' = call
    BY <1>4 DEF getHealth, healthCheck
  <2> QED BY <1>4, <2>1, GetHealthKeeps, HealthCheckKeeps, CallStutters DEF ServiceInv
<1>5. ASSUME NEW s \in Registry, flip(s) PROVE ServiceInv'
  <2>1. call' = call
    BY <1>5 DEF flip
  <2> QED BY <1>5, <2>1, FlipKeeps, CallStutters DEF ServiceInv
<1> QED BY <1>1, <1>2, <1>3, <1>4, <1>5 DEF Next, Receive, Serve

-----------------------------------------------------------------------------
(***************************************************************************)
(* Tabs: every token held or sent was signed by now, and an answer is for  *)
(* what was sent.                                                          *)
(***************************************************************************)
SignedBy(t) == {token \in Tokens : token.exp <= t + expiresIn}

Grants(signed) == [from : {"exchange", "refresh"}, token : signed] \union {None}
Cookies(signed) == [token : signed \union {NoToken}, until : 0 .. (MaxTime + maxAge)]
Headers(signed) ==
  [authorization : signed \union {NoToken, OtherScheme}, cookie : signed \union {NoToken}]

Holds(signed) ==
  /\ session \in [Tabs -> signed \union {NoToken}]
  /\ cookie \in Cookies(signed)
  /\ granting \in [Tabs -> Grants(signed)]
  /\ asked \in [Askers -> Headers(signed)]

TabInv ==
  /\ now \in 0 .. MaxTime
  /\ Holds(SignedBy(now))
  /\ answer \in [Askers -> Users \union refusals]
  /\ OwnUser

LEMMA HttpConstants ==
  /\ expiresIn \in Nat \ {0} /\ maxAge \in Nat \ {0} /\ MaxTime \in Nat /\ MaxRequests \in Nat
  /\ NoToken # OtherScheme /\ Askers \subseteq Tabs
  /\ NoToken \notin Tokens /\ OtherScheme \notin Tokens
  /\ "401" \notin Users /\ "pending" \notin Users /\ "none" \notin Users
BY HttpAssumption, TokensAssumption

LEMMA TabInit == ASSUME HttpInit PROVE TabInv
<1> DEFINE none == [token |-> NoToken, until |-> 0]
           empty == [authorization |-> NoToken, cookie |-> NoToken]
<1>1. now \in 0 .. MaxTime
  BY HttpConstants DEF HttpInit
<1>2. none \in Cookies(SignedBy(now)) /\ empty \in Headers(SignedBy(now))
  BY HttpConstants DEF Cookies, Headers
<1>3. empty.authorization = NoToken
  OBVIOUS
<1> HIDE DEF none, empty
<1>4. Holds(SignedBy(now))
  BY <1>2 DEF HttpInit, Holds, none, empty, Grants
<1>5. answer \in [Askers -> Users \union refusals]
  BY DEF HttpInit, refusals
<1>6. OwnUser
  BY HttpConstants DEF HttpInit, OwnUser, refusals
<1> QED BY <1>1, <1>4, <1>5, <1>6 DEF TabInv

LEMMA SignsNow ==
  ASSUME now \in 0 .. MaxTime, NEW u \in Users
  PROVE  signAccessToken(u) \in SignedBy(now)
<1>1. now + expiresIn \in 1 .. (MaxTime + expiresIn)
  BY HttpConstants
<1> QED BY <1>1 DEF signAccessToken, SignedBy, Tokens

\* The user of a token the tab holds.
LEMMA HeldUser == ASSUME NEW token \in SignedBy(now) PROVE token \in Tokens /\ token.user \in Users
BY DEF SignedBy, Tokens

LEMMA ExchangeKeeps ==
  ASSUME TabInv, NEW t \in Tabs, NEW u \in Users, NEW from \in {"exchange", "refresh"},
         granting' = [granting EXCEPT ![t] = [from |-> from, token |-> signAccessToken(u)]],
         UNCHANGED <<now, session, cookie, asked, answer>>
  PROVE  TabInv'
<1> DEFINE grant == [from |-> from, token |-> signAccessToken(u)]
<1>1. grant \in Grants(SignedBy(now))
  BY SignsNow DEF TabInv, Grants
<1> HIDE DEF grant
<1>2. granting' \in [Tabs -> Grants(SignedBy(now))]
  BY <1>1 DEF TabInv, Holds, grant
<1>3. Holds(SignedBy(now))'
  BY <1>2 DEF TabInv, Holds
<1>4. OwnUser'
  BY DEF TabInv, OwnUser
<1> QED BY <1>3, <1>4 DEF TabInv

LEMMA RefreshKeeps == ASSUME TabInv, NEW t \in Tabs, refresh(t) PROVE TabInv'
<1>1. session[t] \in SignedBy(now)
  BY DEF refresh, TabInv, Holds
<1>2. session[t].user \in Users
  BY <1>1, HeldUser
<1> QED BY <1>2, ExchangeKeeps DEF refresh

LEMMA PersistKeeps == ASSUME TabInv, NEW t \in Tabs, persistAuthSession(t) PROVE TabInv'
<1>1. granting[t] \in [from : {"exchange", "refresh"}, token : SignedBy(now)]
  BY DEF persistAuthSession, TabInv, Holds, Grants
<1>2. granting[t].token \in SignedBy(now)
  BY <1>1
<1>3. setAccessTokenCookie(granting[t].token) \in Cookies(SignedBy(now))
  <2>1. now + maxAge \in 0 .. (MaxTime + maxAge)
    BY HttpConstants DEF TabInv
  <2> QED BY <1>2, <2>1 DEF setAccessTokenCookie, Cookies
<1>4. cookie' \in Cookies(SignedBy(now))
  BY <1>3 DEF persistAuthSession, TabInv, Holds
<1>5. session' \in [Tabs -> SignedBy(now) \union {NoToken}]
  BY <1>2 DEF persistAuthSession, TabInv, Holds
<1>6. granting' \in [Tabs -> Grants(SignedBy(now))]
  BY DEF persistAuthSession, TabInv, Holds, Grants
<1>7. UNCHANGED <<now, asked, answer>>
  BY DEF persistAuthSession
<1>8. Holds(SignedBy(now))'
  BY <1>4, <1>5, <1>6, <1>7 DEF TabInv, Holds
<1>9. OwnUser'
  BY <1>7 DEF TabInv, OwnUser
<1> QED BY <1>7, <1>8, <1>9 DEF TabInv

LEMMA ForgetKeeps ==
  ASSUME TabInv, NEW t \in Tabs, lost(t) \/ clearAuthSession(t) PROVE TabInv'
<1>1. /\ session' \in [Tabs -> SignedBy(now) \union {NoToken}]
      /\ granting' \in [Tabs -> Grants(SignedBy(now))]
      /\ UNCHANGED <<now, cookie, asked, answer>>
  BY DEF lost, clearAuthSession, TabInv, Holds, Grants
<1>2. Holds(SignedBy(now))'
  BY <1>1 DEF TabInv, Holds
<1>3. OwnUser'
  BY <1>1 DEF TabInv, OwnUser
<1> QED BY <1>1, <1>2, <1>3 DEF TabInv

LEMMA AskKeeps ==
  ASSUME TabInv, NEW t \in Askers,
         NEW authorization \in SignedBy(now) \union {NoToken, OtherScheme},
         getCurrentUser(t, authorization)
  PROVE  TabInv'
<1> DEFINE headers == [authorization |-> authorization,
                       cookie |-> IF now < cookie.until THEN cookie.token ELSE NoToken]
<1>1. headers \in Headers(SignedBy(now))
  BY DEF TabInv, Holds, Cookies, Headers
<1>2. /\ asked' = [asked EXCEPT ![t] = headers]
      /\ answer' = [answer EXCEPT ![t] = "pending"]
      /\ UNCHANGED <<now, session, cookie, granting>>
  BY DEF getCurrentUser
<1> HIDE DEF headers
<1>3. Holds(SignedBy(now))'
  BY <1>1, <1>2 DEF TabInv, Holds
<1>4. answer' \in [Askers -> Users \union refusals]
  BY <1>2 DEF TabInv, refusals
<1>5. OwnUser'
  BY <1>2 DEF TabInv, Holds, OwnUser, refusals
<1> QED BY <1>2, <1>3, <1>4, <1>5 DEF TabInv

\* What the middleware and the guard make of the headers.
LEMMA PipelineAnswers ==
  ASSUME NEW headers \in Headers(SignedBy(now)), now \in 0 .. MaxTime
  PROVE  /\ pipeline(headers) \in Users \union {"401"}
         /\ headers.authorization \in Tokens =>
              pipeline(headers) \in {"401", headers.authorization.user}
         /\ pipeline(headers) \in Users =>
              \E token \in {headers.authorization, headers.cookie} :
                token \in SignedBy(now) /\ token.user = pipeline(headers) /\ now < token.exp
         /\ pipeline(headers) = "401" /\ headers.authorization \in Tokens =>
              headers.authorization.exp <= now
<1> DEFINE token == extractToken(headers)
<1>1. /\ token \in {headers.authorization, headers.cookie}
      /\ token \in SignedBy(now) \union {NoToken, OtherScheme}
      /\ headers.authorization \in Tokens => token = headers.authorization
  BY HttpConstants DEF extractToken, Headers
<1>2. token \in Tokens => token \in SignedBy(now) /\ token.user \in Users /\ token.exp \in Nat
  BY <1>1, HttpConstants DEF SignedBy, Tokens
<1>3. pipeline(headers) =
        IF headers.authorization = OtherScheme THEN "401" ELSE getUserFromAccessToken(token)
  BY DEF pipeline, validated, canActivate
<1> HIDE DEF token
<1>4. getUserFromAccessToken(token) =
        IF token \in Tokens /\ now < token.exp THEN token.user ELSE "401"
  BY DEF getUserFromAccessToken
<1> HIDE DEF getUserFromAccessToken
<1>5. CASE headers.authorization = OtherScheme
  BY <1>3, <1>5, HttpConstants
<1>6. CASE headers.authorization # OtherScheme /\ token \in Tokens /\ now < token.exp
  <2>1. pipeline(headers) = token.user
    BY <1>3, <1>4, <1>6
  <2>2. token.user # "401"
    BY <1>2, <1>6, HttpConstants
  <2> QED BY <1>1, <1>2, <1>6, <2>1, <2>2
<1>7. CASE headers.authorization # OtherScheme /\ ~ (token \in Tokens /\ now < token.exp)
  <2>1. pipeline(headers) = "401"
    BY <1>3, <1>4, <1>7
  <2>2. headers.authorization \in Tokens => headers.authorization.exp <= now
    BY <1>1, <1>2, <1>7
  <2> QED BY <2>1, <2>2, HttpConstants
<1> QED BY <1>5, <1>6, <1>7

LEMMA MeKeeps == ASSUME TabInv, NEW t \in Askers, me(t) PROVE TabInv'
<1> DEFINE a == pipeline(asked[t])
<1>1. /\ answer' = [answer EXCEPT ![t] = a]
      /\ UNCHANGED <<now, session, cookie, granting, asked>>
  BY DEF me
<1>2. a \in Users \union {"401"}
      /\ (asked[t].authorization \in Tokens => a \in {"401", asked[t].authorization.user})
  BY PipelineAnswers DEF TabInv, Holds
<1> HIDE DEF a
<1>3. Holds(SignedBy(now))'
  BY <1>1 DEF TabInv, Holds
<1>4. answer' \in [Askers -> Users \union refusals]
  BY <1>1, <1>2 DEF TabInv, refusals
<1>5. OwnUser'
  BY <1>1, <1>2 DEF TabInv, OwnUser, refusals
<1> QED BY <1>1, <1>3, <1>4, <1>5 DEF TabInv

LEMMA TickKeeps == ASSUME TabInv, Tick PROVE TabInv'
<1>1. now' = now + 1 /\ now' \in 0 .. MaxTime /\ UNCHANGED <<session, cookie, granting, asked, answer>>
  BY HttpConstants DEF Tick, TabInv
<1>2. SignedBy(now) \subseteq SignedBy(now')
  BY <1>1, HttpConstants DEF SignedBy, Tokens, TabInv
<1> DEFINE old == SignedBy(now) new == SignedBy(now')
<1>3. Holds(old) /\ old \subseteq new
  BY <1>2 DEF TabInv
<1> HIDE DEF old, new
<1>4. /\ Grants(old) \subseteq Grants(new) /\ Cookies(old) \subseteq Cookies(new)
      /\ Headers(old) \subseteq Headers(new)
  BY <1>3 DEF Grants, Cookies, Headers
<1>5. Holds(new)
  BY <1>3, <1>4 DEF Holds
<1>6. Holds(SignedBy(now))'
  BY <1>1, <1>5 DEF Holds, new
<1>7. OwnUser'
  BY <1>1 DEF TabInv, OwnUser
<1> QED BY <1>1, <1>6, <1>7 DEF TabInv

-----------------------------------------------------------------------------
IInv == ServiceInv /\ TabInv /\ received \in 0 .. MaxRequests

LEMMA TabStutters == ASSUME TabInv, UNCHANGED tabVars PROVE TabInv'
BY DEF TabInv, Holds, OwnUser, tabVars

LEMMA TabRequestKeeps == ASSUME TabInv, TabRequest PROVE TabInv' /\ UNCHANGED serviceVars
<1>1. ASSUME NEW t \in Tabs, refresh(t) PROVE TabInv' /\ UNCHANGED serviceVars
  BY <1>1, RefreshKeeps DEF refresh
<1>2. ASSUME NEW t \in Tabs, NEW u \in Users, exchange(t, u)
      PROVE  TabInv' /\ UNCHANGED serviceVars
  BY <1>2, ExchangeKeeps DEF exchange
<1>3. ASSUME NEW t \in Askers, NEW authorization,
             authorization = getAccessToken(t) \/ authorization = OtherScheme,
             getCurrentUser(t, authorization)
      PROVE  TabInv' /\ UNCHANGED serviceVars
  <2>1. authorization \in SignedBy(now) \union {NoToken, OtherScheme}
    BY <1>3, HttpConstants DEF getAccessToken, TabInv, Holds
  <2> QED BY <1>3, <2>1, AskKeeps DEF getCurrentUser
<1> QED BY <1>1, <1>2, <1>3 DEF TabRequest

LEMMA TabStepKeeps == ASSUME TabInv, TabStep PROVE TabInv' /\ UNCHANGED serviceVars
<1>1. TabInv'
  BY PersistKeeps, ForgetKeeps, MeKeeps, TickKeeps DEF TabStep
<1>2. UNCHANGED serviceVars
  BY DEF TabStep, persistAuthSession, lost, clearAuthSession, me, Tick
<1> QED BY <1>1, <1>2

LEMMA InitIInv == HttpInit => IInv
BY ServiceInit, TabInit, HttpConstants DEF HttpInit, IInv

LEMMA StepIInv == ASSUME IInv, [HttpNext]_httpVars PROVE IInv'
<1>1. received' \in 0 .. MaxRequests
  BY HttpConstants DEF IInv, HttpNext, httpVars
<1>2. CASE TabRequest \/ TabStep
  BY <1>1, <1>2, TabRequestKeeps, TabStepKeeps, ServiceStepKeeps DEF IInv
<1>3. CASE (Receive \/ Serve \/ UNCHANGED serviceVars) /\ UNCHANGED tabVars
  BY <1>1, <1>3, TabStutters, ServiceStepKeeps DEF IInv, Next
<1> QED BY <1>2, <1>3 DEF HttpNext, httpVars

LEMMA IInvIsHttpInv == ASSUME IInv PROVE HttpInv
<1>1. TypeOK
  BY DEF IInv, ServiceInv, CallInv, HealthChecks, HealthTypes, TypeOK
<1> DEFINE signed == SignedBy(now)
<1>2. Holds(signed) /\ signed \subseteq Tokens
  BY DEF IInv, TabInv, SignedBy
<1> HIDE DEF signed
<1>3. /\ session \in [Tabs -> Tokens \union {NoToken}]
      /\ cookie \in [token : Tokens \union {NoToken}, until : 0 .. (MaxTime + maxAge)]
      /\ granting \in [Tabs -> [from : {"exchange", "refresh"}, token : Tokens] \union {None}]
      /\ asked \in [Askers -> [authorization : Tokens \union {NoToken, OtherScheme},
                               cookie : Tokens \union {NoToken}]]
  BY <1>2 DEF Holds, Grants, Cookies, Headers
<1>4. HttpTypeOK
  BY <1>1, <1>3 DEF IInv, TabInv, HttpTypeOK
<1> QED BY <1>4 DEF IInv, TabInv, HttpInv

\* A tab is never answered with another tab's user.
THEOREM AnswersAreOwn == HttpSpec => []HttpInv
BY InitIInv, StepIInv, IInvIsHttpInv, PTL DEF HttpSpec

\* A health status speaks of moments of its check.
THEOREM HealthSpeaksOfItsCheck == HttpSpec => []HealthIsWitnessed
<1>1. IInv => HealthIsWitnessed
  BY DEF IInv, ServiceInv, HealthChecks, CheckOK, Witnessed, HealthIsWitnessed
<1> QED BY <1>1, InitIInv, StepIInv, PTL DEF HttpSpec

\* The step that answers a tab.
Served ==
  \A t \in Askers : answer'[t] # answer[t] =>
    /\ answer'[t] \in Users => TokenIsLive(t)
    /\ answer'[t] = "401" /\ asked[t].authorization \in Tokens =>
         asked[t].authorization.exp <= now

LEMMA StepServes == ASSUME IInv, [HttpNext]_httpVars PROVE Served
<1> SUFFICES ASSUME NEW t \in Askers, answer'[t] # answer[t]
             PROVE  /\ answer'[t] \in Users => TokenIsLive(t)
                    /\ answer'[t] = "401" /\ asked[t].authorization \in Tokens =>
                         asked[t].authorization.exp <= now
  BY DEF Served
<1>1. CASE \E s \in Askers : me(s)
  <2>1. answer'[t] = pipeline(asked[t])
    BY <1>1 DEF me, IInv, TabInv
  <2>2. asked[t] \in Headers(SignedBy(now)) /\ now \in 0 .. MaxTime
    BY DEF IInv, TabInv, Holds
  <2>3. answer'[t] \in Users => TokenIsLive(t)
    BY <2>1, <2>2, PipelineAnswers DEF TokenIsLive, SignedBy
  <2>4. answer'[t] = "401" /\ asked[t].authorization \in Tokens =>
          asked[t].authorization.exp <= now
    BY <2>1, <2>2, PipelineAnswers
  <2> QED BY <2>3, <2>4
<1>2. CASE \E s \in Askers :
             getCurrentUser(s, getAccessToken(s)) \/ getCurrentUser(s, OtherScheme)
  <2>1. answer'[t] = "pending"
    BY <1>2 DEF getCurrentUser, IInv, TabInv
  <2> QED BY <2>1, HttpConstants
<1>3. CASE UNCHANGED answer
  BY <1>3
<1> QED BY <1>1, <1>2, <1>3 DEF HttpNext, httpVars, tabVars, TabRequest, TabStep, refresh,
           exchange, persistAuthSession, lost, clearAuthSession, Tick

\* A tab is served for a live token it sent, and not refused while it sends one.
THEOREM LiveTokensAreServed == HttpSpec => ServedWhileLive
<1>1. IInv /\ [HttpNext]_httpVars => [Served]_httpVars
  BY StepServes
<1> QED BY <1>1, InitIInv, StepIInv, PTL DEF HttpSpec, ServedWhileLive, Served
=============================================================================
