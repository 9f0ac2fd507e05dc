------------------------ MODULE AuthService_proofs ------------------------
(* Invariants of AuthService for every set of requests, replicas, e-mails *)
(* and allow-lists, every ttl and every clock bound.                      *)
EXTENDS AuthService, FiniteSetTheorems, TLAPS

\* The awaits a request of each kind can be at.
Places ==
  /\ \A i \in Initiates : pc[i] \in {"new", "set session", "respond", "done"}
  /\ \A x \in Exchanges :
       pc[x] \in {"new", "get session", "delete session", "check", "set token",
                  "respond", "done"}
  /\ \A f \in Refreshes :
       pc[f] \in {"new", "get token", "delete token", "sign", "set token",
                  "respond", "done"}
  /\ \A l \in Logouts : pc[l] \in {"new", "delete token", "respond", "done"}

\* Bodies have the shape of their endpoint, and an exchange names a session
\* whose initiate has ended.
Bodies ==
  /\ \A i \in Initiates : pc[i] # "new" => dto[i] \in InitiateDtos
  /\ \A x \in Exchanges :
       pc[x] # "new" => dto[x] \in ExchangeDtos /\ pc[dto[x].sid] = "done"
  /\ \A f \in Refreshes :
       pc[f] \notin {"new", "done"} => dto[f] \in Tokens

\* Whoever is about to store or return a token has signed it.
Signed ==
  \A r \in Minters :
    pc[r] \in {"set token", "respond"} \/ reply[r] = "OK" => minted[r] \in Tokens

\* Only ended requests have a reply.
Replied == \A r \in Requests : reply[r] # "none" => pc[r] = "done"

IInv == TypeOK /\ Places /\ Bodies /\ Signed /\ Replied

LEMMA InitIInv == Init => IInv
<1> SUFFICES ASSUME Init PROVE IInv
  OBVIOUS
<1>1. TypeOK
  <2>1. now \in 0..MaxTime
    BY Durations DEF Init
  <2>2. allowed \in [Replicas -> SUBSET Emails]
    BY Deployment DEF Init
  <2>3. metrics \in [Replicas -> Metrics]
    BY DEF Init, NoMetrics, Metrics
  <2> QED BY <2>1, <2>2, <2>3 DEF Init, TypeOK, Replies, Dtos
<1>2. Places /\ Bodies /\ Signed /\ Replied
  BY DEF Init, Places, Bodies, Signed, Replied, Requests, Minters
<1> QED BY <1>1, <1>2 DEF IInv
---------------------------------------------------------------------------
(* The counters of auth-metrics.ts stay counters. *)

LEMMA ExchangeCounter ==
  ASSUME NEW m \in Metrics, NEW status
  PROVE  recordPkceExchange(m, status) \in Metrics
BY DEF recordPkceExchange, Metrics

LEMMA InitiateCounter ==
  ASSUME NEW m \in Metrics
  PROVE  recordPkceInitiate(m) \in Metrics
BY DEF recordPkceInitiate, Metrics

LEMMA ReasonCounter ==
  ASSUME NEW m \in Metrics, NEW c \in Codes
  PROVE  recordLoginFailure(m, c) \in Metrics
<1>1. m.reasons \in [Codes -> Nat]
  BY DEF Metrics
<1>2. [m.reasons EXCEPT ![c] = @ + 1] \in [Codes -> Nat]
  BY <1>1
<1>3. recordLoginFailure(m, c)
        = [m EXCEPT !.reasons = [m.reasons EXCEPT ![c] = @ + 1]]
  BY DEF recordLoginFailure
<1> QED BY <1>2, <1>3 DEF Metrics

LEMMA FailureCounters ==
  ASSUME NEW m \in Metrics, NEW c \in Codes
  PROVE  failureMetrics(m, c) \in Metrics
<1>1. recordPkceExchange(m, "failure") \in Metrics
  BY ExchangeCounter
<1>2. recordLoginFailure(recordPkceExchange(m, "failure"), c) \in Metrics
  BY <1>1, ReasonCounter
<1>3. recordLoginFailure(
        recordLoginFailure(recordPkceExchange(m, "failure"), c), c) \in Metrics
  BY <1>2, ReasonCounter
<1>4. recordLoginFailure(m, c) \in Metrics
  BY ReasonCounter
<1> QED BY <1>3, <1>4 DEF failureMetrics

(* What the building blocks of the handlers do to the types. *)

LEMMA GotoTypes ==
  ASSUME TypeOK, NEW r \in Requests, NEW l \in Waiting, Goto(r, l), stays
  PROVE  /\ pc' \in [Requests -> Waiting \union {"new", "done"}]
         /\ reply' \in [Requests -> Replies]
         /\ metrics' \in [Replicas -> Metrics]
         /\ answered' \subseteq Requests
BY DEF TypeOK, Goto, stays

LEMMA AnswerTypes ==
  ASSUME TypeOK, NEW r \in Requests, NEW c \in Replies, Answer(r, c)
  PROVE  /\ pc' \in [Requests -> Waiting \union {"new", "done"}]
         /\ reply' \in [Requests -> Replies]
         /\ answered' \subseteq Requests
BY DEF TypeOK, Answer, Goto

LEMMA CountTypes ==
  ASSUME TypeOK, NEW r \in Requests,
         NEW m, m \in Metrics, Count(r, m)
  PROVE  metrics' \in [Replicas -> Metrics]
BY DEF TypeOK, Count

LEMMA MetricsOf ==
  ASSUME TypeOK, NEW r \in Requests
  PROVE  metrics[home[r]] \in Metrics
BY Deployment DEF TypeOK

LEMMA BreaksTypes ==
  ASSUME TypeOK, NEW r \in Requests, Breaks(r)
  PROVE  /\ pc' \in [Requests -> Waiting \union {"new", "done"}]
         /\ reply' \in [Requests -> Replies]
         /\ answered' \subseteq Requests
         /\ metrics' \in [Replicas -> Metrics]
<1>1. "INTERNAL" \in Replies
  BY DEF Replies
<1> QED BY <1>1, AnswerTypes DEF Breaks, TypeOK

LEMMA ExchangeFailsTypes ==
  ASSUME TypeOK, NEW x \in Exchanges, NEW c \in Codes, exchangeFails(x, c)
  PROVE  /\ pc' \in [Requests -> Waiting \union {"new", "done"}]
         /\ reply' \in [Requests -> Replies]
         /\ answered' \subseteq Requests
         /\ metrics' \in [Replicas -> Metrics]
<1>1. x \in Requests /\ c \in Replies
  BY DEF Requests, Replies
<1>2. failureMetrics(metrics[home[x]], c) \in Metrics
  BY <1>1, MetricsOf, FailureCounters
<1> QED BY <1>1, <1>2, AnswerTypes, CountTypes DEF exchangeFails

LEMMA RefreshFailsTypes ==
  ASSUME TypeOK, NEW f \in Refreshes, refreshFails(f)
  PROVE  /\ pc' \in [Requests -> Waiting \union {"new", "done"}]
         /\ reply' \in [Requests -> Replies]
         /\ answered' \subseteq Requests
         /\ metrics' \in [Replicas -> Metrics]
<1>1. f \in Requests /\ "INVALID_TOKEN" \in Replies \intersect Codes
  BY DEF Requests, Replies, Codes
<1>2. recordLoginFailure(metrics[home[f]], "INVALID_TOKEN") \in Metrics
  BY <1>1, MetricsOf, ReasonCounter
<1> QED BY <1>1, <1>2, AnswerTypes, CountTypes DEF refreshFails

LEMMA VerdictCode ==
  ASSUME NEW p, NEW e
  PROVE  SignInCheck(p, e) \in Codes \union {"OK"}
BY DEF SignInCheck, Codes

LEMMA ExchangeVerdictCode ==
  ASSUME NEW x
  PROVE  Verdict(x) \in Codes \union {"OK"}
<1>1. SignInCheck(home[x], SessionEmail(x)) \in Codes \union {"OK"}
  BY VerdictCode
<1> QED BY <1>1 DEF Verdict, Codes

LEMMA TtlTypes ==
  ASSUME TypeOK
  PROVE  /\ now \in Nat
         /\ now + PkceTtl \in Nat \ {0}
         /\ now + RefreshTtl \in Nat \ {0}
BY Durations DEF TypeOK
---------------------------------------------------------------------------
(* Every step of Next keeps the invariant. *)

LEMMA StepIInv == IInv /\ [Next]_vars => IInv'
<1> SUFFICES ASSUME IInv, [Next]_vars PROVE IInv'
  OBVIOUS
<1>1. ASSUME NEW i \in Initiates, NEW e \in Emails, NEW p \in Providers, initiatePkce(i, e, p)
      PROVE  IInv'
  <2>1. TypeOK'
    <3>1. i \in Requests /\ dto' \in [Requests -> Dtos]
      BY <1>1 DEF IInv, TypeOK, initiatePkce, InitiateDtos, Dtos, Requests
    <3>2. SignInCheck(home[i], e) \in Codes \union {"OK"}
      BY VerdictCode
    <3>3. CASE SignInCheck(home[i], e) = "OK"
      BY <1>1, <3>1, <3>3, GotoTypes
         DEF IInv, TypeOK, initiatePkce, cacheVars, Waiting
    <3>4. CASE SignInCheck(home[i], e) # "OK"
      <4>1. recordLoginFailure(metrics[home[i]], SignInCheck(home[i], e)) \in Metrics
        BY <3>1, <3>2, <3>4, MetricsOf, ReasonCounter DEF IInv
      <4>2. SignInCheck(home[i], e) \in Replies
        BY <3>2, <3>4 DEF Replies
      <4> QED BY <1>1, <3>1, <3>4, <4>1, <4>2, AnswerTypes, CountTypes
              DEF IInv, TypeOK, initiatePkce, cacheVars
    <3> QED BY <3>3, <3>4
  <2>2. Places'
    <3>1. i \in Requests /\ i \notin Exchanges \union Refreshes \union Logouts
      BY KindsAreDisjoint DEF Requests
    <3>2. pc'[i] \in {"set session", "done"}
      BY <1>1, <3>1 DEF IInv, TypeOK, initiatePkce, Answer, Goto
    <3>3. \A r \in Requests : r # i => pc'[r] = pc[r]
      BY <1>1 DEF IInv, TypeOK, initiatePkce, Answer, Goto
    <3> QED BY <3>1, <3>2, <3>3 DEF IInv, Places, Requests
  <2>3. Bodies'
    <3>1. dto'[i] \in InitiateDtos
      BY <1>1 DEF IInv, TypeOK, initiatePkce, InitiateDtos, Requests
    <3>2. pc[i] = "new"
      BY <1>1 DEF initiatePkce
    <3>3. \A r \in Requests : r # i => dto'[r] = dto[r] /\ pc'[r] = pc[r]
      BY <1>1 DEF IInv, TypeOK, initiatePkce, Answer, Goto
    <3>4. \A y \in Exchanges : dto[y] \in ExchangeDtos => dto[y].sid \in Initiates
      BY DEF ExchangeDtos
    <3> QED BY <3>1, <3>2, <3>3, <3>4, KindsAreDisjoint DEF IInv, Bodies, Requests
  <2>4. Signed'
    <3>1. minted' = minted /\ \A r \in Minters : r # i /\ r \in Requests
      BY <1>1, KindsAreDisjoint DEF initiatePkce, Requests, Minters
    <3>2. \A r \in Requests : r # i => pc'[r] = pc[r] /\ reply'[r] = reply[r]
      BY <1>1 DEF IInv, TypeOK, initiatePkce, Answer, Goto, stays
    <3> QED BY <3>1, <3>2 DEF IInv, Signed
  <2>5. Replied'
    BY <1>1 DEF IInv, TypeOK, Replied, initiatePkce, Answer, Goto, stays,
           cacheVars, Requests, Minters
  <2> QED BY <2>1, <2>2, <2>3, <2>4, <2>5 DEF IInv
<1>2. ASSUME NEW i \in Initiates, createSession(i)
      PROVE  IInv'
  <2>1. TypeOK'
    <3>1. i \in Requests
      BY DEF Requests
    <3>2. sessionExp' \in [Initiates -> Nat]
      BY <1>2, TtlTypes DEF IInv, TypeOK, createSession, setSession
    <3> QED BY <1>2, <3>1, <3>2, GotoTypes DEF IInv, TypeOK, createSession, Waiting
  <2>2. Places'
    BY <1>2, KindsAreDisjoint
       DEF IInv, TypeOK, Places, createSession,
           Goto, stays, Requests, Minters
  <2>3. Bodies'
    BY <1>2, KindsAreDisjoint
       DEF IInv, TypeOK, Places, Bodies,
           createSession, Goto, stays, Requests, Minters, ExchangeDtos
  <2>4. Signed'
    BY <1>2, KindsAreDisjoint
       DEF IInv, TypeOK, Places, Signed,
           createSession, Goto, stays, Requests, Minters
  <2>5. Replied'
    BY <1>2 DEF IInv, TypeOK, Replied, createSession, Goto, stays, Requests,
           Minters
  <2> QED BY <2>1, <2>2, <2>3, <2>4, <2>5 DEF IInv
<1>3. ASSUME NEW i \in Initiates, createSessionRejects(i)
      PROVE  IInv'
  <2>1. TypeOK'
    <3>1. i \in Requests
      BY DEF Requests
    <3>2. sessionExp' \in [Initiates -> Nat]
      BY <1>3, TtlTypes DEF IInv, TypeOK, createSessionRejects, setSession
    <3> QED BY <1>3, <3>1, <3>2, BreaksTypes DEF IInv, TypeOK, createSessionRejects
  <2>2. Places'
    BY <1>3, KindsAreDisjoint
       DEF IInv, TypeOK, Places,
           createSessionRejects, Answer, Goto, Breaks, Requests, Minters
  <2>3. Bodies'
    BY <1>3, KindsAreDisjoint
       DEF IInv, TypeOK, Places, Bodies,
           createSessionRejects, Answer, Goto, Breaks, Requests, Minters,
           ExchangeDtos
  <2>4. Signed'
    BY <1>3, KindsAreDisjoint
       DEF IInv, TypeOK, Places, Signed,
           createSessionRejects, Answer, Goto, Breaks, Requests, Minters
  <2>5. Replied'
    BY <1>3 DEF IInv, TypeOK, Replied, createSessionRejects, Answer, Goto,
           Breaks, Requests, Minters
  <2> QED BY <2>1, <2>2, <2>3, <2>4, <2>5 DEF IInv
<1>4. ASSUME NEW i \in Initiates, respondInitiate(i)
      PROVE  IInv'
  <2>1. TypeOK'
    <3>1. i \in Requests /\ "OK" \in Replies
      BY DEF Requests, Replies
    <3>2. recordPkceInitiate(metrics[home[i]]) \in Metrics
      BY <3>1, MetricsOf, InitiateCounter DEF IInv
    <3> QED BY <1>4, <3>1, <3>2, AnswerTypes, CountTypes
            DEF IInv, TypeOK, respondInitiate, cacheVars
  <2>2. Places'
    BY <1>4, KindsAreDisjoint
       DEF IInv, TypeOK, Places,
           respondInitiate, Answer, Goto, cacheVars, Requests, Minters
  <2>3. Bodies'
    BY <1>4, KindsAreDisjoint
       DEF IInv, TypeOK, Places, Bodies,
           respondInitiate, Answer, Goto, cacheVars, Requests, Minters,
           ExchangeDtos
  <2>4. Signed'
    BY <1>4, KindsAreDisjoint
       DEF IInv, TypeOK, Places, Signed,
           respondInitiate, Answer, Goto, cacheVars, Requests, Minters
  <2>5. Replied'
    BY <1>4 DEF IInv, TypeOK, Replied, respondInitiate, Answer, Goto,
           cacheVars, Requests, Minters
  <2> QED BY <2>1, <2>2, <2>3, <2>4, <2>5 DEF IInv
<1>5. ASSUME NEW x \in Exchanges, NEW s \in Initiates,
         NEW so \in BOOLEAN, NEW vo \in BOOLEAN, NEW hc \in BOOLEAN, exchangePkce(x, s, so, vo, hc)
      PROVE  IInv'
  <2>1. TypeOK'
    <3>1. x \in Requests /\ dto' \in [Requests -> Dtos]
      BY <1>5 DEF IInv, TypeOK, exchangePkce, ExchangeDtos, Dtos, Requests
    <3> QED BY <1>5, <3>1, GotoTypes
            DEF IInv, TypeOK, exchangePkce, cacheVars, Waiting
  <2>2. Places'
    BY <1>5, KindsAreDisjoint
       DEF IInv, TypeOK, Places, exchangePkce,
           Goto, stays, cacheVars, Requests, Minters
  <2>3. Bodies'
    <3>1. dto'[x] \in ExchangeDtos /\ dto'[x].sid = s
      BY <1>5 DEF IInv, TypeOK, exchangePkce, ExchangeDtos, Requests
    <3>2. \A r \in Requests : r # x => dto'[r] = dto[r] /\ pc'[r] = pc[r]
      BY <1>5 DEF IInv, TypeOK, exchangePkce, Goto
    <3>3. pc'[s] = "done" /\ pc[x] = "new"
      BY <1>5, <3>2, KindsAreDisjoint DEF exchangePkce, Requests
    <3>4. \A y \in Exchanges : dto[y] \in ExchangeDtos => dto[y].sid \in Initiates
      BY DEF ExchangeDtos
    <3>5. \A i \in Initiates : pc'[i] # "new" => dto'[i] \in InitiateDtos
      BY <3>2, KindsAreDisjoint DEF IInv, Bodies, Requests
    <3>6. ASSUME NEW y \in Exchanges, pc'[y] # "new"
          PROVE  dto'[y] \in ExchangeDtos /\ pc'[dto'[y].sid] = "done"
      <4>1. CASE y = x
        BY <3>1, <3>3, <4>1
      <4>2. CASE y # x
        BY <3>2, <3>4, <3>6, <4>2, KindsAreDisjoint DEF IInv, Bodies, Requests
      <4> QED BY <4>1, <4>2
    <3>7. \A f \in Refreshes : pc'[f] \notin {"new", "done"} => dto'[f] \in Tokens
      BY <3>2, KindsAreDisjoint DEF IInv, Bodies, Requests
    <3> QED BY <3>5, <3>6, <3>7 DEF Bodies
  <2>4. Signed'
    BY <1>5, KindsAreDisjoint
       DEF IInv, TypeOK, Places, Signed,
           exchangePkce, Goto, stays, cacheVars, Requests, Minters
  <2>5. Replied'
    BY <1>5 DEF IInv, TypeOK, Replied, exchangePkce, Goto, stays, cacheVars,
           Requests, Minters
  <2> QED BY <2>1, <2>2, <2>3, <2>4, <2>5 DEF IInv
<1>6. ASSUME NEW x \in Exchanges, consumeSessionGet(x)
      PROVE  IInv'
  <2>1. TypeOK'
    <3>1. x \in Requests /\ "INVALID_PKCE_SESSION" \in Codes
      BY DEF Requests, Codes
    <3> QED BY <1>6, <3>1, GotoTypes, ExchangeFailsTypes, BreaksTypes
            DEF IInv, TypeOK, consumeSessionGet, cacheVars, Waiting
  <2>2. Places'
    BY <1>6, KindsAreDisjoint
       DEF IInv, TypeOK, Places,
           consumeSessionGet, Answer, Goto, stays, Breaks, cacheVars,
           exchangeFails, Requests, Minters
  <2>3. Bodies'
    BY <1>6, KindsAreDisjoint
       DEF IInv, TypeOK, Places, Bodies,
           consumeSessionGet, Answer, Goto, stays, Breaks, cacheVars,
           exchangeFails, Requests, Minters, ExchangeDtos
  <2>4. Signed'
    BY <1>6, KindsAreDisjoint
       DEF IInv, TypeOK, Places, Signed,
           consumeSessionGet, Answer, Goto, stays, Breaks, cacheVars,
           exchangeFails, Requests, Minters
  <2>5. Replied'
    BY <1>6 DEF IInv, TypeOK, Replied, consumeSessionGet, Answer, Goto, stays,
           Breaks, cacheVars, exchangeFails, Requests, Minters
  <2> QED BY <2>1, <2>2, <2>3, <2>4, <2>5 DEF IInv
<1>7. ASSUME NEW x \in Exchanges, consumeSessionDel(x)
      PROVE  IInv'
  <2>1. TypeOK'
    <3>1. x \in Requests
      BY DEF Requests
    <3>2. sessionExp' \in [Initiates -> Nat]
      BY <1>7 DEF IInv, TypeOK, consumeSessionDel, delSession
    <3> QED BY <1>7, <3>1, <3>2, GotoTypes DEF IInv, TypeOK, consumeSessionDel, Waiting
  <2>2. Places'
    BY <1>7, KindsAreDisjoint
       DEF IInv, TypeOK, Places,
           consumeSessionDel, Goto, stays, Requests, Minters
  <2>3. Bodies'
    BY <1>7, KindsAreDisjoint
       DEF IInv, TypeOK, Places, Bodies,
           consumeSessionDel, Goto, stays, Requests, Minters, ExchangeDtos
  <2>4. Signed'
    BY <1>7, KindsAreDisjoint
       DEF IInv, TypeOK, Places, Signed,
           consumeSessionDel, Goto, stays, Requests, Minters
  <2>5. Replied'
    BY <1>7 DEF IInv, TypeOK, Replied, consumeSessionDel, Goto, stays,
           Requests, Minters
  <2> QED BY <2>1, <2>2, <2>3, <2>4, <2>5 DEF IInv
<1>8. ASSUME NEW x \in Exchanges, consumeSessionDelRejects(x)
      PROVE  IInv'
  <2>1. TypeOK'
    <3>1. x \in Requests
      BY DEF Requests
    <3>2. sessionExp' \in [Initiates -> Nat]
      <4>1. CASE delSession(x)
        BY <4>1 DEF IInv, TypeOK, delSession
      <4>2. CASE UNCHANGED sessionExp
        BY <4>2 DEF IInv, TypeOK
      <4> QED BY <1>8, <4>1, <4>2 DEF consumeSessionDelRejects
    <3> QED BY <1>8, <3>1, <3>2, BreaksTypes
            DEF IInv, TypeOK, consumeSessionDelRejects
  <2>2. Places'
    BY <1>8, KindsAreDisjoint
       DEF IInv, TypeOK, Places,
           consumeSessionDelRejects, Answer, Goto, Breaks, Requests, Minters
  <2>3. Bodies'
    BY <1>8, KindsAreDisjoint
       DEF IInv, TypeOK, Places, Bodies,
           consumeSessionDelRejects, Answer, Goto, Breaks, Requests, Minters,
           ExchangeDtos
  <2>4. Signed'
    BY <1>8, KindsAreDisjoint
       DEF IInv, TypeOK, Places, Signed,
           consumeSessionDelRejects, Answer, Goto, Breaks, Requests, Minters
  <2>5. Replied'
    BY <1>8 DEF IInv, TypeOK, Replied, consumeSessionDelRejects, Answer, Goto,
           Breaks, Requests, Minters
  <2> QED BY <2>1, <2>2, <2>3, <2>4, <2>5 DEF IInv
<1>9. ASSUME NEW x \in Exchanges, checkExchange(x)
      PROVE  IInv'
  <2>0. SessionEmail(x) \in Emails
    BY <1>9, KindsAreDisjoint
       DEF IInv, Bodies, Places, checkExchange, SessionEmail, InitiateDtos, ExchangeDtos
  <2>1. TypeOK'
    <3>1. x \in Requests /\ x \in Minters
      BY DEF Requests, Minters
    <3>2. Verdict(x) \in Codes \union {"OK"}
      BY ExchangeVerdictCode
    <3>3. CASE Verdict(x) = "OK"
      <4>1. minted' \in [Minters -> Tokens \union {NoToken}]
        BY <1>9, <2>0, <3>1, <3>3 DEF IInv, TypeOK, checkExchange, signRefreshToken, Tokens
      <4> QED BY <1>9, <3>1, <3>3, <4>1, GotoTypes
              DEF IInv, TypeOK, checkExchange, signRefreshToken, cacheVars, Waiting
    <3>4. CASE Verdict(x) # "OK"
      BY <1>9, <3>1, <3>2, <3>4, ExchangeFailsTypes
         DEF IInv, TypeOK, checkExchange, cacheVars
    <3> QED BY <3>3, <3>4
  <2>2. Places'
    BY <1>9, KindsAreDisjoint
       DEF IInv, TypeOK, Places, checkExchange,
           Answer, Goto, stays, cacheVars, exchangeFails, signRefreshToken,
           Requests, Minters
  <2>3. Bodies'
    BY <1>9, KindsAreDisjoint
       DEF IInv, TypeOK, Places, Bodies,
           checkExchange, Answer, Goto, stays, cacheVars, exchangeFails,
           signRefreshToken, Requests, Minters, ExchangeDtos
  <2>4. Signed'
    <3>1. CASE Verdict(x) = "OK"
      <4>1. x \in Minters /\ [email |-> SessionEmail(x), iat |-> now] \in Tokens
        BY <2>0 DEF IInv, TypeOK, Minters, Tokens
      <4>2. minted' = [minted EXCEPT ![x] = [email |-> SessionEmail(x), iat |-> now]]
        BY <1>9, <3>1 DEF checkExchange, signRefreshToken
      <4>3. minted'[x] \in Tokens
        BY <4>1, <4>2 DEF IInv, TypeOK
      <4>4. \A r \in Minters : r # x =>
              minted'[r] = minted[r] /\ pc'[r] = pc[r] /\ reply'[r] = reply[r]
        BY <1>9, <3>1, <4>1, <4>2
           DEF IInv, TypeOK, checkExchange, signRefreshToken, Goto, stays, Requests, Minters
      <4> QED BY <4>3, <4>4 DEF IInv, Signed
    <3>2. CASE Verdict(x) # "OK"
      <4>1. Verdict(x) # "OK" /\ pc'[x] = "done" /\ reply'[x] # "OK"
        BY <1>9, <3>2 DEF IInv, TypeOK, checkExchange, exchangeFails, Answer, Goto, Requests
      <4> QED BY <1>9, <3>2, <4>1
         DEF IInv, TypeOK, Signed, checkExchange, exchangeFails, Answer, Goto,
             Requests, Minters
    <3> QED BY <3>1, <3>2
  <2>5. Replied'
    BY <1>9 DEF IInv, TypeOK, Replied, checkExchange, Answer, Goto, stays,
           cacheVars, exchangeFails, signRefreshToken, Requests, Minters
  <2> QED BY <2>1, <2>2, <2>3, <2>4, <2>5 DEF IInv
<1>10. ASSUME NEW r \in Minters, storeRefreshToken(r)
      PROVE  IInv'
  <2>1. TypeOK'
    <3>1. r \in Requests
      BY DEF Requests, Minters
    <3>2. refreshExp' \in [Tokens -> Nat]
      BY <1>10, TtlTypes DEF IInv, TypeOK, storeRefreshToken, setToken
    <3> QED BY <1>10, <3>1, <3>2, GotoTypes DEF IInv, TypeOK, storeRefreshToken, Waiting
  <2>2. Places'
    BY <1>10, KindsAreDisjoint
       DEF IInv, TypeOK, Places,
           storeRefreshToken, Goto, stays, Requests, Minters
  <2>3. Bodies'
    BY <1>10, KindsAreDisjoint
       DEF IInv, TypeOK, Places, Bodies,
           storeRefreshToken, Goto, stays, Requests, Minters, ExchangeDtos
  <2>4. Signed'
    BY <1>10, KindsAreDisjoint
       DEF IInv, TypeOK, Places, Signed,
           storeRefreshToken, Goto, stays, Requests, Minters
  <2>5. Replied'
    BY <1>10 DEF IInv, TypeOK, Replied, storeRefreshToken, Goto, stays,
           Requests, Minters
  <2> QED BY <2>1, <2>2, <2>3, <2>4, <2>5 DEF IInv
<1>11. ASSUME NEW r \in Minters, storeRefreshTokenRejects(r)
      PROVE  IInv'
  <2>1. TypeOK'
    <3>1. r \in Requests
      BY DEF Requests, Minters
    <3>2. refreshExp' \in [Tokens -> Nat]
      BY <1>11, TtlTypes DEF IInv, TypeOK, storeRefreshTokenRejects, setToken
    <3> QED BY <1>11, <3>1, <3>2, BreaksTypes
            DEF IInv, TypeOK, storeRefreshTokenRejects
  <2>2. Places'
    BY <1>11, KindsAreDisjoint
       DEF IInv, TypeOK, Places,
           storeRefreshTokenRejects, Answer, Goto, Breaks, Requests, Minters
  <2>3. Bodies'
    BY <1>11, KindsAreDisjoint
       DEF IInv, TypeOK, Places, Bodies,
           storeRefreshTokenRejects, Answer, Goto, Breaks, Requests, Minters,
           ExchangeDtos
  <2>4. Signed'
    BY <1>11, KindsAreDisjoint
       DEF IInv, TypeOK, Places, Signed,
           storeRefreshTokenRejects, Answer, Goto, Breaks, Requests, Minters
  <2>5. Replied'
    BY <1>11 DEF IInv, TypeOK, Replied, storeRefreshTokenRejects, Answer,
           Goto, Breaks, Requests, Minters
  <2> QED BY <2>1, <2>2, <2>3, <2>4, <2>5 DEF IInv
<1>12. ASSUME NEW x \in Exchanges, respondExchange(x)
      PROVE  IInv'
  <2>1. TypeOK'
    <3>1. x \in Requests /\ "OK" \in Replies
      BY DEF Requests, Replies
    <3>2. recordPkceExchange(metrics[home[x]], "success") \in Metrics
      BY <3>1, MetricsOf, ExchangeCounter DEF IInv
    <3> QED BY <1>12, <3>1, <3>2, AnswerTypes, CountTypes
            DEF IInv, TypeOK, respondExchange, cacheVars
  <2>2. Places'
    BY <1>12, KindsAreDisjoint
       DEF IInv, TypeOK, Places,
           respondExchange, Answer, Goto, cacheVars, Requests, Minters
  <2>3. Bodies'
    BY <1>12, KindsAreDisjoint
       DEF IInv, TypeOK, Places, Bodies,
           respondExchange, Answer, Goto, cacheVars, Requests, Minters,
           ExchangeDtos
  <2>4. Signed'
    BY <1>12, KindsAreDisjoint
       DEF IInv, TypeOK, Places, Signed,
           respondExchange, Answer, Goto, cacheVars, Requests, Minters
  <2>5. Replied'
    BY <1>12 DEF IInv, TypeOK, Replied, respondExchange, Answer, Goto,
           cacheVars, Requests, Minters
  <2> QED BY <2>1, <2>2, <2>3, <2>4, <2>5 DEF IInv
<1>13. ASSUME NEW f \in Refreshes, NEW t \in Presentable, refreshAccessToken(f, t)
      PROVE  IInv'
  <2>0. t \in TokenDtos
    BY DEF IInv, Signed, Presentable, TokenDtos
  <2>1. TypeOK'
    <3>1. f \in Requests /\ dto' \in [Requests -> Dtos]
      BY <1>13, <2>0 DEF IInv, TypeOK, refreshAccessToken, TokenDtos, Dtos, Requests
    <3> QED BY <1>13, <3>1, GotoTypes, RefreshFailsTypes
            DEF IInv, TypeOK, refreshAccessToken, cacheVars, Waiting
  <2>2. Places'
    <3>1. /\ f \in Requests
          /\ f \notin Initiates /\ f \notin Exchanges /\ f \notin Logouts
      BY KindsAreDisjoint DEF Requests
    <3>2. pc'[f] \in {"get token", "done"}
      BY <1>13, <3>1 DEF IInv, TypeOK, refreshAccessToken, refreshFails, Answer, Goto
    <3>3. \A r \in Requests : r # f => pc'[r] = pc[r]
      BY <1>13 DEF IInv, TypeOK, refreshAccessToken, refreshFails, Answer, Goto
    <3> QED BY <3>1, <3>2, <3>3 DEF IInv, Places, Requests
  <2>3. Bodies'
    <3>1. Verifies(t) => t \in Tokens
      BY DEF Verifies
    <3>2. dto'[f] = t /\ (pc'[f] # "done" => t \in Tokens)
      BY <1>13, <3>1 DEF IInv, TypeOK, refreshAccessToken, refreshFails, Answer, Goto, Requests
    <3>3. \A r \in Requests : r # f => dto'[r] = dto[r] /\ pc'[r] = pc[r]
      BY <1>13 DEF IInv, TypeOK, refreshAccessToken, refreshFails, Answer, Goto
    <3>4. \A y \in Exchanges : dto[y] \in ExchangeDtos => dto[y].sid \in Initiates
      BY DEF ExchangeDtos
    <3> QED BY <3>2, <3>3, <3>4, KindsAreDisjoint DEF IInv, Bodies, Requests
  <2>4. Signed'
    <3>1. f \in Requests /\ minted' = minted /\ \A r \in Minters : r \in Requests
      BY <1>13 DEF refreshAccessToken, Requests, Minters
    <3>2. \A r \in Requests : r # f => pc'[r] = pc[r] /\ reply'[r] = reply[r]
      BY <1>13 DEF IInv, TypeOK, refreshAccessToken, refreshFails, Answer, Goto, stays
    <3>3. /\ pc'[f] \in {"get token", "done"}
          /\ reply'[f] = "OK" => reply[f] = "OK"
      BY <1>13, <3>1
         DEF IInv, TypeOK, refreshAccessToken, refreshFails, Answer, Goto, stays
    <3> QED BY <3>1, <3>2, <3>3 DEF IInv, Signed
  <2>5. Replied'
    BY <1>13 DEF IInv, TypeOK, Replied, refreshAccessToken, Answer, Goto,
           stays, cacheVars, refreshFails, Requests, Minters
  <2> QED BY <2>1, <2>2, <2>3, <2>4, <2>5 DEF IInv
<1>14. ASSUME NEW f \in Refreshes, validateRefreshToken(f)
      PROVE  IInv'
  <2>1. TypeOK'
    <3>1. f \in Requests
      BY DEF Requests
    <3> QED BY <1>14, <3>1, GotoTypes, RefreshFailsTypes
            DEF IInv, TypeOK, validateRefreshToken, cacheVars, Waiting
  <2>2. Places'
    BY <1>14, KindsAreDisjoint
       DEF IInv, TypeOK, Places,
           validateRefreshToken, Answer, Goto, stays, cacheVars, refreshFails,
           Requests, Minters
  <2>3. Bodies'
    BY <1>14, KindsAreDisjoint
       DEF IInv, TypeOK, Places, Bodies,
           validateRefreshToken, Answer, Goto, stays, cacheVars, refreshFails,
           Requests, Minters, ExchangeDtos
  <2>4. Signed'
    BY <1>14, KindsAreDisjoint
       DEF IInv, TypeOK, Places, Signed,
           validateRefreshToken, Answer, Goto, stays, cacheVars, refreshFails,
           Requests, Minters
  <2>5. Replied'
    BY <1>14 DEF IInv, TypeOK, Replied, validateRefreshToken, Answer, Goto,
           stays, cacheVars, refreshFails, Requests, Minters
  <2> QED BY <2>1, <2>2, <2>3, <2>4, <2>5 DEF IInv
<1>15. ASSUME NEW r \in Refreshes \union Logouts, revokeRefreshToken(r)
      PROVE  IInv'
  <2>1. TypeOK'
    <3>1. r \in Requests
      BY DEF Requests
    <3>2. refreshExp' \in [Tokens -> Nat]
      BY <1>15 DEF IInv, TypeOK, revokeRefreshToken, delToken
    <3> QED BY <1>15, <3>1, <3>2, GotoTypes DEF IInv, TypeOK, revokeRefreshToken, Waiting
  <2>2. Places'
    BY <1>15, KindsAreDisjoint
       DEF IInv, TypeOK, Places,
           revokeRefreshToken, Goto, stays, Requests, Minters
  <2>3. Bodies'
    BY <1>15, KindsAreDisjoint
       DEF IInv, TypeOK, Places, Bodies,
           revokeRefreshToken, Goto, stays, Requests, Minters, ExchangeDtos
  <2>4. Signed'
    BY <1>15, KindsAreDisjoint
       DEF IInv, TypeOK, Places, Signed,
           revokeRefreshToken, Goto, stays, Requests, Minters
  <2>5. Replied'
    BY <1>15 DEF IInv, TypeOK, Replied, revokeRefreshToken, Goto, stays,
           Requests, Minters
  <2> QED BY <2>1, <2>2, <2>3, <2>4, <2>5 DEF IInv
<1>16. ASSUME NEW r \in Refreshes \union Logouts, revokeRefreshTokenRejects(r)
      PROVE  IInv'
  <2>1. TypeOK'
    <3>1. r \in Requests
      BY DEF Requests
    <3>2. refreshExp' \in [Tokens -> Nat]
      <4>1. CASE delToken(r)
        BY <4>1 DEF IInv, TypeOK, delToken
      <4>2. CASE UNCHANGED refreshExp
        BY <4>2 DEF IInv, TypeOK
      <4> QED BY <1>16, <4>1, <4>2 DEF revokeRefreshTokenRejects
    <3> QED BY <1>16, <3>1, <3>2, BreaksTypes
            DEF IInv, TypeOK, revokeRefreshTokenRejects
  <2>2. Places'
    BY <1>16, KindsAreDisjoint
       DEF IInv, TypeOK, Places,
           revokeRefreshTokenRejects, Answer, Goto, Breaks, Requests, Minters
  <2>3. Bodies'
    BY <1>16, KindsAreDisjoint
       DEF IInv, TypeOK, Places, Bodies,
           revokeRefreshTokenRejects, Answer, Goto, Breaks, Requests, Minters,
           ExchangeDtos
  <2>4. Signed'
    BY <1>16, KindsAreDisjoint
       DEF IInv, TypeOK, Places, Signed,
           revokeRefreshTokenRejects, Answer, Goto, Breaks, Requests, Minters
  <2>5. Replied'
    BY <1>16 DEF IInv, TypeOK, Replied, revokeRefreshTokenRejects, Answer,
           Goto, Breaks, Requests, Minters
  <2> QED BY <2>1, <2>2, <2>3, <2>4, <2>5 DEF IInv
<1>17. ASSUME NEW f \in Refreshes, createAuthResponse(f)
      PROVE  IInv'
  <2>0. dto[f].email \in Emails
    BY <1>17 DEF IInv, Bodies, createAuthResponse, Tokens
  <2>1. TypeOK'
    <3>1. f \in Requests /\ f \in Minters
      BY DEF Requests, Minters
    <3>2. minted' \in [Minters -> Tokens \union {NoToken}]
      BY <1>17, <2>0, <3>1 DEF IInv, TypeOK, createAuthResponse, signRefreshToken, Tokens
    <3> QED BY <1>17, <3>1, <3>2, GotoTypes
            DEF IInv, TypeOK, createAuthResponse, signRefreshToken, cacheVars, Waiting
  <2>2. Places'
    BY <1>17, KindsAreDisjoint
       DEF IInv, TypeOK, Places,
           createAuthResponse, Goto, stays, cacheVars, signRefreshToken,
           Requests, Minters
  <2>3. Bodies'
    BY <1>17, KindsAreDisjoint
       DEF IInv, TypeOK, Places, Bodies,
           createAuthResponse, Goto, stays, cacheVars, signRefreshToken,
           Requests, Minters, ExchangeDtos
  <2>4. Signed'
    BY <1>17, <2>0
       DEF IInv, TypeOK, Signed, createAuthResponse, signRefreshToken, Goto, stays,
           Requests, Minters, Tokens
  <2>5. Replied'
    BY <1>17 DEF IInv, TypeOK, Replied, createAuthResponse, Goto, stays,
           cacheVars, signRefreshToken, Requests, Minters
  <2> QED BY <2>1, <2>2, <2>3, <2>4, <2>5 DEF IInv
<1>18. ASSUME NEW l \in Logouts, NEW t \in Presentable, logout(l, t)
      PROVE  IInv'
  <2>0. t \in TokenDtos
    BY DEF IInv, Signed, Presentable, TokenDtos
  <2>1. TypeOK'
    <3>1. l \in Requests /\ dto' \in [Requests -> Dtos]
      BY <1>18, <2>0 DEF IInv, TypeOK, logout, TokenDtos, Dtos, Requests
    <3> QED BY <1>18, <3>1, GotoTypes
            DEF IInv, TypeOK, logout, cacheVars, Waiting
  <2>2. Places'
    BY <1>18, KindsAreDisjoint
       DEF IInv, TypeOK, Places, logout, Goto,
           stays, cacheVars, Requests, Minters
  <2>3. Bodies'
    <3>1. \A r \in Requests : r # l => dto'[r] = dto[r] /\ pc'[r] = pc[r]
      BY <1>18 DEF IInv, TypeOK, logout, Goto
    <3>2. \A y \in Exchanges : dto[y] \in ExchangeDtos => dto[y].sid \in Initiates
      BY DEF ExchangeDtos
    <3> QED BY <3>1, <3>2, KindsAreDisjoint DEF IInv, Bodies, Requests
  <2>4. Signed'
    BY <1>18, KindsAreDisjoint
       DEF IInv, TypeOK, Places, Signed,
           logout, Goto, stays, cacheVars, Requests, Minters
  <2>5. Replied'
    BY <1>18 DEF IInv, TypeOK, Replied, logout, Goto, stays, cacheVars,
           Requests, Minters
  <2> QED BY <2>1, <2>2, <2>3, <2>4, <2>5 DEF IInv
<1>19. ASSUME NEW r \in Refreshes \union Logouts, respondPlain(r)
      PROVE  IInv'
  <2>1. TypeOK'
    <3>1. r \in Requests /\ "OK" \in Replies
      BY DEF Requests, Replies
    <3> QED BY <1>19, <3>1, AnswerTypes
            DEF IInv, TypeOK, respondPlain, cacheVars
  <2>2. Places'
    BY <1>19, KindsAreDisjoint
       DEF IInv, TypeOK, Places, respondPlain,
           Answer, Goto, cacheVars, Requests, Minters
  <2>3. Bodies'
    BY <1>19, KindsAreDisjoint
       DEF IInv, TypeOK, Places, Bodies,
           respondPlain, Answer, Goto, cacheVars, Requests, Minters,
           ExchangeDtos
  <2>4. Signed'
    BY <1>19, KindsAreDisjoint
       DEF IInv, TypeOK, Places, Signed,
           respondPlain, Answer, Goto, cacheVars, Requests, Minters
  <2>5. Replied'
    BY <1>19 DEF IInv, TypeOK, Replied, respondPlain, Answer, Goto, cacheVars,
           Requests, Minters
  <2> QED BY <2>1, <2>2, <2>3, <2>4, <2>5 DEF IInv
<1>20. ASSUME Tick PROVE IInv'
  <2>1. TypeOK'
    <3>1. now' \in 0..MaxTime
      BY <1>20, Durations DEF IInv, TypeOK, Tick
    <3> QED BY <1>20, <3>1 DEF IInv, TypeOK, Tick, cacheVars
  <2>2. Places'
    BY <1>20, KindsAreDisjoint
       DEF IInv, TypeOK, Places, Tick,
           cacheVars, Requests, Minters
  <2>3. Bodies'
    BY <1>20, KindsAreDisjoint
       DEF IInv, TypeOK, Places, Bodies, Tick,
           cacheVars, Requests, Minters, ExchangeDtos
  <2>4. Signed'
    BY <1>20, KindsAreDisjoint
       DEF IInv, TypeOK, Places, Signed, Tick,
           cacheVars, Requests, Minters
  <2>5. Replied'
    BY <1>20 DEF IInv, TypeOK, Replied, Tick, cacheVars, Requests, Minters
  <2> QED BY <2>1, <2>2, <2>3, <2>4, <2>5 DEF IInv
<1>21. ASSUME NEW i \in Initiates, expireSession(i)
      PROVE  IInv'
  <2>1. TypeOK'
    BY <1>21 DEF IInv, TypeOK, expireSession
  <2>2. Places'
    BY <1>21, KindsAreDisjoint
       DEF IInv, TypeOK, Places, expireSession,
           Requests, Minters
  <2>3. Bodies'
    BY <1>21, KindsAreDisjoint
       DEF IInv, TypeOK, Places, Bodies,
           expireSession, Requests, Minters, ExchangeDtos
  <2>4. Signed'
    BY <1>21, KindsAreDisjoint
       DEF IInv, TypeOK, Places, Signed,
           expireSession, Requests, Minters
  <2>5. Replied'
    BY <1>21 DEF IInv, TypeOK, Replied, expireSession, Requests, Minters
  <2> QED BY <2>1, <2>2, <2>3, <2>4, <2>5 DEF IInv
<1>22. ASSUME NEW t \in Tokens, expireToken(t)
      PROVE  IInv'
  <2>1. TypeOK'
    BY <1>22 DEF IInv, TypeOK, expireToken
  <2>2. Places'
    BY <1>22, KindsAreDisjoint
       DEF IInv, TypeOK, Places, expireToken,
           Requests, Minters
  <2>3. Bodies'
    BY <1>22, KindsAreDisjoint
       DEF IInv, TypeOK, Places, Bodies,
           expireToken, Requests, Minters, ExchangeDtos
  <2>4. Signed'
    BY <1>22, KindsAreDisjoint
       DEF IInv, TypeOK, Places, Signed,
           expireToken, Requests, Minters
  <2>5. Replied'
    BY <1>22 DEF IInv, TypeOK, Replied, expireToken, Requests, Minters
  <2> QED BY <2>1, <2>2, <2>3, <2>4, <2>5 DEF IInv
<1>23. ASSUME NEW p \in Replicas, NEW list \in AllowLists, restart(p, list)
      PROVE  IInv'
  <2>1. TypeOK'
    <3>1. NoMetrics \in Metrics
      BY DEF NoMetrics, Metrics
    <3>2. allowed' \in [Replicas -> SUBSET Emails]
      BY <1>23, Deployment DEF IInv, TypeOK, restart
    <3>3. sessionExp' \in [Initiates -> Nat] /\ refreshExp' \in [Tokens -> Nat]
      BY <1>23 DEF IInv, TypeOK, restart, cacheVars
    <3>4. pc' \in [Requests -> Waiting \union {"new", "done"}]
      BY <1>23 DEF IInv, TypeOK, restart
    <3>5. reply' \in [Requests -> Replies]
      BY <1>23 DEF IInv, TypeOK, restart, Replies
    <3>6. metrics' \in [Replicas -> Metrics] /\ answered' \subseteq Requests
      BY <1>23, <3>1 DEF IInv, TypeOK, restart
    <3> QED BY <1>23, <3>2, <3>3, <3>4, <3>5, <3>6 DEF IInv, TypeOK, restart
  <2>2. Places'
    BY <1>23, KindsAreDisjoint
       DEF IInv, TypeOK, Places, restart,
           cacheVars, InFlight, Requests, Minters
  <2>3. Bodies'
    BY <1>23, KindsAreDisjoint
       DEF IInv, TypeOK, Places, Bodies,
           restart, cacheVars, InFlight, Requests, Minters, ExchangeDtos
  <2>4. Signed'
    BY <1>23, KindsAreDisjoint
       DEF IInv, TypeOK, Places, Signed,
           restart, cacheVars, InFlight, Requests, Minters
  <2>5. Replied'
    BY <1>23 DEF IInv, TypeOK, Replied, restart, cacheVars, InFlight,
           Requests, Minters
  <2> QED BY <2>1, <2>2, <2>3, <2>4, <2>5 DEF IInv
<1>24. CASE UNCHANGED vars
  BY <1>24 DEF vars, cacheVars, IInv, TypeOK, Places, Bodies, Signed, Replied
<1> QED
  BY <1>1, <1>2, <1>3, <1>4, <1>5, <1>6, <1>7, <1>8, <1>9, <1>10, <1>11, <1>12, <1>13, <1>14, <1>15, <1>16, <1>17, <1>18, <1>19, <1>20, <1>21, <1>22, <1>23, <1>24
     DEF Next, Arrive, InitiateStep, ExchangeStep, RefreshStep, LogoutStep, Environment, Minters

\* Type correctness (TypeOK), in every deployment.
THEOREM TypeCorrect == Spec => []TypeOK
<1>1. IInv => TypeOK
  BY DEF IInv
<1> QED BY InitIInv, StepIInv, <1>1, PTL DEF Spec
---------------------------------------------------------------------------
(* A session that was consumed stays out of the cache. *)

\* The record of an exchange that is past its delete, or was answered, is
\* gone; the record of an initiate that has not reached its set is not there.
Settled ==
  \A x \in Exchanges :
    \/ pc[x] \in {"check", "set token", "respond"}
    \/ pc[x] = "done" /\ reply[x] \notin {"INTERNAL", "lost"}
    => sessionExp[dto[x].sid] = 0
Unopened ==
  \A i \in Initiates : pc[i] \in {"new", "set session"} => sessionExp[i] = 0
SessionInv == Settled /\ Unopened

LEMMA InitSessionInv == Init => SessionInv
BY DEF Init, SessionInv, Settled, Unopened, Requests

LEMMA StepSessionInv == IInv /\ SessionInv /\ [Next]_vars => SessionInv'
<1> SUFFICES ASSUME IInv, SessionInv, [Next]_vars PROVE SessionInv'
  OBVIOUS
<1>0. \A x \in Exchanges : pc[x] # "new" => dto[x].sid \in Initiates
  BY DEF IInv, Bodies, ExchangeDtos
<1>1. ASSUME NEW i \in Initiates, NEW e \in Emails, NEW p \in Providers, initiatePkce(i, e, p)
      PROVE  SessionInv'
  <2>1. pc[i] = "new" /\ UNCHANGED sessionExp
    BY <1>1 DEF initiatePkce, cacheVars
  <2>2. \A r \in Requests :
          r # i => dto'[r] = dto[r] /\ pc'[r] = pc[r] /\ reply'[r] = reply[r]
    BY <1>1 DEF IInv, TypeOK, initiatePkce, Answer, Goto, stays
  <2> QED BY <2>1, <2>2, KindsAreDisjoint
          DEF SessionInv, Settled, Unopened, Requests
<1>2. ASSUME NEW i \in Initiates, createSession(i)
      PROVE  SessionInv'
  BY <1>2, <1>0, KindsAreDisjoint
     DEF IInv, TypeOK, Places, Bodies,
         SessionInv, Settled, Unopened, createSession, Goto, stays,
         setSession, Requests, Minters
<1>3. ASSUME NEW i \in Initiates, createSessionRejects(i)
      PROVE  SessionInv'
  <2>1. /\ i \in Requests /\ i \notin Exchanges /\ dto' = dto
        /\ pc[i] = "set session" /\ \A y \in Exchanges : y \in Requests
    BY <1>3, KindsAreDisjoint DEF createSessionRejects, Requests
  <2>2. \A r \in Requests : r # i => pc'[r] = pc[r] /\ reply'[r] = reply[r]
    BY <1>3 DEF IInv, TypeOK, createSessionRejects, Breaks, Answer, Goto
  <2>3. pc'[i] = "done"
    BY <1>3, <2>1 DEF IInv, TypeOK, createSessionRejects, Breaks, Answer, Goto
  <2>4. \A s \in Initiates : s # i => sessionExp'[s] = sessionExp[s]
    BY <1>3 DEF IInv, TypeOK, createSessionRejects, setSession
  <2>5. Unopened'
    BY <2>2, <2>3, <2>4 DEF SessionInv, Unopened, Requests
  <2>6. \A y \in Exchanges : pc[y] # "new" => dto[y].sid # i
    BY <2>1 DEF IInv, Bodies
  <2>7. Settled'
    BY <1>0, <2>1, <2>2, <2>4, <2>6 DEF SessionInv, Settled
  <2> QED BY <2>5, <2>7 DEF SessionInv
<1>4. ASSUME NEW i \in Initiates, respondInitiate(i)
      PROVE  SessionInv'
  BY <1>4, <1>0, KindsAreDisjoint
     DEF IInv, TypeOK, Places, Bodies,
         SessionInv, Settled, Unopened, respondInitiate, Answer, Goto,
         cacheVars, Requests, Minters
<1>5. ASSUME NEW x \in Exchanges, NEW s \in Initiates,
         NEW so \in BOOLEAN, NEW vo \in BOOLEAN, NEW hc \in BOOLEAN, exchangePkce(x, s, so, vo, hc)
      PROVE  SessionInv'
  BY <1>5, <1>0, KindsAreDisjoint
     DEF IInv, TypeOK, Places, Bodies,
         SessionInv, Settled, Unopened, exchangePkce, Goto, stays, cacheVars,
         Requests, Minters
<1>6. ASSUME NEW x \in Exchanges, consumeSessionGet(x)
      PROVE  SessionInv'
  <2>1. /\ x \in Requests /\ x \notin Initiates
        /\ pc[x] = "get session" /\ dto' = dto /\ sessionExp' = sessionExp
        /\ \A y \in Exchanges : y \in Requests
    BY <1>6, KindsAreDisjoint DEF consumeSessionGet, cacheVars, Requests
  <2>2. \A r \in Requests : r # x => pc'[r] = pc[r] /\ reply'[r] = reply[r]
    BY <1>6
       DEF IInv, TypeOK, consumeSessionGet, Breaks, exchangeFails, Answer, Goto, stays
  <2>3. \/ pc'[x] = "delete session"
        \/ sessionExp[dto[x].sid] = 0
        \/ pc'[x] = "done" /\ reply'[x] = "INTERNAL"
    BY <1>6, <2>1
       DEF IInv, TypeOK, consumeSessionGet, Breaks, exchangeFails, Answer, Goto, stays
  <2>4. \A j \in Initiates : pc'[j] = pc[j]
    BY <2>1, <2>2 DEF Requests
  <2> QED BY <1>0, <2>1, <2>2, <2>3, <2>4 DEF SessionInv, Settled, Unopened
<1>7. ASSUME NEW x \in Exchanges, consumeSessionDel(x)
      PROVE  SessionInv'
  BY <1>7, <1>0, KindsAreDisjoint
     DEF IInv, TypeOK, Places, Bodies,
         SessionInv, Settled, Unopened, consumeSessionDel, Goto, stays,
         delSession, Requests, Minters
<1>8. ASSUME NEW x \in Exchanges, consumeSessionDelRejects(x)
      PROVE  SessionInv'
  BY <1>8, <1>0, KindsAreDisjoint
     DEF IInv, TypeOK, Places, Bodies,
         SessionInv, Settled, Unopened, consumeSessionDelRejects, Answer,
         Goto, Breaks, delSession, Requests, Minters
<1>9. ASSUME NEW x \in Exchanges, checkExchange(x)
      PROVE  SessionInv'
  BY <1>9, <1>0, KindsAreDisjoint
     DEF IInv, TypeOK, Places, Bodies,
         SessionInv, Settled, Unopened, checkExchange, Answer, Goto, stays,
         cacheVars, exchangeFails, signRefreshToken, Requests, Minters
<1>10. ASSUME NEW r \in Minters, storeRefreshToken(r)
      PROVE  SessionInv'
  BY <1>10, <1>0, KindsAreDisjoint
     DEF IInv, TypeOK, Places, Bodies,
         SessionInv, Settled, Unopened, storeRefreshToken, Goto, stays,
         setToken, Requests, Minters
<1>11. ASSUME NEW r \in Minters, storeRefreshTokenRejects(r)
      PROVE  SessionInv'
  BY <1>11, <1>0, KindsAreDisjoint
     DEF IInv, TypeOK, Places, Bodies,
         SessionInv, Settled, Unopened, storeRefreshTokenRejects, Answer,
         Goto, Breaks, setToken, Requests, Minters
<1>12. ASSUME NEW x \in Exchanges, respondExchange(x)
      PROVE  SessionInv'
  BY <1>12, <1>0, KindsAreDisjoint
     DEF IInv, TypeOK, Places, Bodies,
         SessionInv, Settled, Unopened, respondExchange, Answer, Goto,
         cacheVars, Requests, Minters
<1>13. ASSUME NEW f \in Refreshes, NEW t \in Presentable, refreshAccessToken(f, t)
      PROVE  SessionInv'
  <2>1. pc[f] = "new" /\ UNCHANGED sessionExp
    BY <1>13 DEF refreshAccessToken, cacheVars
  <2>2. \A r \in Requests :
          r # f => dto'[r] = dto[r] /\ pc'[r] = pc[r] /\ reply'[r] = reply[r]
    BY <1>13 DEF IInv, TypeOK, refreshAccessToken, refreshFails, Answer, Goto, stays
  <2>3. \A r \in Initiates \union Exchanges : r \in Requests /\ r # f
    BY KindsAreDisjoint DEF Requests
  <2> QED BY <1>0, <2>1, <2>2, <2>3 DEF SessionInv, Settled, Unopened
<1>14. ASSUME NEW f \in Refreshes, validateRefreshToken(f)
      PROVE  SessionInv'
  BY <1>14, <1>0, KindsAreDisjoint
     DEF IInv, TypeOK, Places, Bodies,
         SessionInv, Settled, Unopened, validateRefreshToken, Answer, Goto,
         stays, cacheVars, refreshFails, Requests, Minters
<1>15. ASSUME NEW r \in Refreshes \union Logouts, revokeRefreshToken(r)
      PROVE  SessionInv'
  BY <1>15, <1>0, KindsAreDisjoint
     DEF IInv, TypeOK, Places, Bodies,
         SessionInv, Settled, Unopened, revokeRefreshToken, Goto, stays,
         delToken, Requests, Minters
<1>16. ASSUME NEW r \in Refreshes \union Logouts, revokeRefreshTokenRejects(r)
      PROVE  SessionInv'
  BY <1>16, <1>0, KindsAreDisjoint
     DEF IInv, TypeOK, Places, Bodies,
         SessionInv, Settled, Unopened, revokeRefreshTokenRejects, Answer,
         Goto, Breaks, delToken, Requests, Minters
<1>17. ASSUME NEW f \in Refreshes, createAuthResponse(f)
      PROVE  SessionInv'
  BY <1>17, <1>0, KindsAreDisjoint
     DEF IInv, TypeOK, Places, Bodies,
         SessionInv, Settled, Unopened, createAuthResponse, Goto, stays,
         cacheVars, signRefreshToken, Requests, Minters
<1>18. ASSUME NEW l \in Logouts, NEW t \in Presentable, logout(l, t)
      PROVE  SessionInv'
  BY <1>18, <1>0, KindsAreDisjoint
     DEF IInv, TypeOK, Places, Bodies,
         SessionInv, Settled, Unopened, logout, Goto, stays, cacheVars,
         Requests, Minters
<1>19. ASSUME NEW r \in Refreshes \union Logouts, respondPlain(r)
      PROVE  SessionInv'
  BY <1>19, <1>0, KindsAreDisjoint
     DEF IInv, TypeOK, Places, Bodies,
         SessionInv, Settled, Unopened, respondPlain, Answer, Goto, cacheVars,
         Requests, Minters
<1>20. ASSUME Tick PROVE SessionInv'
  BY <1>20, <1>0, KindsAreDisjoint
     DEF IInv, TypeOK, Places, Bodies,
         SessionInv, Settled, Unopened, Tick, cacheVars, Requests, Minters
<1>21. ASSUME NEW i \in Initiates, expireSession(i)
      PROVE  SessionInv'
  BY <1>21, <1>0, KindsAreDisjoint
     DEF IInv, TypeOK, Places, Bodies,
         SessionInv, Settled, Unopened, expireSession, Requests, Minters
<1>22. ASSUME NEW t \in Tokens, expireToken(t)
      PROVE  SessionInv'
  BY <1>22, <1>0, KindsAreDisjoint
     DEF IInv, TypeOK, Places, Bodies,
         SessionInv, Settled, Unopened, expireToken, Requests, Minters
<1>23. ASSUME NEW p \in Replicas, NEW list \in AllowLists, restart(p, list)
      PROVE  SessionInv'
  <2>1. \A i \in Initiates : sessionExp'[i] \in {sessionExp[i], 0}
    BY <1>23 DEF IInv, TypeOK, restart, cacheVars
  <2>2. dto' = dto
    BY <1>23 DEF restart
  <2>3. \A r \in Requests :
          \/ pc'[r] = pc[r] /\ reply'[r] = reply[r]
          \/ pc'[r] = "done" /\ reply'[r] = "lost"
    BY <1>23 DEF restart
  <2>4. \A x \in Exchanges : pc'[x] # "new" => dto[x].sid \in Initiates
    BY <1>0, <1>23 DEF restart, InFlight, Requests
  <2>5. Settled'
    BY <2>1, <2>2, <2>3, <2>4 DEF SessionInv, Settled, Requests
  <2>6. Unopened'
    BY <2>1, <2>3 DEF SessionInv, Unopened, Requests
  <2> QED BY <2>5, <2>6 DEF SessionInv
<1>24. CASE UNCHANGED vars
  BY <1>24 DEF vars, cacheVars, SessionInv, Settled, Unopened
<1> QED
  BY <1>1, <1>2, <1>3, <1>4, <1>5, <1>6, <1>7, <1>8, <1>9, <1>10, <1>11, <1>12, <1>13, <1>14, <1>15, <1>16, <1>17, <1>18, <1>19, <1>20, <1>21, <1>22, <1>23, <1>24
     DEF Next, Arrive, InitiateStep, ExchangeStep, RefreshStep, LogoutStep, Environment, Minters

\* An exchange that was answered has used its session up
\* (AttemptConsumesSession), whatever else runs at the same time.
THEOREM AnsweredMeansConsumed == Spec => []AttemptConsumesSession
<1>1. SessionInv => AttemptConsumesSession
  BY DEF SessionInv, Settled, AttemptConsumesSession
<1> QED BY InitIInv, StepIInv, InitSessionInv, StepSessionInv, <1>1, PTL DEF Spec
---------------------------------------------------------------------------
(* A token that is dead stays dead. *)

LEMMA StepDead ==
  ASSUME IInv, [Next]_vars, NEW t \in Tokens, Dead(t)
  PROVE  Dead(t)'
<1>0. t.iat \in Int /\ now \in Int
  BY Durations DEF Tokens, IInv, TypeOK
<1>1. ASSUME NEW i \in Initiates, NEW e \in Emails, NEW p \in Providers, initiatePkce(i, e, p)
      PROVE  Dead(t)'
  BY <1>1, <1>0, KindsAreDisjoint
     DEF IInv, TypeOK, Places, Signed, Dead,
         initiatePkce, Answer, Goto, stays, cacheVars, Requests, Minters
<1>2. ASSUME NEW i \in Initiates, createSession(i)
      PROVE  Dead(t)'
  BY <1>2, <1>0, KindsAreDisjoint
     DEF IInv, TypeOK, Places, Signed, Dead,
         createSession, Goto, stays, setSession, Requests, Minters
<1>3. ASSUME NEW i \in Initiates, createSessionRejects(i)
      PROVE  Dead(t)'
  BY <1>3, <1>0, KindsAreDisjoint
     DEF IInv, TypeOK, Places, Signed, Dead,
         createSessionRejects, Answer, Goto, Breaks, setSession, Requests,
         Minters
<1>4. ASSUME NEW i \in Initiates, respondInitiate(i)
      PROVE  Dead(t)'
  BY <1>4, <1>0, KindsAreDisjoint
     DEF IInv, TypeOK, Places, Signed, Dead,
         respondInitiate, Answer, Goto, cacheVars, Requests, Minters
<1>5. ASSUME NEW x \in Exchanges, NEW s \in Initiates,
         NEW so \in BOOLEAN, NEW vo \in BOOLEAN, NEW hc \in BOOLEAN, exchangePkce(x, s, so, vo, hc)
      PROVE  Dead(t)'
  BY <1>5, <1>0, KindsAreDisjoint
     DEF IInv, TypeOK, Places, Signed, Dead,
         exchangePkce, Goto, stays, cacheVars, Requests, Minters
<1>6. ASSUME NEW x \in Exchanges, consumeSessionGet(x)
      PROVE  Dead(t)'
  BY <1>6, <1>0, KindsAreDisjoint
     DEF IInv, TypeOK, Places, Signed, Dead,
         consumeSessionGet, Answer, Goto, stays, Breaks, cacheVars,
         exchangeFails, Requests, Minters
<1>7. ASSUME NEW x \in Exchanges, consumeSessionDel(x)
      PROVE  Dead(t)'
  BY <1>7, <1>0, KindsAreDisjoint
     DEF IInv, TypeOK, Places, Signed, Dead,
         consumeSessionDel, Goto, stays, delSession, Requests, Minters
<1>8. ASSUME NEW x \in Exchanges, consumeSessionDelRejects(x)
      PROVE  Dead(t)'
  BY <1>8, <1>0, KindsAreDisjoint
     DEF IInv, TypeOK, Places, Signed, Dead,
         consumeSessionDelRejects, Answer, Goto, Breaks, delSession, Requests,
         Minters
<1>9. ASSUME NEW x \in Exchanges, checkExchange(x)
      PROVE  Dead(t)'
  <2>1. ASSUME signRefreshToken(x, SessionEmail(x)) PROVE Dead(t)'
    <3>1. x \in Minters /\ minted'[x].iat = now
      BY <2>1 DEF IInv, TypeOK, signRefreshToken, Minters
    <3>2. \A r \in Minters : r # x => minted'[r] = minted[r] /\ pc'[r] = pc[r]
      BY <2>1 DEF IInv, TypeOK, signRefreshToken, Goto, Requests, Minters
    <3>3. t.iat < now
      BY DEF Dead
    <3>4. t.iat # now
      BY <1>0, <3>3
    <3>5. minted'[x] # t
      BY <3>1, <3>4
    <3>6. UNCHANGED <<now, refreshExp>>
      BY <1>9 DEF checkExchange, cacheVars
    <3> QED BY <3>2, <3>3, <3>5, <3>6 DEF Dead
  <2>2. ASSUME exchangeFails(x, Verdict(x)), UNCHANGED minted PROVE Dead(t)'
    BY <1>9, <2>2 DEF IInv, TypeOK, Dead, checkExchange, exchangeFails, Answer,
                      Goto, cacheVars, Requests, Minters
  <2> QED BY <1>9, <2>1, <2>2 DEF checkExchange
<1>10. ASSUME NEW r \in Minters, storeRefreshToken(r)
      PROVE  Dead(t)'
  BY <1>10, <1>0, KindsAreDisjoint
     DEF IInv, TypeOK, Places, Signed,
         Dead, storeRefreshToken, Goto, stays, setToken, Requests, Minters
<1>11. ASSUME NEW r \in Minters, storeRefreshTokenRejects(r)
      PROVE  Dead(t)'
  BY <1>11, <1>0, KindsAreDisjoint
     DEF IInv, TypeOK, Places, Signed,
         Dead, storeRefreshTokenRejects, Answer, Goto, Breaks, setToken,
         Requests, Minters
<1>12. ASSUME NEW x \in Exchanges, respondExchange(x)
      PROVE  Dead(t)'
  BY <1>12, <1>0, KindsAreDisjoint
     DEF IInv, TypeOK, Places, Signed,
         Dead, respondExchange, Answer, Goto, cacheVars, Requests, Minters
<1>13. ASSUME NEW f \in Refreshes, NEW u \in Presentable, refreshAccessToken(f, u)
      PROVE  Dead(t)'
  BY <1>13, <1>0, KindsAreDisjoint
     DEF IInv, TypeOK, Places, Signed,
         Dead, refreshAccessToken, Answer, Goto, stays, cacheVars,
         refreshFails, Requests, Minters
<1>14. ASSUME NEW f \in Refreshes, validateRefreshToken(f)
      PROVE  Dead(t)'
  BY <1>14, <1>0, KindsAreDisjoint
     DEF IInv, TypeOK, Places, Signed,
         Dead, validateRefreshToken, Answer, Goto, stays, cacheVars,
         refreshFails, Requests, Minters
<1>15. ASSUME NEW r \in Refreshes \union Logouts, revokeRefreshToken(r)
      PROVE  Dead(t)'
  BY <1>15, <1>0, KindsAreDisjoint
     DEF IInv, TypeOK, Places, Signed,
         Dead, revokeRefreshToken, Goto, stays, delToken, Requests, Minters
<1>16. ASSUME NEW r \in Refreshes \union Logouts, revokeRefreshTokenRejects(r)
      PROVE  Dead(t)'
  BY <1>16, <1>0, KindsAreDisjoint
     DEF IInv, TypeOK, Places, Signed,
         Dead, revokeRefreshTokenRejects, Answer, Goto, Breaks, delToken,
         Requests, Minters
<1>17. ASSUME NEW f \in Refreshes, createAuthResponse(f)
      PROVE  Dead(t)'
  <2>1. ASSUME signRefreshToken(f, dto[f].email) PROVE Dead(t)'
    <3>1. f \in Minters /\ minted'[f].iat = now
      BY <2>1 DEF IInv, TypeOK, signRefreshToken, Minters
    <3>2. \A r \in Minters : r # f => minted'[r] = minted[r] /\ pc'[r] = pc[r]
      BY <2>1 DEF IInv, TypeOK, signRefreshToken, Goto, Requests, Minters
    <3>3. t.iat < now
      BY DEF Dead
    <3>4. t.iat # now
      BY <1>0, <3>3
    <3>5. minted'[f] # t
      BY <3>1, <3>4
    <3>6. UNCHANGED <<now, refreshExp>>
      BY <1>17 DEF createAuthResponse, cacheVars
    <3> QED BY <3>2, <3>3, <3>5, <3>6 DEF Dead
  <2> QED BY <1>17, <2>1 DEF createAuthResponse
<1>18. ASSUME NEW l \in Logouts, NEW u \in Presentable, logout(l, u)
      PROVE  Dead(t)'
  BY <1>18, <1>0, KindsAreDisjoint
     DEF IInv, TypeOK, Places, Signed,
         Dead, logout, Goto, stays, cacheVars, Requests, Minters
<1>19. ASSUME NEW r \in Refreshes \union Logouts, respondPlain(r)
      PROVE  Dead(t)'
  BY <1>19, <1>0, KindsAreDisjoint
     DEF IInv, TypeOK, Places, Signed,
         Dead, respondPlain, Answer, Goto, cacheVars, Requests, Minters
<1>20. ASSUME Tick PROVE Dead(t)'
  <2>0. t.iat < now /\ now' = now + 1
    BY <1>20 DEF Dead, Tick
  <2>1. t.iat < now'
    BY <1>0, <2>0
  <2> QED BY <1>20, <2>1 DEF Dead, Tick, cacheVars
<1>21. ASSUME NEW i \in Initiates, expireSession(i)
      PROVE  Dead(t)'
  BY <1>21, <1>0, KindsAreDisjoint
     DEF IInv, TypeOK, Places, Signed,
         Dead, expireSession, Requests, Minters
<1>22. ASSUME NEW u \in Tokens, expireToken(u)
      PROVE  Dead(t)'
  BY <1>22, <1>0, KindsAreDisjoint
     DEF IInv, TypeOK, Places, Signed,
         Dead, expireToken, Requests, Minters
<1>23. ASSUME NEW p \in Replicas, NEW list \in AllowLists, restart(p, list)
      PROVE  Dead(t)'
  BY <1>23, <1>0, KindsAreDisjoint
     DEF IInv, TypeOK, Places, Signed,
         Dead, restart, cacheVars, InFlight, Requests, Minters
<1>24. CASE UNCHANGED vars
  BY <1>24 DEF vars, cacheVars, Dead
<1> QED
  BY <1>1, <1>2, <1>3, <1>4, <1>5, <1>6, <1>7, <1>8, <1>9, <1>10, <1>11, <1>12, <1>13, <1>14, <1>15, <1>16, <1>17, <1>18, <1>19, <1>20, <1>21, <1>22, <1>23, <1>24
     DEF Next, Arrive, InitiateStep, ExchangeStep, RefreshStep, LogoutStep, Environment, Minters

\* What refresh, logout or the ttl removed does not come back
\* (RevokedTokenStaysDead), once the second of its signing is over.
THEOREM RevocationIsFinal == Spec => RevokedTokenStaysDead
<1>1. IInv /\ [Next]_vars => [\A t \in Tokens : Dead(t) => Dead(t)']_vars
  BY StepDead
<1> QED BY InitIInv, StepIInv, <1>1, PTL DEF Spec, RevokedTokenStaysDead
---------------------------------------------------------------------------
(* The auth service implements the PKCE ledger. *)

LEMMA LedgerInit == Init => Ledger!Init
<1> SUFFICES ASSUME Init PROVE Ledger!Init
  OBVIOUS
<1>1. LedgerStatus = [i \in Initiates |-> "unused"]
  BY DEF Init, LedgerStatus, Requests
<1>2. LedgerClaims = {}
  BY DEF Init, LedgerClaims, Holding, Requests
<1>3. LedgerRedeemed = {}
  BY DEF Init, LedgerRedeemed, Requests
<1> QED BY <1>1, <1>2, <1>3 DEF Ledger!Init

\* A step that stores no session and gives no exchange a claim or an OK.
Quiet ==
  /\ \A i \in Initiates :
       /\ sessionExp'[i] \in {sessionExp[i], 0}
       /\ pc'[i] \in {"new", "set session"} => pc[i] \in {"new", "set session"}
  /\ \A x \in Exchanges :
       /\ pc'[x] \in Holding => pc[x] \in Holding /\ dto'[x].sid = dto[x].sid
       /\ reply'[x] = "OK" <=> reply[x] = "OK"
       /\ reply[x] = "OK" => dto'[x].sid = dto[x].sid

LEMMA QuietLoses ==
  ASSUME IInv, IInv', SessionInv, Quiet
  PROVE  Ledger!Next
<1> DEFINE S == {i \in Initiates : LedgerStatus'[i] = "closed"}
           C == LedgerClaims \ LedgerClaims'
<1>1. LedgerStatus' = [i \in Initiates |-> IF i \in S THEN "closed" ELSE LedgerStatus[i]]
  <2> SUFFICES ASSUME NEW i \in Initiates
               PROVE  LedgerStatus'[i] \in {LedgerStatus[i], "closed"}
    BY DEF LedgerStatus
  <2>1. sessionExp[i] \in Nat /\ sessionExp'[i] \in Nat
    BY DEF IInv, TypeOK
  <2>2. CASE sessionExp'[i] # 0
    <3>1. sessionExp'[i] \in {sessionExp[i], 0}
      BY DEF Quiet
    <3>2. sessionExp[i] # 0
      BY <2>1, <2>2, <3>1
    <3> QED BY <2>2, <3>2 DEF LedgerStatus
  <2>3. CASE sessionExp'[i] = 0 /\ pc'[i] \in {"new", "set session"}
    <3>1. pc[i] \in {"new", "set session"} /\ sessionExp[i] = 0
      BY <2>3 DEF Quiet, SessionInv, Unopened
    <3> QED BY <2>3, <3>1 DEF LedgerStatus
  <2>4. CASE sessionExp'[i] = 0 /\ pc'[i] \notin {"new", "set session"}
    BY <2>4 DEF LedgerStatus
  <2> QED BY <2>2, <2>3, <2>4
<1>2. LedgerClaims' \subseteq LedgerClaims
  BY DEF Quiet, LedgerClaims
<1>3. LedgerRedeemed' = LedgerRedeemed
  BY DEF Quiet, LedgerRedeemed
<1>4. Ledger!Lose(S, C)
  BY <1>1, <1>2, <1>3 DEF Ledger!Lose
<1>5. S \in SUBSET Initiates /\ C \in SUBSET LedgerClaims
  OBVIOUS
<1> QED BY <1>4, <1>5 DEF Ledger!Next

LEMMA SetSessionOpens ==
  ASSUME IInv, SessionInv, NEW i \in Initiates,
         pc[i] = "set session", setSession(i),
         pc' \in {[pc EXCEPT ![i] = "respond"], [pc EXCEPT ![i] = "done"]},
         UNCHANGED dto, \A x \in Exchanges : reply'[x] = reply[x]
  PROVE  Ledger!Next
<1>1. sessionExp[i] = 0
  BY DEF SessionInv, Unopened
<1>2. LedgerStatus[i] = "unused"
  BY <1>1 DEF LedgerStatus
<1>3. now + PkceTtl # 0
  <2>1. now + PkceTtl \in Nat \ {0}
    BY TtlTypes DEF IInv
  <2> QED BY <2>1
<1>4. LedgerStatus' = [LedgerStatus EXCEPT ![i] = "open"]
  BY <1>3 DEF IInv, TypeOK, LedgerStatus, setSession, Requests
<1>5. \A x \in Exchanges : pc'[x] = pc[x]
  BY KindsAreDisjoint DEF IInv, TypeOK, Requests
<1>6. LedgerClaims' = LedgerClaims
  BY <1>5 DEF LedgerClaims
<1>7. LedgerRedeemed' = LedgerRedeemed
  BY DEF LedgerRedeemed
<1> QED BY <1>2, <1>4, <1>6, <1>7 DEF Ledger!Next, Ledger!Open

LEMMA LedgerStep ==
  ASSUME IInv, IInv', SessionInv, [Next]_vars
  PROVE  [Ledger!Next]_(Ledger!lvars)
<1>0. \A x \in Exchanges : pc[x] # "new" => dto[x].sid \in Initiates
  BY DEF IInv, Bodies, ExchangeDtos
<1>1. ASSUME NEW i \in Initiates, NEW e \in Emails, NEW p \in Providers, initiatePkce(i, e, p)
      PROVE  Ledger!Next
  <2>1. /\ i \in Requests /\ pc[i] = "new" /\ sessionExp' = sessionExp
        /\ \A r \in Initiates \union Exchanges : r \in Requests
        /\ \A x \in Exchanges : x # i
    BY <1>1, KindsAreDisjoint DEF initiatePkce, cacheVars, Requests
  <2>2. \A r \in Requests :
          r # i => dto'[r] = dto[r] /\ pc'[r] = pc[r] /\ reply'[r] = reply[r]
    BY <1>1 DEF IInv, TypeOK, initiatePkce, Answer, Goto, stays
  <2>3. Quiet
    BY <2>1, <2>2 DEF Quiet
  <2> QED BY <2>3, QuietLoses
<1>2. ASSUME NEW i \in Initiates, createSession(i)
      PROVE  Ledger!Next
  BY <1>2, SetSessionOpens DEF createSession, Goto, stays
<1>3. ASSUME NEW i \in Initiates, createSessionRejects(i)
      PROVE  Ledger!Next
  <2>1. CASE setSession(i)
    <3>1. \A x \in Exchanges : reply'[x] = reply[x]
      BY <1>3, KindsAreDisjoint
         DEF IInv, TypeOK, createSessionRejects, Breaks, Answer, Requests
    <3> QED BY <1>3, <2>1, <3>1, SetSessionOpens
            DEF createSessionRejects, Breaks, Answer, Goto
  <2>2. CASE UNCHANGED sessionExp
    <3>1. Quiet
      BY <1>3, <2>2, KindsAreDisjoint
         DEF IInv, TypeOK, Quiet, createSessionRejects, Breaks, Answer, Goto, Requests
    <3> QED BY <3>1, QuietLoses
  <2> QED BY <1>3, <2>1, <2>2 DEF createSessionRejects
<1>4. ASSUME NEW i \in Initiates, respondInitiate(i)
      PROVE  Ledger!Next
  <2>1. sessionExp' = sessionExp /\ i \in Requests /\ i \notin Exchanges
    BY <1>4, KindsAreDisjoint DEF respondInitiate, cacheVars, Requests
  <2>2. \A q \in Requests :
          q # i => dto'[q] = dto[q] /\ pc'[q] = pc[q] /\ reply'[q] = reply[q]
    BY <1>4, <2>1 DEF IInv, TypeOK, respondInitiate, Answer, Goto
  <2>3. pc'[i] \notin {"new", "set session"}
    BY <1>4, <2>1 DEF IInv, TypeOK, respondInitiate, Answer, Goto
  <2>4. Quiet
    BY <2>1, <2>2, <2>3 DEF Quiet, Requests
  <2> QED BY <2>4, QuietLoses
<1>5. ASSUME NEW x \in Exchanges, NEW s \in Initiates,
         NEW so \in BOOLEAN, NEW vo \in BOOLEAN, NEW hc \in BOOLEAN, exchangePkce(x, s, so, vo, hc)
      PROVE  Ledger!Next
  <2>1. Quiet
    BY <1>5, <1>0, KindsAreDisjoint
       DEF IInv, TypeOK, Places, Replied,
           Quiet, exchangePkce, Goto, stays, cacheVars, Holding, Requests,
           Minters
  <2> QED BY <2>1, QuietLoses
<1>6. ASSUME NEW x \in Exchanges, consumeSessionGet(x)
      PROVE  Ledger!Next
  <2>1. CASE sessionExp[dto[x].sid] # 0 /\ Goto(x, "delete session") /\ stays
    <3>1. pc[x] = "get session" /\ x \in Requests /\ dto[x].sid \in Initiates
      BY <1>0, <1>6 DEF consumeSessionGet, Requests
    <3>2. reply[x] # "OK"
      BY <3>1 DEF IInv, Replied
    <3>3. LedgerStatus[dto[x].sid] = "open"
      BY <2>1, <3>1 DEF LedgerStatus
    <3>4. \A s \in Initiates : <<x, s>> \notin LedgerClaims \union LedgerRedeemed
      BY <3>1, <3>2 DEF LedgerClaims, LedgerRedeemed, Holding
    <3>5. UNCHANGED <<sessionExp, dto, reply>> /\ \A i \in Initiates : pc'[i] = pc[i]
      BY <1>6, <2>1, KindsAreDisjoint
         DEF IInv, TypeOK, consumeSessionGet, cacheVars, Goto, stays, Requests
    <3>6. LedgerStatus' = LedgerStatus
      BY <3>5 DEF LedgerStatus
    <3>7. {y \in Exchanges : pc'[y] \in Holding}
            = {y \in Exchanges : pc[y] \in Holding} \union {x}
      <4>1. \A y \in Exchanges : y # x => pc'[y] = pc[y]
        BY <2>1 DEF IInv, TypeOK, Goto, Requests
      <4>2. pc'[x] = "delete session"
        BY <2>1, <3>1 DEF IInv, TypeOK, Goto
      <4> QED BY <4>1, <4>2 DEF Holding
    <3>8. LedgerClaims' = LedgerClaims \union {<<x, dto[x].sid>>}
      BY <3>5, <3>7 DEF LedgerClaims
    <3>9. LedgerRedeemed' = LedgerRedeemed
      BY <3>5 DEF LedgerRedeemed
    <3>10. Ledger!Claim(x, dto[x].sid)
      BY <3>3, <3>4, <3>6, <3>8, <3>9 DEF Ledger!Claim
    <3> QED BY <3>1, <3>10 DEF Ledger!Next
  <2>2. CASE exchangeFails(x, "INVALID_PKCE_SESSION") \/ Breaks(x)
    <3>1. /\ x \in Requests /\ x \notin Initiates /\ pc[x] = "get session"
          /\ dto' = dto /\ sessionExp' = sessionExp
          /\ \A r \in Initiates \union Exchanges : r \in Requests
      BY <1>6, KindsAreDisjoint DEF consumeSessionGet, cacheVars, Requests
    <3>2. \A r \in Requests : r # x => pc'[r] = pc[r] /\ reply'[r] = reply[r]
      BY <2>2 DEF IInv, TypeOK, exchangeFails, Breaks, Answer, Goto
    <3>3. pc'[x] = "done" /\ reply'[x] # "OK"
      BY <2>2, <3>1 DEF IInv, TypeOK, exchangeFails, Breaks, Answer, Goto
    <3>4. reply[x] # "OK"
      BY <3>1 DEF IInv, Replied
    <3>5. Quiet
      BY <3>1, <3>2, <3>3, <3>4 DEF Quiet, Holding
    <3> QED BY <3>5, QuietLoses
  <2> QED BY <1>6, <2>1, <2>2 DEF consumeSessionGet
<1>7. ASSUME NEW x \in Exchanges, consumeSessionDel(x)
      PROVE  Ledger!Next
  <2>1. Quiet
    BY <1>7, <1>0, KindsAreDisjoint
       DEF IInv, TypeOK, Places, Replied,
           Quiet, consumeSessionDel, Goto, stays, delSession, Holding,
           Requests, Minters
  <2> QED BY <2>1, QuietLoses
<1>8. ASSUME NEW x \in Exchanges, consumeSessionDelRejects(x)
      PROVE  Ledger!Next
  <2>1. Quiet
    BY <1>8, <1>0, KindsAreDisjoint
       DEF IInv, TypeOK, Places, Replied,
           Quiet, consumeSessionDelRejects, Answer, Goto, Breaks, delSession,
           Holding, Requests, Minters
  <2> QED BY <2>1, QuietLoses
<1>9. ASSUME NEW x \in Exchanges, checkExchange(x)
      PROVE  Ledger!Next
  <2>1. Quiet
    BY <1>9, <1>0, KindsAreDisjoint
       DEF IInv, TypeOK, Places, Replied,
           Quiet, checkExchange, Answer, Goto, stays, cacheVars,
           exchangeFails, signRefreshToken, Holding, Requests, Minters
  <2> QED BY <2>1, QuietLoses
<1>10. ASSUME NEW r \in Minters, storeRefreshToken(r)
      PROVE  Ledger!Next
  <2>1. Quiet
    BY <1>10, <1>0, KindsAreDisjoint
       DEF IInv, TypeOK, Places, Replied,
           Quiet, storeRefreshToken, Goto, stays, setToken, Holding, Requests,
           Minters
  <2> QED BY <2>1, QuietLoses
<1>11. ASSUME NEW r \in Minters, storeRefreshTokenRejects(r)
      PROVE  Ledger!Next
  <2>1. Quiet
    BY <1>11, <1>0, KindsAreDisjoint
       DEF IInv, TypeOK, Places, Replied,
           Quiet, storeRefreshTokenRejects, Answer, Goto, Breaks, setToken,
           Holding, Requests, Minters
  <2> QED BY <2>1, QuietLoses
<1>12. ASSUME NEW x \in Exchanges, respondExchange(x)
      PROVE  Ledger!Next
  <2>1. pc[x] = "respond" /\ x \in Requests /\ dto[x].sid \in Initiates
    BY <1>0, <1>12 DEF respondExchange, Requests
  <2>2. <<x, dto[x].sid>> \in LedgerClaims
    BY <2>1 DEF LedgerClaims, Holding
  <2>3. LedgerStatus[dto[x].sid] = "closed"
    <3>1. sessionExp[dto[x].sid] = 0
      BY <2>1 DEF SessionInv, Settled
    <3>2. pc[dto[x].sid] = "done"
      BY <2>1 DEF IInv, Bodies
    <3> QED BY <2>1, <3>1, <3>2 DEF LedgerStatus
  <2>4. UNCHANGED <<sessionExp, dto>> /\ \A i \in Initiates : pc'[i] = pc[i]
    BY <1>12, KindsAreDisjoint
       DEF IInv, TypeOK, respondExchange, cacheVars, Answer, Goto, Requests
  <2>5. LedgerStatus' = LedgerStatus
    BY <2>4 DEF LedgerStatus
  <2>6. {y \in Exchanges : pc'[y] \in Holding}
          = {y \in Exchanges : pc[y] \in Holding} \ {x}
    BY <1>12, <2>1 DEF IInv, TypeOK, respondExchange, Answer, Goto, Holding, Requests
  <2>7. LedgerClaims' = LedgerClaims \ {<<x, dto[x].sid>>}
    BY <2>4, <2>6 DEF LedgerClaims
  <2>8. {y \in Exchanges : reply'[y] = "OK"}
          = {y \in Exchanges : reply[y] = "OK"} \union {x}
    BY <1>12, <2>1 DEF IInv, TypeOK, respondExchange, Answer, Requests
  <2>9. LedgerRedeemed' = LedgerRedeemed \union {<<x, dto[x].sid>>}
    BY <2>4, <2>8 DEF LedgerRedeemed
  <2>10. Ledger!Redeem(x, dto[x].sid)
    BY <2>2, <2>3, <2>5, <2>7, <2>9 DEF Ledger!Redeem
  <2> QED BY <2>1, <2>10 DEF Ledger!Next
<1>13. ASSUME NEW f \in Refreshes, NEW t \in Presentable, refreshAccessToken(f, t)
      PROVE  Ledger!Next
  <2>1. sessionExp' = sessionExp /\ f \in Requests /\ f \notin Exchanges
    BY <1>13, KindsAreDisjoint DEF refreshAccessToken, cacheVars, Requests
  <2>2. \A q \in Requests :
          q # f => dto'[q] = dto[q] /\ pc'[q] = pc[q] /\ reply'[q] = reply[q]
    BY <1>13, <2>1 DEF IInv, TypeOK, refreshAccessToken, refreshFails, Answer, Goto, stays
  <2>3. pc'[f] \notin {"new", "set session"}
    BY <1>13, <2>1 DEF IInv, TypeOK, refreshAccessToken, refreshFails, Answer, Goto, stays
  <2>4. Quiet
    BY <2>1, <2>2, <2>3 DEF Quiet, Requests
  <2> QED BY <2>4, QuietLoses
<1>14. ASSUME NEW f \in Refreshes, validateRefreshToken(f)
      PROVE  Ledger!Next
  <2>1. Quiet
    BY <1>14, <1>0, KindsAreDisjoint
       DEF IInv, TypeOK, Places, Replied,
           Quiet, validateRefreshToken, Answer, Goto, stays, cacheVars,
           refreshFails, Holding, Requests, Minters
  <2> QED BY <2>1, QuietLoses
<1>15. ASSUME NEW r \in Refreshes \union Logouts, revokeRefreshToken(r)
      PROVE  Ledger!Next
  <2>1. Quiet
    BY <1>15, <1>0, KindsAreDisjoint
       DEF IInv, TypeOK, Places, Replied,
           Quiet, revokeRefreshToken, Goto, stays, delToken, Holding,
           Requests, Minters
  <2> QED BY <2>1, QuietLoses
<1>16. ASSUME NEW r \in Refreshes \union Logouts, revokeRefreshTokenRejects(r)
      PROVE  Ledger!Next
  <2>1. Quiet
    BY <1>16, <1>0, KindsAreDisjoint
       DEF IInv, TypeOK, Places, Replied,
           Quiet, revokeRefreshTokenRejects, Answer, Goto, Breaks, delToken,
           Holding, Requests, Minters
  <2> QED BY <2>1, QuietLoses
<1>17. ASSUME NEW f \in Refreshes, createAuthResponse(f)
      PROVE  Ledger!Next
  <2>1. Quiet
    BY <1>17, <1>0, KindsAreDisjoint
       DEF IInv, TypeOK, Places, Replied,
           Quiet, createAuthResponse, Goto, stays, cacheVars,
           signRefreshToken, Holding, Requests, Minters
  <2> QED BY <2>1, QuietLoses
<1>18. ASSUME NEW l \in Logouts, NEW t \in Presentable, logout(l, t)
      PROVE  Ledger!Next
  <2>1. Quiet
    BY <1>18, <1>0, KindsAreDisjoint
       DEF IInv, TypeOK, Places, Replied,
           Quiet, logout, Goto, stays, cacheVars, Holding, Requests, Minters
  <2> QED BY <2>1, QuietLoses
<1>19. ASSUME NEW r \in Refreshes \union Logouts, respondPlain(r)
      PROVE  Ledger!Next
  <2>1. sessionExp' = sessionExp /\ r \in Requests /\ r \notin Exchanges
    BY <1>19, KindsAreDisjoint DEF respondPlain, cacheVars, Requests
  <2>2. \A q \in Requests :
          q # r => dto'[q] = dto[q] /\ pc'[q] = pc[q] /\ reply'[q] = reply[q]
    BY <1>19, <2>1 DEF IInv, TypeOK, respondPlain, Answer, Goto
  <2>3. pc'[r] \notin {"new", "set session"}
    BY <1>19, <2>1 DEF IInv, TypeOK, respondPlain, Answer, Goto
  <2>4. Quiet
    BY <2>1, <2>2, <2>3 DEF Quiet, Requests
  <2> QED BY <2>4, QuietLoses
<1>20. ASSUME Tick PROVE Ledger!Next
  <2>1. Quiet
    BY <1>20, <1>0, KindsAreDisjoint
       DEF IInv, TypeOK, Places, Replied,
           Quiet, Tick, cacheVars, Holding, Requests, Minters
  <2> QED BY <2>1, QuietLoses
<1>21. ASSUME NEW i \in Initiates, expireSession(i)
      PROVE  Ledger!Next
  <2>1. Quiet
    BY <1>21, <1>0, KindsAreDisjoint
       DEF IInv, TypeOK, Places, Replied,
           Quiet, expireSession, Holding, Requests, Minters
  <2> QED BY <2>1, QuietLoses
<1>22. ASSUME NEW t \in Tokens, expireToken(t)
      PROVE  Ledger!Next
  <2>1. Quiet
    BY <1>22, <1>0, KindsAreDisjoint
       DEF IInv, TypeOK, Places, Replied,
           Quiet, expireToken, Holding, Requests, Minters
  <2> QED BY <2>1, QuietLoses
<1>23. ASSUME NEW p \in Replicas, NEW list \in AllowLists, restart(p, list)
      PROVE  Ledger!Next
  <2>1. \A i \in Initiates : sessionExp'[i] \in {sessionExp[i], 0}
    BY <1>23 DEF IInv, TypeOK, restart, cacheVars
  <2>2. dto' = dto
    BY <1>23 DEF restart
  <2>3. \A r \in Requests :
          \/ pc'[r] = pc[r] /\ reply'[r] = reply[r]
          \/ pc[r] # "done" /\ pc'[r] = "done" /\ reply'[r] = "lost"
    BY <1>23 DEF restart, InFlight
  <2>4. Quiet
    BY <2>1, <2>2, <2>3 DEF Quiet, Holding, Requests, IInv, Replied
  <2> QED BY <2>4, QuietLoses
<1>24. CASE UNCHANGED vars
  BY <1>24 DEF vars, cacheVars, Ledger!lvars, LedgerStatus, LedgerClaims, LedgerRedeemed
<1> QED
  BY <1>1, <1>2, <1>3, <1>4, <1>5, <1>6, <1>7, <1>8, <1>9, <1>10, <1>11, <1>12, <1>13, <1>14, <1>15, <1>16, <1>17, <1>18, <1>19, <1>20, <1>21, <1>22, <1>23, <1>24
     DEF Next, Arrive, InitiateStep, ExchangeStep, RefreshStep, LogoutStep, Environment, Minters

\* createSession and consumeSession, interleaved in any way, with failing
\* cache operations, expiry and restarts, implement the PKCE ledger
\* (ImplementsLedger).
THEOREM LedgerImplemented == Spec => ImplementsLedger
<1>1. IInv /\ IInv' /\ SessionInv /\ [Next]_vars => [Ledger!Next]_(Ledger!lvars)
  BY LedgerStep
<1> QED BY InitIInv, StepIInv, InitSessionInv, StepSessionInv, LedgerInit, <1>1, PTL
        DEF Spec, ImplementsLedger, Ledger!Spec

\* Nobody claims a session that is closed, and nobody is answered with tokens
\* for it but out of a claim taken while it was open (NoLateClaim).
THEOREM LateClaimsFail == Spec => NoLateClaim
<1> DEFINE Promise ==
      \A s \in Initiates : LedgerStatus[s] = "closed" =>
        /\ LedgerStatus'[s] = "closed"
        /\ \A a \in Exchanges :
             /\ <<a, s>> \in LedgerClaims' => <<a, s>> \in LedgerClaims
             /\ <<a, s>> \in LedgerRedeemed' =>
                  <<a, s>> \in LedgerClaims \union LedgerRedeemed
<1>1. ASSUME [Ledger!Next]_(Ledger!lvars) PROVE [Promise]_(Ledger!lvars)
  <2>1. LedgerStatus = [s \in Initiates |-> LedgerStatus[s]]
    BY DEF LedgerStatus
  <2>2. ASSUME NEW s \in Initiates, Ledger!Open(s) PROVE Promise
    BY <2>1, <2>2 DEF Ledger!Open
  <2>3. ASSUME NEW a \in Exchanges, NEW s \in Initiates, Ledger!Claim(a, s)
        PROVE  Promise
    BY <2>3 DEF Ledger!Claim
  <2>4. ASSUME NEW a \in Exchanges, NEW s \in Initiates, Ledger!Redeem(a, s)
        PROVE  Promise
    BY <2>4 DEF Ledger!Redeem
  <2>5. ASSUME NEW S \in SUBSET Initiates, NEW C \in SUBSET LedgerClaims,
               Ledger!Lose(S, C)
        PROVE  Promise
    BY <2>5 DEF Ledger!Lose
  <2> QED BY <1>1, <2>2, <2>3, <2>4, <2>5 DEF Ledger!Next
<1>2. IInv /\ IInv' /\ SessionInv /\ [Next]_vars => [Promise]_(Ledger!lvars)
  BY LedgerStep, <1>1
<1> QED BY InitIInv, StepIInv, InitSessionInv, StepSessionInv, <1>2, PTL
        DEF Spec, NoLateClaim, Ledger!NoLateClaim

\* No two exchanges that both got the record of one session are under way at
\* once (consumeSession awaits cache.get, then cache.del).
NoOverlap ==
  \A x, y \in Exchanges :
    pc[x] \in Holding /\ pc[y] \in Holding /\ dto[x].sid = dto[y].sid => x = y

\* In the ledger: one attempt holds a session or was given it, and a session
\* that somebody was given is closed.
Held == LedgerClaims \union LedgerRedeemed

OneHolds == \A a, b, s : <<a, s>> \in Held /\ <<b, s>> \in Held => a = b

RedeemedIsClosed ==
  \A a, s : <<a, s>> \in LedgerRedeemed => s \in Initiates /\ LedgerStatus[s] = "closed"

LEMMA InitOneHolds == Ledger!Init => OneHolds /\ RedeemedIsClosed
BY DEF Ledger!Init, OneHolds, RedeemedIsClosed, Held

\* Only a claim brings a session a second holder. While the first claim is
\* undecided the two overlap; once it is redeemed the session is closed.
LEMMA StepOneHolds ==
  ASSUME OneHolds, RedeemedIsClosed, NoOverlap', [Ledger!Next]_(Ledger!lvars)
  PROVE  OneHolds' /\ RedeemedIsClosed'
<1>1. LedgerStatus = [s \in Initiates |-> LedgerStatus[s]]
  BY DEF LedgerStatus
<1>2. ASSUME NEW t \in Initiates, Ledger!Open(t)
      PROVE  OneHolds' /\ RedeemedIsClosed'
  <2>1. OneHolds'
    BY <1>2 DEF Ledger!Open, OneHolds, Held
  <2>2. RedeemedIsClosed'
    BY <1>1, <1>2 DEF Ledger!Open, RedeemedIsClosed
  <2> QED BY <2>1, <2>2
<1>3. ASSUME NEW x \in Exchanges, NEW t \in Initiates, Ledger!Claim(x, t)
      PROVE  OneHolds' /\ RedeemedIsClosed'
  <2>1. /\ LedgerStatus[t] = "open" /\ LedgerStatus' = LedgerStatus
        /\ LedgerClaims' = LedgerClaims \union {<<x, t>>}
        /\ LedgerRedeemed' = LedgerRedeemed
    BY <1>3 DEF Ledger!Claim
  <2>2. RedeemedIsClosed'
    BY <2>1 DEF RedeemedIsClosed
  <2>3. \A a : <<a, t>> \in Held => <<a, t>> \in LedgerClaims
    BY <2>1 DEF Held, RedeemedIsClosed
  <2>4. ASSUME NEW a, <<a, t>> \in Held PROVE a = x
    <3>1. <<a, t>> \in LedgerClaims' /\ <<x, t>> \in LedgerClaims'
      BY <2>1, <2>3, <2>4
    <3>2. ASSUME NEW y \in Exchanges, NEW z \in Exchanges,
                 pc'[y] \in Holding, pc'[z] \in Holding, dto'[y].sid = dto'[z].sid
          PROVE  y = z
      BY <3>2 DEF NoOverlap
    <3> QED BY <3>1, <3>2 DEF LedgerClaims
  <2>5. OneHolds'
    BY <2>1, <2>4 DEF OneHolds, Held
  <2> QED BY <2>2, <2>5
<1>4. ASSUME NEW x \in Exchanges, NEW t \in Initiates, Ledger!Redeem(x, t)
      PROVE  OneHolds' /\ RedeemedIsClosed'
  <2>1. /\ <<x, t>> \in LedgerClaims /\ LedgerStatus[t] = "closed"
        /\ LedgerStatus' = LedgerStatus
        /\ LedgerClaims' \subseteq LedgerClaims
        /\ LedgerRedeemed' = LedgerRedeemed \union {<<x, t>>}
    BY <1>4 DEF Ledger!Redeem
  <2>2. RedeemedIsClosed'
    BY <2>1 DEF RedeemedIsClosed
  <2>3. Held' \subseteq Held
    BY <2>1 DEF Held
  <2>4. OneHolds'
    BY <2>3 DEF OneHolds
  <2> QED BY <2>2, <2>4
<1>5. ASSUME NEW S \in SUBSET Initiates, NEW C \in SUBSET LedgerClaims, Ledger!Lose(S, C)
      PROVE  OneHolds' /\ RedeemedIsClosed'
  <2>1. Held' \subseteq Held
    BY <1>5 DEF Ledger!Lose, Held
  <2>2. OneHolds'
    BY <2>1 DEF OneHolds
  <2>3. RedeemedIsClosed'
    BY <1>5 DEF Ledger!Lose, RedeemedIsClosed
  <2> QED BY <2>2, <2>3
<1>6. ASSUME UNCHANGED Ledger!lvars PROVE OneHolds' /\ RedeemedIsClosed'
  BY <1>6 DEF Ledger!lvars, OneHolds, RedeemedIsClosed, Held
<1> QED BY <1>2, <1>3, <1>4, <1>5, <1>6 DEF Ledger!Next

\* The one-time session the documents promise, and when it is kept: a session
\* yields tokens once in every behaviour in which no two exchanges of it
\* overlap between the get of consumeSession and their answer. The run that
\* finds it violated needs such an overlap.
THEOREM OneTimeUnlessOverlap == Spec /\ []NoOverlap => []OneTimeSession
<1>1. IInv /\ IInv' /\ SessionInv /\ [Next]_vars => [Ledger!Next]_(Ledger!lvars)
  BY LedgerStep
<1>2. OneHolds /\ RedeemedIsClosed /\ NoOverlap' /\ [Ledger!Next]_(Ledger!lvars)
        => (OneHolds /\ RedeemedIsClosed)'
  BY StepOneHolds
<1>3. Init => OneHolds /\ RedeemedIsClosed
  BY LedgerInit, InitOneHolds
<1>4. OneHolds => OneTimeSession
  <2> SUFFICES ASSUME OneHolds, NEW x \in Exchanges, NEW y \in Exchanges,
                      reply[x] = "OK", reply[y] = "OK", dto[x].sid = dto[y].sid
               PROVE  x = y
    BY DEF OneTimeSession
  <2>1. <<x, dto[x].sid>> \in Held /\ <<y, dto[x].sid>> \in Held
    BY DEF Held, LedgerRedeemed
  <2> QED BY <2>1 DEF OneHolds
<1> QED BY InitIInv, StepIInv, InitSessionInv, StepSessionInv, <1>1, <1>2, <1>3, <1>4, PTL
        DEF Spec
---------------------------------------------------------------------------
(* What a step of one request does, whichever await it resumes from. *)

\* Nothing but the request moves, and it had not ended.
Alone(r) ==
  /\ pc[r] # "done" /\ now' = now
  /\ \A q \in Requests \ {r} :
       pc'[q] = pc[q] /\ dto'[q] = dto[q] /\ reply'[q] = reply[q]
  /\ \A q \in Minters \ {r} : minted'[q] = minted[q]

\* The counters of a replica after r was answered with c.
Counted(r, c, m) ==
  IF c = "OK"
  THEN IF r \in Initiates THEN recordPkceInitiate(m)
       ELSE IF r \in Exchanges THEN recordPkceExchange(m, "success") ELSE m
  ELSE IF c \in Codes
  THEN IF r \in Exchanges THEN failureMetrics(m, c) ELSE recordLoginFailure(m, c)
  ELSE m

\* It goes on, or is answered and counted.
GoesOn(r) == pc'[r] # "done" /\ stays
Ends(r) ==
  \E c \in Replies \ {"none", "lost"} :
    Answer(r, c) /\ Count(r, Counted(r, c, metrics[home[r]]))
Tells(r) == GoesOn(r) \/ Ends(r)

\* Who can change the refresh tokens of the cache.
Stores(r) == r \in Minters /\ pc[r] = "set token" /\ setToken(r)
Deletes(r) ==
  r \in Refreshes \union Logouts /\ pc[r] = "delete token" /\ delToken(r)

\* The body is read and the token signed once; a token is returned after it
\* was stored, and none is refused once its revocation was tried.
Past(l) == l \notin {"new", "get token", "delete token"}
Tried(r) == Past(pc[r]) /\ reply[r] # "INVALID_TOKEN"

\* Where a refresh is once its token was found in the cache, and once that
\* was deleted.
Rotating == {"delete token", "sign", "set token", "respond"}
Rotated == {"sign", "set token", "respond"}
Rotates(f) ==
  /\ pc'[f] \in Rotating =>
       pc[f] \in Rotating \/ (pc[f] = "get token" /\ refreshExp[dto[f]] # 0)
  /\ pc'[f] \in Rotated => pc[f] \in Rotated \/ Deletes(f)

Handles(r) ==
  /\ pc'[r] # "new" /\ (pc[r] # "new" => dto'[r] = dto[r])
  /\ UNCHANGED refreshExp \/ Stores(r) \/ Deletes(r)
  /\ r \in Minters =>
       \/ minted'[r] = minted[r]
       \/ pc[r] \in {"check", "sign"} /\ minted'[r].iat = now
  /\ r \in Minters /\ pc'[r] = "respond" => Stores(r)
  /\ reply'[r] = "OK" => pc[r] = "respond"
  /\ r \in Refreshes \union Logouts /\ Past(pc[r]) => Tried(r)'
  /\ Deletes(r) => Tried(r)'
  /\ r \in Refreshes => Rotates(r)

Moves(r) == Alone(r) /\ Tells(r) /\ Handles(r)

\* An answer that counts nothing.
LEMMA BreaksEnds ==
  ASSUME IInv, NEW r \in Requests, Breaks(r)
  PROVE  Ends(r)
<1> DEFINE c == "INTERNAL"
<1>1. Counted(r, c, metrics[home[r]]) = metrics[home[r]]
  BY DEF Counted, Codes
<1>2. Count(r, metrics[home[r]])
  BY Deployment DEF Breaks, Count, IInv, TypeOK
<1>3. c \in Replies \ {"none", "lost"}
  BY DEF Replies
<1> QED BY <1>1, <1>2, <1>3 DEF Breaks, Ends

LEMMA ExchangeFailsEnds ==
  ASSUME NEW x \in Exchanges, NEW c \in Codes, exchangeFails(x, c)
  PROVE  Ends(x)
<1>1. Counted(x, c, metrics[home[x]]) = failureMetrics(metrics[home[x]], c)
  BY DEF Counted, Codes
<1>2. c \in Replies \ {"none", "lost"}
  BY DEF Replies, Codes
<1> QED BY <1>1, <1>2 DEF Ends, exchangeFails

LEMMA RefreshFailsEnds ==
  ASSUME NEW f \in Refreshes, refreshFails(f)
  PROVE  Ends(f)
<1> DEFINE c == "INVALID_TOKEN"
<1>1. Counted(f, c, metrics[home[f]]) = recordLoginFailure(metrics[home[f]], c)
  BY KindsAreDisjoint DEF Counted, Codes
<1>2. c \in Replies \ {"none", "lost"}
  BY DEF Replies, Codes
<1> QED BY <1>1, <1>2 DEF Ends, refreshFails

LEMMA RequestMoves ==
  ASSUME IInv, IInv', Next
  PROVE  Environment \/ \E q \in Requests : Moves(q)
<1>1. ASSUME NEW i \in Initiates, NEW e \in Emails, NEW p \in Providers,
         initiatePkce(i, e, p)
      PROVE  \E q \in Requests : Moves(q)
  <2>1. i \in Requests
    BY DEF Requests, Minters
  <2>2. Alone(i)
    BY <1>1, <2>1 DEF IInv, TypeOK, Alone, initiatePkce, Answer, Goto,
         cacheVars, stays, Requests, Minters
  <2>3. Tells(i)
    <3>1. SignInCheck(home[i], e) \in Codes \union {"OK"}
      BY VerdictCode
    <3>2. CASE SignInCheck(home[i], e) = "OK"
      BY <1>1, <2>1, <3>2 DEF IInv, TypeOK, Tells, GoesOn, initiatePkce, Goto
    <3>3. CASE SignInCheck(home[i], e) # "OK"
      BY <1>1, <3>1, <3>3, KindsAreDisjoint
         DEF Tells, Ends, Counted, initiatePkce, Replies, Codes
    <3> QED BY <3>2, <3>3
  <2>4. Handles(i)
    BY <1>1, <2>1, KindsAreDisjoint
       DEF IInv, TypeOK, Places,
         Replied, Handles, Stores, Deletes, Past, Tried, Rotates,
         Rotating, Rotated, initiatePkce,
         Answer, Goto, cacheVars, stays, Requests, Minters
  <2> QED BY <2>1, <2>2, <2>3, <2>4 DEF Moves
<1>2. ASSUME NEW i \in Initiates,
         createSession(i)
      PROVE  \E q \in Requests : Moves(q)
  <2>1. i \in Requests
    BY DEF Requests, Minters
  <2>2. Alone(i)
    BY <1>2, <2>1 DEF IInv, TypeOK, Alone, createSession, Goto, setSession,
         stays, Requests, Minters
  <2>3. Tells(i)
    BY <1>2, <2>1 DEF IInv, TypeOK, Tells, GoesOn, createSession, Goto
  <2>4. Handles(i)
    BY <1>2, <2>1, KindsAreDisjoint
       DEF IInv, TypeOK, Places,
         Replied, Handles, Stores, Deletes, Past, Tried, Rotates,
         Rotating, Rotated, createSession,
         Goto, setSession, stays, Requests, Minters
  <2> QED BY <2>1, <2>2, <2>3, <2>4 DEF Moves
<1>3. ASSUME NEW i \in Initiates,
         createSessionRejects(i)
      PROVE  \E q \in Requests : Moves(q)
  <2>1. i \in Requests
    BY DEF Requests, Minters
  <2>2. Alone(i)
    BY <1>3, <2>1 DEF IInv, TypeOK, Alone, createSessionRejects, Answer,
         Breaks, Goto, setSession, Requests, Minters
  <2>3. Tells(i)
    BY <1>3, <2>1, BreaksEnds DEF Tells, createSessionRejects
  <2>4. Handles(i)
    BY <1>3, <2>1, KindsAreDisjoint
       DEF IInv, TypeOK, Places,
         Replied, Handles, Stores, Deletes, Past, Tried, Rotates,
         Rotating, Rotated,
         createSessionRejects, Answer, Breaks, Goto, setSession, Requests,
         Minters
  <2> QED BY <2>1, <2>2, <2>3, <2>4 DEF Moves
<1>4. ASSUME NEW i \in Initiates,
         respondInitiate(i)
      PROVE  \E q \in Requests : Moves(q)
  <2>1. i \in Requests
    BY DEF Requests, Minters
  <2>2. Alone(i)
    BY <1>4, <2>1 DEF IInv, TypeOK, Alone, respondInitiate, Answer, Goto,
         cacheVars, Requests, Minters
  <2>3. Tells(i)
    <3>1. "OK" \in Replies \ {"none", "lost"}
      BY DEF Replies
    <3> QED BY <1>4, <3>1, KindsAreDisjoint DEF respondInitiate, Tells, Ends, Counted
  <2>4. Handles(i)
    BY <1>4, <2>1, KindsAreDisjoint
       DEF IInv, TypeOK, Places,
         Replied, Handles, Stores, Deletes, Past, Tried, Rotates,
         Rotating, Rotated, respondInitiate,
         Answer, Goto, cacheVars, Requests, Minters
  <2> QED BY <2>1, <2>2, <2>3, <2>4 DEF Moves
<1>5. ASSUME NEW x \in Exchanges, NEW s \in Initiates,
         NEW so \in BOOLEAN, NEW vo \in BOOLEAN, NEW hc \in BOOLEAN,
         exchangePkce(x, s, so, vo, hc)
      PROVE  \E q \in Requests : Moves(q)
  <2>1. x \in Requests
    BY DEF Requests, Minters
  <2>2. Alone(x)
    BY <1>5, <2>1 DEF IInv, TypeOK, Alone, exchangePkce, Goto, cacheVars,
         stays, Requests, Minters
  <2>3. Tells(x)
    BY <1>5, <2>1 DEF IInv, TypeOK, Tells, GoesOn, exchangePkce, Goto
  <2>4. Handles(x)
    BY <1>5, <2>1, KindsAreDisjoint
       DEF IInv, TypeOK, Places,
         Replied, Handles, Stores, Deletes, Past, Tried, Rotates,
         Rotating, Rotated, exchangePkce, Goto,
         cacheVars, stays, Requests, Minters
  <2> QED BY <2>1, <2>2, <2>3, <2>4 DEF Moves
<1>6. ASSUME NEW x \in Exchanges,
         consumeSessionGet(x)
      PROVE  \E q \in Requests : Moves(q)
  <2>1. x \in Requests
    BY DEF Requests, Minters
  <2>2. Alone(x)
    BY <1>6, <2>1 DEF IInv, TypeOK, Alone, consumeSessionGet, Answer,
         Breaks, Goto, cacheVars, exchangeFails, stays, Requests, Minters
  <2>3. Tells(x)
    <3>1. ASSUME exchangeFails(x, "INVALID_PKCE_SESSION") PROVE Tells(x)
      BY <3>1, ExchangeFailsEnds DEF Tells, Codes
    <3>2. ASSUME Goto(x, "delete session"), stays PROVE Tells(x)
      BY <2>1, <3>2 DEF IInv, TypeOK, Tells, GoesOn, Goto
    <3>3. ASSUME Breaks(x) PROVE Tells(x)
      BY <2>1, <3>3, BreaksEnds DEF Tells
    <3> QED BY <1>6, <3>1, <3>2, <3>3 DEF consumeSessionGet
  <2>4. Handles(x)
    BY <1>6, <2>1, KindsAreDisjoint
       DEF IInv, TypeOK, Places,
         Replied, Handles, Stores, Deletes, Past, Tried, Rotates,
         Rotating, Rotated, consumeSessionGet,
         Answer, Breaks, Goto, cacheVars, exchangeFails, stays, Requests,
         Minters
  <2> QED BY <2>1, <2>2, <2>3, <2>4 DEF Moves
<1>7. ASSUME NEW x \in Exchanges,
         consumeSessionDel(x)
      PROVE  \E q \in Requests : Moves(q)
  <2>1. x \in Requests
    BY DEF Requests, Minters
  <2>2. Alone(x)
    BY <1>7, <2>1 DEF IInv, TypeOK, Alone, consumeSessionDel, Goto,
         delSession, stays, Requests, Minters
  <2>3. Tells(x)
    BY <1>7, <2>1 DEF IInv, TypeOK, Tells, GoesOn, consumeSessionDel, Goto
  <2>4. Handles(x)
    BY <1>7, <2>1, KindsAreDisjoint
       DEF IInv, TypeOK, Places,
         Replied, Handles, Stores, Deletes, Past, Tried, Rotates,
         Rotating, Rotated, consumeSessionDel,
         Goto, delSession, stays, Requests, Minters
  <2> QED BY <2>1, <2>2, <2>3, <2>4 DEF Moves
<1>8. ASSUME NEW x \in Exchanges,
         consumeSessionDelRejects(x)
      PROVE  \E q \in Requests : Moves(q)
  <2>1. x \in Requests
    BY DEF Requests, Minters
  <2>2. Alone(x)
    BY <1>8, <2>1 DEF IInv, TypeOK, Alone, consumeSessionDelRejects, Answer,
         Breaks, Goto, delSession, Requests, Minters
  <2>3. Tells(x)
    BY <1>8, <2>1, BreaksEnds DEF Tells, consumeSessionDelRejects
  <2>4. Handles(x)
    BY <1>8, <2>1, KindsAreDisjoint
       DEF IInv, TypeOK, Places,
         Replied, Handles, Stores, Deletes, Past, Tried, Rotates,
         Rotating, Rotated,
         consumeSessionDelRejects, Answer, Breaks, Goto, delSession,
         Requests, Minters
  <2> QED BY <2>1, <2>2, <2>3, <2>4 DEF Moves
<1>9. ASSUME NEW x \in Exchanges,
         checkExchange(x)
      PROVE  \E q \in Requests : Moves(q)
  <2>1. x \in Requests
    BY DEF Requests, Minters
  <2>2. Alone(x)
    BY <1>9, <2>1 DEF IInv, TypeOK, Alone, checkExchange, Answer, Goto,
         cacheVars, exchangeFails, signRefreshToken, stays, Requests,
         Minters
  <2>3. Tells(x)
    <3>1. ASSUME signRefreshToken(x, SessionEmail(x)) PROVE Tells(x)
      BY <2>1, <3>1 DEF IInv, TypeOK, Tells, GoesOn, signRefreshToken, Goto
    <3>2. ASSUME Verdict(x) # "OK", exchangeFails(x, Verdict(x)) PROVE Tells(x)
      BY <3>2, ExchangeFailsEnds, ExchangeVerdictCode DEF Tells
    <3>3. \/ signRefreshToken(x, SessionEmail(x))
          \/ Verdict(x) # "OK" /\ exchangeFails(x, Verdict(x))
      BY <1>9 DEF checkExchange
    <3> QED BY <3>1, <3>2, <3>3
  <2>4. Handles(x)
    <3>1. pc[x] = "check" /\ dto' = dto /\ refreshExp' = refreshExp
      BY <1>9 DEF checkExchange, cacheVars
    <3>2. reply[x] = "none" /\ x \in Minters /\ x \notin Refreshes \union Logouts
      BY <2>1, <3>1, KindsAreDisjoint DEF IInv, Replied, Minters
    <3>3. ASSUME signRefreshToken(x, SessionEmail(x)) PROVE Handles(x)
      <4>1. minted'[x].iat = now
        BY <3>2, <3>3 DEF IInv, TypeOK, signRefreshToken
      <4>2. pc'[x] = "set token" /\ reply'[x] = "none"
        BY <2>1, <3>2, <3>3 DEF IInv, TypeOK, signRefreshToken, Goto, stays
      <4> QED BY <3>1, <3>2, <4>1, <4>2 DEF Handles, Deletes
    <3>4. ASSUME Verdict(x) # "OK", exchangeFails(x, Verdict(x)), UNCHANGED minted
          PROVE  Handles(x)
      <4>1. pc'[x] = "done" /\ reply'[x] # "OK"
        BY <2>1, <3>4 DEF IInv, TypeOK, exchangeFails, Answer, Goto
      <4> QED BY <3>1, <3>2, <3>4, <4>1 DEF Handles, Deletes
    <3>5. \/ signRefreshToken(x, SessionEmail(x))
          \/ Verdict(x) # "OK" /\ exchangeFails(x, Verdict(x)) /\ UNCHANGED minted
      BY <1>9 DEF checkExchange
    <3> QED BY <3>3, <3>4, <3>5
  <2> QED BY <2>1, <2>2, <2>3, <2>4 DEF Moves
<1>10. ASSUME NEW r \in Minters,
         storeRefreshToken(r)
      PROVE  \E q \in Requests : Moves(q)
  <2>1. r \in Requests
    BY DEF Requests, Minters
  <2>2. Alone(r)
    BY <1>10, <2>1 DEF IInv, TypeOK, Alone, storeRefreshToken, Goto,
         setToken, stays, Requests, Minters
  <2>3. Tells(r)
    BY <1>10, <2>1 DEF IInv, TypeOK, Tells, GoesOn, storeRefreshToken, Goto
  <2>4. Handles(r)
    <3>1. r \in Refreshes => Rotates(r)
      BY <1>10, <2>1 DEF IInv, TypeOK, Rotates, Rotating, Rotated, Deletes, storeRefreshToken, Goto
    <3> QED
      BY <1>10, <2>1, <3>1, KindsAreDisjoint
         DEF IInv, TypeOK, Places, Replied, Handles, Stores, Deletes, Past, Tried,
           storeRefreshToken,
           Goto, setToken, stays, Requests, Minters
  <2> QED BY <2>1, <2>2, <2>3, <2>4 DEF Moves
<1>11. ASSUME NEW r \in Minters,
         storeRefreshTokenRejects(r)
      PROVE  \E q \in Requests : Moves(q)
  <2>1. r \in Requests
    BY DEF Requests, Minters
  <2>2. Alone(r)
    BY <1>11, <2>1 DEF IInv, TypeOK, Alone, storeRefreshTokenRejects,
         Answer, Breaks, Goto, setToken, Requests, Minters
  <2>3. Tells(r)
    BY <1>11, <2>1, BreaksEnds DEF Tells, storeRefreshTokenRejects
  <2>4. Handles(r)
    BY <1>11, <2>1, KindsAreDisjoint
       DEF IInv, TypeOK, Places,
         Replied, Handles, Stores, Deletes, Past, Tried, Rotates,
         Rotating, Rotated,
         storeRefreshTokenRejects, Answer, Breaks, Goto, setToken, Requests,
         Minters
  <2> QED BY <2>1, <2>2, <2>3, <2>4 DEF Moves
<1>12. ASSUME NEW x \in Exchanges,
         respondExchange(x)
      PROVE  \E q \in Requests : Moves(q)
  <2>1. x \in Requests
    BY DEF Requests, Minters
  <2>2. Alone(x)
    BY <1>12, <2>1 DEF IInv, TypeOK, Alone, respondExchange, Answer, Goto,
         cacheVars, Requests, Minters
  <2>3. Tells(x)
    <3>1. "OK" \in Replies \ {"none", "lost"}
      BY DEF Replies
    <3> QED BY <1>12, <3>1, KindsAreDisjoint DEF respondExchange, Tells, Ends, Counted
  <2>4. Handles(x)
    BY <1>12, <2>1, KindsAreDisjoint
       DEF IInv, TypeOK, Places,
         Replied, Handles, Stores, Deletes, Past, Tried, Rotates,
         Rotating, Rotated, respondExchange,
         Answer, Goto, cacheVars, Requests, Minters
  <2> QED BY <2>1, <2>2, <2>3, <2>4 DEF Moves
<1>13. ASSUME NEW f \in Refreshes, NEW t \in Presentable,
         refreshAccessToken(f, t)
      PROVE  \E q \in Requests : Moves(q)
  <2>1. f \in Requests
    BY DEF Requests, Minters
  <2>2. Alone(f)
    BY <1>13, <2>1 DEF IInv, TypeOK, Alone, refreshAccessToken, Answer,
         Goto, cacheVars, refreshFails, stays, Requests, Minters
  <2>3. Tells(f)
    <3>1. ASSUME Goto(f, "get token"), stays PROVE Tells(f)
      BY <2>1, <3>1 DEF IInv, TypeOK, Tells, GoesOn, Goto
    <3>2. ASSUME refreshFails(f) PROVE Tells(f)
      BY <3>2, RefreshFailsEnds DEF Tells
    <3>3. \/ Goto(f, "get token") /\ stays
          \/ refreshFails(f)
      BY <1>13 DEF refreshAccessToken
    <3> QED BY <3>1, <3>2, <3>3
  <2>4. Handles(f)
    <3>1. pc[f] = "new" /\ minted' = minted /\ refreshExp' = refreshExp
      BY <1>13 DEF refreshAccessToken, cacheVars
    <3>2. reply[f] = "none"
      BY <2>1, <3>1 DEF IInv, Replied
    <3>3. pc'[f] \in {"get token", "done"} /\ reply'[f] \in {"none", "INVALID_TOKEN"}
      BY <1>13, <2>1, <3>2
         DEF IInv, TypeOK, refreshAccessToken, refreshFails, Answer, Goto, stays
    <3> QED BY <3>1, <3>2, <3>3 DEF Handles, Deletes, Past, Rotates, Rotating, Rotated
  <2> QED BY <2>1, <2>2, <2>3, <2>4 DEF Moves
<1>14. ASSUME NEW f \in Refreshes,
         validateRefreshToken(f)
      PROVE  \E q \in Requests : Moves(q)
  <2>1. f \in Requests
    BY DEF Requests, Minters
  <2>2. Alone(f)
    BY <1>14, <2>1 DEF IInv, TypeOK, Alone, validateRefreshToken, Answer,
         Goto, cacheVars, refreshFails, stays, Requests, Minters
  <2>3. Tells(f)
    <3>1. ASSUME Goto(f, "delete token"), stays PROVE Tells(f)
      BY <2>1, <3>1 DEF IInv, TypeOK, Tells, GoesOn, Goto
    <3>2. ASSUME refreshFails(f) PROVE Tells(f)
      BY <3>2, RefreshFailsEnds DEF Tells
    <3> QED BY <1>14, <3>1, <3>2 DEF validateRefreshToken
  <2>4. Handles(f)
    BY <1>14, <2>1, KindsAreDisjoint
       DEF IInv, TypeOK, Places,
         Replied, Handles, Stores, Deletes, Past, Tried, Rotates,
         Rotating, Rotated,
         validateRefreshToken, Answer, Goto, cacheVars, refreshFails, stays,
         Requests, Minters
  <2> QED BY <2>1, <2>2, <2>3, <2>4 DEF Moves
<1>15. ASSUME NEW r \in Refreshes \union Logouts,
         revokeRefreshToken(r)
      PROVE  \E q \in Requests : Moves(q)
  <2>1. r \in Requests
    BY DEF Requests, Minters
  <2>2. Alone(r)
    BY <1>15, <2>1 DEF IInv, TypeOK, Alone, revokeRefreshToken, Goto,
         delToken, stays, Requests, Minters
  <2>3. Tells(r)
    BY <1>15, <2>1 DEF IInv, TypeOK, Tells, GoesOn, revokeRefreshToken, Goto
  <2>4. Handles(r)
    <3>1. r \in Refreshes => Rotates(r)
      BY <1>15, <2>1 DEF IInv, TypeOK, Rotates, Rotating, Rotated, Deletes, revokeRefreshToken, Goto, delToken
    <3> QED
      BY <1>15, <2>1, <3>1, KindsAreDisjoint
         DEF IInv, TypeOK, Places, Replied, Handles, Stores, Deletes, Past, Tried,
           revokeRefreshToken,
           Goto, delToken, stays, Requests, Minters
  <2> QED BY <2>1, <2>2, <2>3, <2>4 DEF Moves
<1>16. ASSUME NEW r \in Refreshes \union Logouts,
         revokeRefreshTokenRejects(r)
      PROVE  \E q \in Requests : Moves(q)
  <2>1. r \in Requests
    BY DEF Requests, Minters
  <2>2. Alone(r)
    BY <1>16, <2>1 DEF IInv, TypeOK, Alone, revokeRefreshTokenRejects,
         Answer, Breaks, Goto, delToken, Requests, Minters
  <2>3. Tells(r)
    BY <1>16, <2>1, BreaksEnds DEF Tells, revokeRefreshTokenRejects
  <2>4. Handles(r)
    BY <1>16, <2>1, KindsAreDisjoint
       DEF IInv, TypeOK, Places,
         Replied, Handles, Stores, Deletes, Past, Tried, Rotates,
         Rotating, Rotated,
         revokeRefreshTokenRejects, Answer, Breaks, Goto, delToken,
         Requests, Minters
  <2> QED BY <2>1, <2>2, <2>3, <2>4 DEF Moves
<1>17. ASSUME NEW f \in Refreshes,
         createAuthResponse(f)
      PROVE  \E q \in Requests : Moves(q)
  <2>1. f \in Requests
    BY DEF Requests, Minters
  <2>2. Alone(f)
    BY <1>17, <2>1 DEF IInv, TypeOK, Alone, createAuthResponse, Goto,
         cacheVars, signRefreshToken, stays, Requests, Minters
  <2>3. Tells(f)
    BY <1>17, <2>1 DEF IInv, TypeOK, Tells, GoesOn, createAuthResponse, Goto, signRefreshToken
  <2>4. Handles(f)
    <3>1. f \in Refreshes => Rotates(f)
      BY <1>17, <2>1 DEF IInv, TypeOK, Rotates, Rotating, Rotated, Deletes, createAuthResponse, Goto, signRefreshToken
    <3> QED
      BY <1>17, <2>1, <3>1, KindsAreDisjoint
         DEF IInv, TypeOK, Places, Replied, Handles, Stores, Deletes, Past, Tried,
           createAuthResponse,
           Goto, cacheVars, signRefreshToken, stays, Requests, Minters
  <2> QED BY <2>1, <2>2, <2>3, <2>4 DEF Moves
<1>18. ASSUME NEW l \in Logouts, NEW t \in Presentable,
         logout(l, t)
      PROVE  \E q \in Requests : Moves(q)
  <2>1. l \in Requests
    BY DEF Requests, Minters
  <2>2. Alone(l)
    BY <1>18, <2>1 DEF IInv, TypeOK, Alone, logout, Goto, cacheVars, stays,
         Requests, Minters
  <2>3. Tells(l)
    BY <1>18, <2>1 DEF IInv, TypeOK, Tells, GoesOn, logout, Goto
  <2>4. Handles(l)
    BY <1>18, <2>1, KindsAreDisjoint
       DEF IInv, TypeOK, Places,
         Replied, Handles, Stores, Deletes, Past, Tried, Rotates,
         Rotating, Rotated, logout, Goto,
         cacheVars, stays, Requests, Minters
  <2> QED BY <2>1, <2>2, <2>3, <2>4 DEF Moves
<1>19. ASSUME NEW r \in Refreshes \union Logouts,
         respondPlain(r)
      PROVE  \E q \in Requests : Moves(q)
  <2>1. r \in Requests
    BY DEF Requests, Minters
  <2>2. Alone(r)
    BY <1>19, <2>1 DEF IInv, TypeOK, Alone, respondPlain, Answer, Goto,
         cacheVars, Requests, Minters
  <2>3. Tells(r)
    <3>1. Counted(r, "OK", metrics[home[r]]) = metrics[home[r]]
      BY KindsAreDisjoint DEF Counted
    <3>2. Count(r, metrics[home[r]])
      BY <1>19, <2>1, Deployment DEF respondPlain, Count, IInv, TypeOK
    <3>3. Answer(r, "OK") /\ "OK" \in Replies \ {"none", "lost"}
      BY <1>19 DEF respondPlain, Replies
    <3> QED BY <3>1, <3>2, <3>3 DEF Tells, Ends
  <2>4. Handles(r)
    BY <1>19, <2>1, KindsAreDisjoint
       DEF IInv, TypeOK, Places,
         Replied, Handles, Stores, Deletes, Past, Tried, Rotates,
         Rotating, Rotated, respondPlain,
         Answer, Goto, cacheVars, Requests, Minters
  <2> QED BY <2>1, <2>2, <2>3, <2>4 DEF Moves
<1> QED
  BY <1>1, <1>2, <1>3, <1>4, <1>5, <1>6, <1>7, <1>8, <1>9, <1>10, <1>11, <1>12, <1>13, <1>14, <1>15, <1>16, <1>17, <1>18, <1>19
     DEF Next, Arrive, InitiateStep, ExchangeStep, RefreshStep, LogoutStep, Minters
---------------------------------------------------------------------------
(* A token that was given out and not revoked is in the cache as long as   *)
(* its JWT verifies.                                                       *)

\* The entry lasts as long as one written in the second of signing.
Lasts(t) == refreshExp[t] >= t.iat + RefreshTtl \/ now >= t.iat + RefreshTtl

\* Somebody read it and has tried to revoke it: less than Revoked by requests
\* that have no body yet.
Spent(t) == \E r \in Refreshes \union Logouts : dto[r] = t /\ Tried(r)

Returned(r) == pc[r] = "respond" \/ reply[r] = "OK"
Timely == \A r \in Minters : minted[r] \in Tokens => minted[r].iat <= now
Kept ==
  ~MemoryCache =>
    \A r \in Minters : Returned(r) /\ ~Spent(minted[r]) => Lasts(minted[r])
TokenInv == Timely /\ Kept

LEMMA InitTokenInv == Init => TokenInv
<1> SUFFICES ASSUME Init PROVE TokenInv
  OBVIOUS
<1>1. \A r \in Minters : minted[r] = NoToken /\ ~ Returned(r)
  BY DEF Init, Returned, Requests, Minters
<1> QED BY <1>1, Nulls DEF TokenInv, Timely, Kept

LEMMA TokenArithmetic ==
  ASSUME TypeOK, NEW t \in Tokens
  PROVE  /\ t.iat \in Nat /\ now \in Nat /\ RefreshTtl \in Nat
         /\ refreshExp[t] \in Nat
<1>1. t.iat \in Nat
  BY Durations DEF Tokens
<1>2. now \in Nat /\ refreshExp[t] \in Nat
  BY Durations DEF TypeOK
<1> QED BY <1>1, <1>2, Durations

\* Once a token was tried it stays tried.
LEMMA SpentStays ==
  ASSUME IInv, NEW r \in Requests, Moves(r), NEW t, Spent(t)
  PROVE  Spent(t)'
<1>1. PICK q \in Refreshes \union Logouts : dto[q] = t /\ Tried(q)
  BY DEF Spent
<1>2. CASE q = r
  <2>1. Past(pc[r]) /\ dto[r] = t
    BY <1>1, <1>2 DEF Tried
  <2>2. dto'[r] = t /\ Tried(r)'
    BY <1>2, <2>1 DEF Moves, Handles, Past
  <2> QED BY <1>2, <2>2 DEF Spent
<1>3. CASE q # r
  <2>1. /\ pc'[q] = pc[q] /\ dto'[q] = dto[q] /\ reply'[q] = reply[q]
    BY <1>3 DEF Moves, Alone, Requests
  <2>2. dto'[q] = t /\ Tried(q)'
    BY <1>1, <2>1 DEF Tried
  <2> QED BY <2>2 DEF Spent
<1> QED BY <1>2, <1>3

\* Whoever has a token to return had it before, or has just stored it.
LEMMA ReturnedBefore ==
  ASSUME IInv, NEW r \in Requests, Moves(r), NEW q \in Minters, Returned(q)'
  PROVE  minted'[q] = minted[q] /\ (Returned(q) \/ (q = r /\ Stores(r)))
<1>1. q \in Requests
  BY DEF Requests, Minters
<1>2. CASE q # r
  BY <1>1, <1>2 DEF Moves, Alone, Returned
<1>3. CASE q = r
  <2>1. pc[r] \in {"set token", "respond"}
    BY <1>3 DEF Moves, Handles, Returned, Stores
  <2>2. minted'[r] = minted[r]
    BY <1>3, <2>1 DEF Moves, Handles
  <2>3. Stores(r) \/ pc[r] = "respond"
    BY <1>3 DEF Moves, Handles, Returned
  <2> QED BY <1>3, <2>2, <2>3 DEF Returned
<1> QED BY <1>2, <1>3

LEMMA RequestKeepsTokens ==
  ASSUME IInv, IInv', TokenInv, NEW r \in Requests, Moves(r)
  PROVE  TokenInv'
<1>0. now' = now /\ TypeOK /\ TypeOK'
  BY DEF Moves, Alone, IInv
<1>1. Timely'
  <2> SUFFICES ASSUME NEW q \in Minters, minted'[q] \in Tokens
               PROVE  minted'[q].iat <= now
    BY <1>0 DEF Timely
  <2>1. minted'[q] = minted[q] \/ minted'[q].iat = now
    BY DEF Moves, Alone, Handles
  <2>2. minted[q] \in Tokens => minted[q].iat <= now
    BY DEF TokenInv, Timely
  <2>3. now <= now
    BY <1>0, TokenArithmetic
  <2> QED BY <2>1, <2>2, <2>3
<1>2. ASSUME ~MemoryCache, NEW q \in Minters, Returned(q)', ~Spent(minted[q])'
      PROVE  Lasts(minted[q])'
  <2>1. minted'[q] = minted[q] /\ (Returned(q) \/ (q = r /\ Stores(r)))
    BY <1>2, ReturnedBefore
  <2>2. minted'[q] \in Tokens
    BY <1>2 DEF IInv, Signed, Returned
  <2>3. PICK t \in Tokens : t = minted[q] /\ t = minted'[q]
    BY <2>1, <2>2
  <2>4. ~ Spent(t)'
    BY <1>2, <2>3 DEF Spent
  <2>5. ~ Spent(t)
    BY <2>4, SpentStays
  <2>6. t.iat \in Nat /\ now \in Nat /\ RefreshTtl \in Nat
    BY <1>0, TokenArithmetic
  <2>7. t.iat <= now
    BY <2>3 DEF TokenInv, Timely
  <2>8. refreshExp'[t] = refreshExp[t] \/ refreshExp'[t] = now + RefreshTtl
    <3>1. CASE UNCHANGED refreshExp
      BY <3>1
    <3>2. CASE Stores(r)
      <4>1. refreshExp' = [refreshExp EXCEPT ![minted[r]] = now + RefreshTtl]
        BY <3>2 DEF Stores, setToken
      <4> QED BY <1>0, <4>1 DEF TypeOK
    <3>3. CASE Deletes(r)
      <4>1. /\ Tried(r)' /\ dto'[r] = dto[r]
            /\ r \in Refreshes \union Logouts /\ delToken(r)
        BY <3>3 DEF Moves, Handles, Deletes
      <4>2. dto[r] # t
        BY <2>4, <4>1 DEF Spent
      <4> QED BY <4>1, <4>2 DEF delToken
    <3> QED BY <3>1, <3>2, <3>3 DEF Moves, Handles
  <2>9. CASE refreshExp'[t] = now + RefreshTtl
    <3>1. Lasts(t)'
      BY <2>6, <2>7, <2>9 DEF Lasts
    <3> QED BY <2>3, <3>1 DEF Lasts
  <2>10. CASE refreshExp'[t] = refreshExp[t] /\ Returned(q)
    <3>1. Lasts(t)
      BY <1>2, <2>3, <2>5, <2>10 DEF TokenInv, Kept
    <3> QED BY <1>0, <2>3, <2>10, <3>1 DEF Lasts
  <2>11. CASE q = r /\ Stores(r)
    <3>1. refreshExp' = [refreshExp EXCEPT ![t] = now + RefreshTtl]
      BY <2>3, <2>11 DEF Stores, setToken
    <3>2. refreshExp'[t] = now + RefreshTtl
      BY <1>0, <3>1 DEF TypeOK
    <3> QED BY <2>9, <3>2
  <2> QED BY <2>1, <2>8, <2>9, <2>10, <2>11
<1>3. Kept'
  BY <1>2 DEF Kept
<1> QED BY <1>1, <1>3 DEF TokenInv

\* What the environment leaves: time only grows, a request that dies was
\* tried and returns nothing.
LEMMA EnvironmentKeepsTokens ==
  ASSUME IInv, TokenInv, Environment
  PROVE  TokenInv'
<1>0. TypeOK
  BY DEF IInv
<1>1. CASE Tick
  <2>1. /\ now' = now + 1 /\ refreshExp' = refreshExp
        /\ UNCHANGED <<pc, dto, minted, reply>>
    BY <1>1 DEF Tick, cacheVars
  <2>2. \A r \in Minters :
          /\ Returned(r)' <=> Returned(r)
          /\ Spent(minted[r])' <=> Spent(minted[r])
    BY <2>1 DEF Returned, Spent, Tried
  <2>3. \A r \in Minters : Returned(r) => minted[r] \in Tokens
    BY DEF IInv, Signed, Returned
  <2>4. ASSUME NEW t \in Tokens
        PROVE  /\ t.iat <= now => t.iat <= now'
               /\ Lasts(t) => Lasts(t)'
    BY <1>0, <2>1, TokenArithmetic DEF Lasts
  <2>5. Timely'
    BY <2>1, <2>4 DEF TokenInv, Timely
  <2>6. Kept'
    BY <2>1, <2>2, <2>3, <2>4 DEF TokenInv, Kept
  <2> QED BY <2>5, <2>6 DEF TokenInv
<1>2. CASE \E i \in Initiates : expireSession(i)
  <2>1. UNCHANGED <<now, refreshExp, pc, dto, minted, reply>>
    BY <1>2 DEF expireSession
  <2> QED BY <2>1 DEF TokenInv, Timely, Kept, Returned, Spent, Tried, Lasts
<1>3. ASSUME NEW u \in Tokens, expireToken(u) PROVE TokenInv'
  <2>1. /\ refreshExp[u] = now /\ refreshExp' = [refreshExp EXCEPT ![u] = 0]
        /\ UNCHANGED <<now, pc, dto, minted, reply>>
    BY <1>3 DEF expireToken
  <2>2. \A r \in Minters :
          /\ Returned(r)' <=> Returned(r)
          /\ Spent(minted[r])' <=> Spent(minted[r])
    BY <2>1 DEF Returned, Spent, Tried
  <2>3. \A r \in Minters : Returned(r) => minted[r] \in Tokens
    BY DEF IInv, Signed, Returned
  <2>4. ASSUME NEW t \in Tokens, Lasts(t) PROVE Lasts(t)'
    <3>1. CASE t = u
      BY <2>1, <2>4, <3>1 DEF Lasts
    <3>2. CASE t # u
      BY <1>0, <2>1, <2>4, <3>2 DEF Lasts, TypeOK
    <3> QED BY <3>1, <3>2
  <2>5. Timely'
    BY <2>1 DEF TokenInv, Timely
  <2>6. Kept'
    BY <2>1, <2>2, <2>3, <2>4 DEF TokenInv, Kept
  <2> QED BY <2>5, <2>6 DEF TokenInv
<1>4. ASSUME NEW p \in Replicas, NEW list \in AllowLists, restart(p, list)
      PROVE  TokenInv'
  <2>1. /\ UNCHANGED <<now, dto, minted>>
        /\ ~MemoryCache => refreshExp' = refreshExp
    BY <1>4 DEF restart, cacheVars
  <2>2. \A r \in Requests :
          \/ pc'[r] = pc[r] /\ reply'[r] = reply[r]
          \/ pc'[r] = "done" /\ reply'[r] = "lost"
    BY <1>4 DEF restart
  <2>3. \A r \in Minters : Returned(r)' => Returned(r)
    BY <2>2 DEF Returned, Requests, Minters
  <2>4. ASSUME NEW t, Spent(t) PROVE Spent(t)'
    <3>1. PICK q \in Refreshes \union Logouts : dto[q] = t /\ Tried(q)
      BY <2>4 DEF Spent
    <3>2. Tried(q)' /\ dto'[q] = t
      BY <2>1, <2>2, <3>1 DEF Tried, Past, Requests
    <3> QED BY <3>2 DEF Spent
  <2>5. Timely'
    BY <2>1 DEF TokenInv, Timely
  <2>6. ASSUME ~MemoryCache, NEW r \in Minters, Returned(r)', ~Spent(minted[r])'
        PROVE  Lasts(minted[r])'
    <3>1. PICK t : t = minted[r] /\ t = minted'[r]
      BY <2>1
    <3>2. ~ Spent(t)'
      BY <2>6, <3>1 DEF Spent
    <3>3. ~ Spent(t)
      BY <2>4, <3>2
    <3>4. Lasts(t)
      BY <2>3, <2>6, <3>1, <3>3 DEF TokenInv, Kept
    <3> QED BY <2>1, <2>6, <3>1, <3>4 DEF Lasts
  <2>7. Kept'
    BY <2>6 DEF Kept
  <2> QED BY <2>5, <2>7 DEF TokenInv
<1> QED BY <1>1, <1>2, <1>3, <1>4 DEF Environment

LEMMA StepTokenInv == IInv /\ IInv' /\ TokenInv /\ [Next]_vars => TokenInv'
<1> SUFFICES ASSUME IInv, IInv', TokenInv, [Next]_vars PROVE TokenInv'
  OBVIOUS
<1>1. CASE Next
  BY <1>1, RequestMoves, RequestKeepsTokens, EnvironmentKeepsTokens
<1>2. CASE UNCHANGED vars
  <2>1. UNCHANGED <<now, refreshExp, pc, dto, minted, reply>>
    BY <1>2 DEF vars
  <2> QED BY <2>1 DEF TokenInv, Timely, Kept, Returned, Spent, Tried, Lasts
<1> QED BY <1>1, <1>2

\* A refresh token a client was given, that still verifies and that nobody
\* tried to refresh or log out, is in the cache, whatever other requests and
\* the clock do (signRefreshToken writes it before it is answered, and only
\* revokeRefreshToken and the ttl remove it).
THEOREM TokensUsable == Spec => []UnrevokedTokenUsable
<1>1. IInv /\ TokenInv => UnrevokedTokenUsable
  <2> SUFFICES ASSUME IInv, TokenInv, ~MemoryCache, NEW r \in Minters,
                      reply[r] = "OK", Verifies(minted[r]), ~Revoked(minted[r])
               PROVE  refreshExp[minted[r]] # 0
    BY DEF UnrevokedTokenUsable
  <2> DEFINE t == minted[r]
  <2>1. t \in Tokens /\ now < t.iat + RefreshLife
    BY DEF Verifies
  <2>2. ~ Spent(t)
    BY DEF Spent, Tried, Past, Revoked
  <2>3. Lasts(t)
    BY <2>2 DEF TokenInv, Kept, Returned
  <2> HIDE DEF t
  <2>4. /\ t.iat \in Nat /\ now \in Nat /\ RefreshTtl \in Nat \ {0}
        /\ RefreshLife \in Nat
    BY <2>1, TokenArithmetic, Durations DEF IInv
  <2>5. refreshExp[t] >= t.iat + RefreshTtl
    BY <2>1, <2>3, <2>4, Lifetimes DEF Lasts
  <2>6. refreshExp[t] # 0
    BY <2>4, <2>5
  <2> QED BY <2>6 DEF t
<1> QED
  BY InitIInv, StepIInv, InitTokenInv, StepTokenInv, <1>1, PTL DEF Spec
---------------------------------------------------------------------------
(* The counters of auth-metrics.ts count the answers.                      *)

One(b) == IF b THEN 1 ELSE 0

Agrees(p) ==
  /\ metrics[p].initiate = Cardinality(Told(p, Initiates, {"OK"}))
  /\ metrics[p].success = Cardinality(Told(p, Exchanges, {"OK"}))
  /\ metrics[p].failure = Cardinality(Told(p, Exchanges, CountedTwice))
  /\ \A c \in Codes :
       metrics[p].reasons[c] =
         Cardinality(Told(p, Requests, {c}))
           + Cardinality(Told(p, Exchanges, {c} \intersect CountedTwice))

\* Answers are given one at a time, so there are finitely many.
MetricsInv ==
  /\ IsFiniteSet(answered)
  /\ \A r \in answered : pc[r] = "done"
  /\ \A p \in Replicas : Agrees(p)

LEMMA InitMetricsInv == Init => MetricsInv
<1> SUFFICES ASSUME Init PROVE MetricsInv
  OBVIOUS
<1>1. answered = {} /\ IsFiniteSet(answered)
  BY FS_EmptySet DEF Init
<1>2. ASSUME NEW p \in Replicas PROVE Agrees(p)
  <2>1. \A S, codes : Told(p, S, codes) = {}
    BY <1>1 DEF Told
  <2>2. \A S, codes : Cardinality(Told(p, S, codes)) = 0
    BY <2>1, FS_EmptySet
  <2>3. metrics[p] = NoMetrics
    BY DEF Init
  <2>4. \A c \in Codes : metrics[p].reasons[c] = 0 + 0
    BY <2>3 DEF NoMetrics
  <2> QED BY <2>2, <2>3, <2>4 DEF Agrees, NoMetrics
<1> QED BY <1>1, <1>2 DEF MetricsInv

\* An answer is counted where it belongs and nowhere else.
LEMMA ToldGrows ==
  ASSUME IInv, MetricsInv, NEW r \in Requests, pc[r] # "done",
         NEW c \in Replies, Answer(r, c),
         NEW p, NEW S, NEW codes
  PROVE  /\ Cardinality(Told(p, S, codes)) \in Nat
         /\ Cardinality(Told(p, S, codes)') =
              Cardinality(Told(p, S, codes))
                + One(r \in S /\ home[r] = p /\ c \in codes)
<1> DEFINE N == Told(p, S, codes)
           joins == r \in S /\ home[r] = p /\ c \in codes
<1>1. r \notin answered /\ IsFiniteSet(answered)
  BY DEF MetricsInv
<1>2. IsFiniteSet(N) /\ r \notin N
  BY <1>1, FS_Subset DEF Told
<1>3. Cardinality(N) \in Nat
  BY <1>2, FS_CardinalityType
<1>4. /\ answered' = answered \union {r}
      /\ reply'[r] = c
      /\ \A q \in Requests : q # r => reply'[q] = reply[q]
  BY DEF IInv, TypeOK, Answer
<1>5. answered \subseteq Requests
  BY DEF IInv, TypeOK
<1>6. CASE joins
  <2>1. N' = N \union {r}
    BY <1>1, <1>4, <1>5, <1>6 DEF Told
  <2>2. Cardinality(N \union {r}) = Cardinality(N) + 1
    BY <1>2, FS_AddElement
  <2> QED BY <1>3, <1>6, <2>1, <2>2 DEF One
<1>7. CASE ~ joins
  <2>1. N' = N
    BY <1>1, <1>4, <1>5, <1>7 DEF Told
  <2> QED BY <1>3, <1>7, <2>1 DEF One
<1> QED BY <1>6, <1>7

LEMMA ReasonFields ==
  ASSUME NEW m \in Metrics, NEW c \in Codes
  PROVE  LET n == recordLoginFailure(m, c) IN
         /\ n \in Metrics
         /\ n.initiate = m.initiate /\ n.success = m.success /\ n.failure = m.failure
         /\ \A d \in Codes : n.reasons[d] = m.reasons[d] + One(c = d)
<1>1. m.reasons \in [Codes -> Nat]
  BY DEF Metrics
<1> DEFINE f == [m.reasons EXCEPT ![c] = @ + 1]
<1>2. recordLoginFailure(m, c) = [m EXCEPT !.reasons = f]
  BY DEF recordLoginFailure
<1>3. \A d \in Codes : f[d] = m.reasons[d] + One(c = d)
  BY <1>1 DEF One
<1> HIDE DEF f
<1>4. recordLoginFailure(m, c).reasons = f
  BY <1>2 DEF Metrics
<1>5. /\ recordLoginFailure(m, c).initiate = m.initiate
      /\ recordLoginFailure(m, c).success = m.success
      /\ recordLoginFailure(m, c).failure = m.failure
  BY <1>2 DEF Metrics
<1> QED BY <1>3, <1>4, <1>5, ReasonCounter

LEMMA CountedFields ==
  ASSUME NEW m \in Metrics, NEW r \in Requests, NEW c \in Replies
  PROVE  LET n == Counted(r, c, m) IN
         /\ n.initiate = m.initiate + One(r \in Initiates /\ c \in {"OK"})
         /\ n.success = m.success + One(r \in Exchanges /\ c \in {"OK"})
         /\ n.failure = m.failure + One(r \in Exchanges /\ c \in CountedTwice)
         /\ \A d \in Codes :
              n.reasons[d] = m.reasons[d] + One(r \in Requests /\ c \in {d})
                + One(r \in Exchanges /\ c \in {d} \intersect CountedTwice)
<1> DEFINE n == Counted(r, c, m)
<1>0. /\ m.initiate \in Nat /\ m.success \in Nat /\ m.failure \in Nat
      /\ \A d \in Codes : m.reasons[d] \in Nat
  BY DEF Metrics
<1>1. CASE c = "OK"
  <2>1. c \notin Codes /\ c \notin CountedTwice
    BY <1>1 DEF Codes, CountedTwice
  <2>2. CASE r \in Initiates
    <3>1. n = recordPkceInitiate(m) /\ r \notin Exchanges
      BY <1>1, <2>2, KindsAreDisjoint DEF Counted
    <3>2. /\ n.initiate = m.initiate + 1 /\ n.success = m.success
          /\ n.failure = m.failure /\ n.reasons = m.reasons
      BY <3>1 DEF recordPkceInitiate, Metrics
    <3> HIDE DEF n
    <3> QED BY <1>0, <1>1, <2>1, <2>2, <3>1, <3>2 DEF One, n
  <2>3. CASE r \in Exchanges
    <3>1. n = recordPkceExchange(m, "success") /\ r \notin Initiates
      BY <1>1, <2>3, KindsAreDisjoint DEF Counted
    <3>2. /\ n.initiate = m.initiate /\ n.success = m.success + 1
          /\ n.failure = m.failure /\ n.reasons = m.reasons
      BY <3>1 DEF recordPkceExchange, Metrics
    <3> HIDE DEF n
    <3> QED BY <1>0, <1>1, <2>1, <2>3, <3>1, <3>2 DEF One, n
  <2>4. CASE r \notin Initiates \union Exchanges
    <3>1. n = m
      BY <1>1, <2>4 DEF Counted
    <3> HIDE DEF n
    <3> QED BY <1>0, <1>1, <2>1, <2>4, <3>1 DEF One, n
  <2> QED BY <2>2, <2>3, <2>4
<1>2. CASE c \in Codes /\ r \in Exchanges /\ c \in CountedTwice
  <2> DEFINE m1 == recordPkceExchange(m, "failure")
             m2 == recordLoginFailure(m1, c)
  <2>0. c # "OK"
    BY <1>2 DEF CountedTwice
  <2>1. n = recordLoginFailure(m2, c)
    BY <1>2, <2>0 DEF Counted, failureMetrics
  <2>2. /\ m1.initiate = m.initiate /\ m1.success = m.success
        /\ m1.failure = m.failure + 1 /\ m1.reasons = m.reasons
    BY DEF recordPkceExchange, Metrics
  <2>3. m1 \in Metrics
    BY ExchangeCounter
  <2> HIDE DEF m1
  <2>4. /\ m2 \in Metrics /\ m2.initiate = m1.initiate
        /\ m2.success = m1.success /\ m2.failure = m1.failure
        /\ \A d \in Codes : m2.reasons[d] = m1.reasons[d] + One(c = d)
    BY <1>2, <2>3, ReasonFields
  <2> HIDE DEF m2
  <2>5. /\ n.initiate = m2.initiate
        /\ n.success = m2.success /\ n.failure = m2.failure
        /\ \A d \in Codes : n.reasons[d] = m2.reasons[d] + One(c = d)
    BY <1>2, <2>1, <2>4, ReasonFields
  <2>6. r \notin Initiates
    BY <1>2, KindsAreDisjoint
  <2> HIDE DEF n
  <2>7. \A d \in Codes :
          n.reasons[d] = m.reasons[d] + One(r \in Requests /\ c \in {d})
            + One(r \in Exchanges /\ c \in {d} \intersect CountedTwice)
    BY <1>0, <1>2, <2>2, <2>4, <2>5 DEF One
  <2>8. /\ n.initiate = m.initiate + One(r \in Initiates /\ c \in {"OK"})
        /\ n.success = m.success + One(r \in Exchanges /\ c \in {"OK"})
        /\ n.failure = m.failure + One(r \in Exchanges /\ c \in CountedTwice)
    BY <1>0, <1>2, <2>0, <2>2, <2>4, <2>5, <2>6 DEF One
  <2> QED BY <2>7, <2>8 DEF n
<1>3. CASE c \in Codes /\ ~ (r \in Exchanges /\ c \in CountedTwice)
  <2>0. c # "OK"
    BY <1>3 DEF Codes
  <2>1. n = recordLoginFailure(m, c)
    BY <1>3, <2>0 DEF Counted, failureMetrics
  <2>2. /\ n.initiate = m.initiate
        /\ n.success = m.success /\ n.failure = m.failure
        /\ \A d \in Codes : n.reasons[d] = m.reasons[d] + One(c = d)
    BY <1>3, <2>1, ReasonFields
  <2> HIDE DEF n
  <2>3. \A d \in Codes :
          n.reasons[d] = m.reasons[d] + One(r \in Requests /\ c \in {d})
            + One(r \in Exchanges /\ c \in {d} \intersect CountedTwice)
    BY <1>0, <1>3, <2>2 DEF One
  <2>4. /\ n.initiate = m.initiate + One(r \in Initiates /\ c \in {"OK"})
        /\ n.success = m.success + One(r \in Exchanges /\ c \in {"OK"})
        /\ n.failure = m.failure + One(r \in Exchanges /\ c \in CountedTwice)
    BY <1>0, <1>3, <2>0, <2>2 DEF One
  <2> QED BY <2>3, <2>4 DEF n
<1>4. CASE c # "OK" /\ c \notin Codes
  <2>1. n = m /\ c \notin CountedTwice
    BY <1>4 DEF Counted, Codes, CountedTwice
  <2> HIDE DEF n
  <2> QED BY <1>0, <1>4, <2>1 DEF One, n
<1> QED BY <1>1, <1>2, <1>3, <1>4

LEMMA AnswerKeepsMetrics ==
  ASSUME IInv, MetricsInv, NEW r \in Requests, pc[r] # "done",
         NEW c \in Replies, Answer(r, c),
         Count(r, Counted(r, c, metrics[home[r]]))
  PROVE  MetricsInv'
<1>1. IsFiniteSet(answered')
  BY FS_AddElement DEF MetricsInv, Answer
<1>2. \A q \in answered' : pc'[q] = "done"
  <2>1. pc'[r] = "done" /\ \A q \in Requests : q # r => pc'[q] = pc[q]
    BY DEF IInv, TypeOK, Answer, Goto
  <2> QED BY <2>1 DEF MetricsInv, IInv, TypeOK, Answer
<1>3. ASSUME NEW p \in Replicas PROVE Agrees(p)'
  <2> DEFINE m == metrics[p]
             num(S, codes) == Cardinality(Told(p, S, codes))
  <2>1. m \in Metrics /\ Agrees(p)
    BY DEF IInv, TypeOK, MetricsInv
  <2>2. \A S, codes :
          /\ Cardinality(Told(p, S, codes)) \in Nat
          /\ Cardinality(Told(p, S, codes)') =
               Cardinality(Told(p, S, codes))
                 + One(r \in S /\ home[r] = p /\ c \in codes)
    BY ToldGrows
  <2>3. CASE home[r] # p
    <3>1. metrics'[p] = m
      BY <2>3 DEF Count, IInv, TypeOK
    <3>2. \A S, codes : Cardinality(Told(p, S, codes)') = num(S, codes)
      BY <2>2, <2>3 DEF One
    <3> QED BY <2>1, <3>1, <3>2 DEF Agrees
  <2>4. CASE home[r] = p
    <3>1. metrics'[p] = Counted(r, c, m)
      BY <2>4 DEF Count, IInv, TypeOK
    <3>2. \A S, codes : /\ num(S, codes) \in Nat
                        /\ Cardinality(Told(p, S, codes)') =
                             num(S, codes) + One(r \in S /\ c \in codes)
      BY <2>2, <2>4 DEF One
    <3> DEFINE n == metrics'[p]
    <3>3. /\ n.initiate = m.initiate + One(r \in Initiates /\ c \in {"OK"})
          /\ n.success = m.success + One(r \in Exchanges /\ c \in {"OK"})
          /\ n.failure = m.failure + One(r \in Exchanges /\ c \in CountedTwice)
          /\ \A d \in Codes :
               n.reasons[d] = m.reasons[d] + One(r \in Requests /\ c \in {d})
                 + One(r \in Exchanges /\ c \in {d} \intersect CountedTwice)
      BY <2>1, <3>1, CountedFields
    <3>4. n.initiate = Cardinality(Told(p, Initiates, {"OK"})')
      BY <2>1, <3>2, <3>3 DEF Agrees
    <3>5. n.success = Cardinality(Told(p, Exchanges, {"OK"})')
      BY <2>1, <3>2, <3>3 DEF Agrees
    <3>6. n.failure = Cardinality(Told(p, Exchanges, CountedTwice)')
      BY <2>1, <3>2, <3>3 DEF Agrees
    <3>7. ASSUME NEW d \in Codes
          PROVE  n.reasons[d] =
                   Cardinality(Told(p, Requests, {d})')
                     + Cardinality(Told(p, Exchanges, {d} \intersect CountedTwice)')
      <4> DEFINE a == num(Requests, {d})
                 b == num(Exchanges, {d} \intersect CountedTwice)
                 x == One(r \in Requests /\ c \in {d})
                 y == One(r \in Exchanges /\ c \in {d} \intersect CountedTwice)
      <4>1. n.reasons[d] = a + b + x + y
        BY <2>1, <3>3 DEF Agrees
      <4>2. /\ Cardinality(Told(p, Requests, {d})') = a + x
            /\ Cardinality(Told(p, Exchanges, {d} \intersect CountedTwice)') = b + y
            /\ a \in Nat /\ b \in Nat
        BY <3>2
      <4>3. x \in Nat /\ y \in Nat
        BY DEF One
      <4> HIDE DEF a, b, x, y, n
      <4> QED BY <4>1, <4>2, <4>3
    <3> QED BY <3>4, <3>5, <3>6, <3>7 DEF Agrees
  <2> QED BY <2>3, <2>4
<1> QED BY <1>1, <1>2, <1>3 DEF MetricsInv

\* Nothing was answered, and nothing counted.
LEMMA SilentKeepsMetrics ==
  ASSUME MetricsInv, UNCHANGED <<reply, metrics, answered>>,
         \A r \in answered : pc'[r] = pc[r]
  PROVE  MetricsInv'
<1>1. \A p, S, codes : Told(p, S, codes)' = Told(p, S, codes)
  BY DEF Told
<1>2. \A p \in Replicas : Agrees(p)'
  BY <1>1 DEF MetricsInv, Agrees
<1> QED BY <1>2 DEF MetricsInv

LEMMA RestartKeepsMetrics ==
  ASSUME IInv, MetricsInv, NEW p \in Replicas, NEW list, restart(p, list)
  PROVE  MetricsInv'
<1>1. /\ answered' = {r \in answered : home[r] # p}
      /\ metrics' = [metrics EXCEPT ![p] = NoMetrics]
      /\ answered \subseteq Requests
  BY DEF restart, IInv, TypeOK
<1>2. \A r \in answered : pc'[r] = pc[r] /\ reply'[r] = reply[r]
  BY <1>1 DEF restart, MetricsInv, InFlight
<1>3. IsFiniteSet(answered')
  BY <1>1, FS_Subset DEF MetricsInv
<1>4. \A r \in answered' : pc'[r] = "done"
  BY <1>1, <1>2 DEF MetricsInv
<1>5. ASSUME NEW q \in Replicas PROVE Agrees(q)'
  <2>1. CASE q = p
    <3>1. \A S, codes : Told(q, S, codes)' = {}
      BY <1>1, <2>1 DEF Told
    <3>2. \A S, codes : Cardinality(Told(q, S, codes)') = 0
      BY <3>1, FS_EmptySet
    <3>3. metrics'[q] = NoMetrics
      BY <1>1, <2>1 DEF IInv, TypeOK
    <3>4. \A c \in Codes : metrics'[q].reasons[c] = 0 + 0
      BY <3>3 DEF NoMetrics
    <3> QED BY <3>2, <3>3, <3>4 DEF Agrees, NoMetrics
  <2>2. CASE q # p
    <3>1. \A S, codes : Told(q, S, codes)' = Told(q, S, codes)
      BY <1>1, <1>2, <2>2 DEF Told
    <3>2. metrics'[q] = metrics[q]
      BY <1>1, <2>2 DEF IInv, TypeOK
    <3> QED BY <3>1, <3>2 DEF MetricsInv, Agrees
  <2> QED BY <2>1, <2>2
<1> QED BY <1>3, <1>4, <1>5 DEF MetricsInv

LEMMA StepMetricsInv == IInv /\ IInv' /\ MetricsInv /\ [Next]_vars => MetricsInv'
<1> SUFFICES ASSUME IInv, IInv', MetricsInv, [Next]_vars PROVE MetricsInv'
  OBVIOUS
<1>1. ASSUME NEW r \in Requests, Moves(r) PROVE MetricsInv'
  <2>1. pc[r] # "done"
    BY <1>1 DEF Moves, Alone
  <2>2. CASE GoesOn(r)
    <3>1. \A q \in answered : q \in Requests \ {r}
      BY <2>1 DEF MetricsInv, IInv, TypeOK
    <3>2. \A q \in answered : pc'[q] = pc[q]
      BY <1>1, <3>1 DEF Moves, Alone
    <3> QED BY <2>2, <3>2, SilentKeepsMetrics DEF GoesOn, stays
  <2>3. CASE Ends(r)
    BY <2>1, <2>3, AnswerKeepsMetrics DEF Ends
  <2> QED BY <1>1, <2>2, <2>3 DEF Moves, Tells
<1>2. ASSUME UNCHANGED <<pc, reply, metrics, answered>> PROVE MetricsInv'
  BY <1>2, SilentKeepsMetrics
<1>3. CASE Environment
  BY <1>2, <1>3, RestartKeepsMetrics
     DEF Environment, Tick, expireSession, expireToken
<1>4. CASE UNCHANGED vars
  BY <1>2, <1>4 DEF vars
<1> QED BY <1>1, <1>3, <1>4, RequestMoves

LEMMA ToldFinite ==
  ASSUME MetricsInv, NEW p \in Replicas, NEW S, NEW codes
  PROVE  /\ IsFiniteSet(Told(p, S, codes))
         /\ Cardinality(Told(p, S, codes)) \in Nat
<1>1. Told(p, S, codes) \subseteq answered
  BY DEF Told
<1>2. IsFiniteSet(Told(p, S, codes))
  BY <1>1, FS_Subset DEF MetricsInv
<1> QED BY <1>2, FS_CardinalityType

LEMMA ToldLess ==
  ASSUME MetricsInv, NEW p \in Replicas, NEW S, NEW codes, NEW more,
         codes \subseteq more
  PROVE  Cardinality(Told(p, S, codes)) <= Cardinality(Told(p, S, more))
<1>1. Told(p, S, codes) \subseteq Told(p, S, more)
  BY DEF Told
<1> QED BY <1>1, ToldFinite, FS_Subset

\* The counters of a replica agree with its answers since it started, for any
\* number of requests and restarts (auth-metrics.ts as exchangePkce and its
\* catch block, initiatePkce and refreshAccessToken call it).
THEOREM CountersCount == Spec => []MetricsAgree
<1>1. ASSUME MetricsInv, NEW p \in Replicas
      PROVE  /\ metrics[p].initiate = Cardinality(Told(p, Initiates, {"OK"}))
             /\ metrics[p].success = Cardinality(Told(p, Exchanges, {"OK"}))
             /\ Cardinality(Told(p, Exchanges, CountedTwice)) <= metrics[p].failure
             /\ metrics[p].failure <= Cardinality(Told(p, Exchanges, Codes))
  <2>1. Agrees(p)
    BY <1>1 DEF MetricsInv
  <2>2. Cardinality(Told(p, Exchanges, CountedTwice)) \in Nat
    BY <1>1, ToldFinite
  <2>3. CountedTwice \subseteq Codes
    BY DEF CountedTwice, Codes
  <2>4. Cardinality(Told(p, Exchanges, CountedTwice))
          <= Cardinality(Told(p, Exchanges, Codes))
    BY <1>1, <2>3, ToldLess
  <2> QED BY <2>1, <2>2, <2>4 DEF Agrees
<1>2. ASSUME MetricsInv, NEW p \in Replicas, NEW c \in Codes
      PROVE  /\ Cardinality(Told(p, Requests, {c})) <= metrics[p].reasons[c]
             /\ metrics[p].reasons[c] <=
                  Cardinality(Told(p, Requests, {c})) + Cardinality(Told(p, Exchanges, {c}))
  <2> DEFINE all == Cardinality(Told(p, Requests, {c}))
             twice == Cardinality(Told(p, Exchanges, {c} \intersect CountedTwice))
             most == Cardinality(Told(p, Exchanges, {c}))
  <2>1. metrics[p].reasons[c] = all + twice
    BY <1>2 DEF MetricsInv, Agrees
  <2>2. all \in Nat /\ twice \in Nat /\ most \in Nat
    BY <1>2, ToldFinite
  <2>3. {c} \intersect CountedTwice \subseteq {c}
    OBVIOUS
  <2>4. twice <= most
    BY <1>2, <2>3, ToldLess
  <2> HIDE DEF all, twice, most
  <2>5. all <= metrics[p].reasons[c] /\ metrics[p].reasons[c] <= all + most
    BY <2>1, <2>2, <2>4
  <2> QED BY <2>5 DEF all, most
<1>3. MetricsInv => MetricsAgree
  BY <1>1, <1>2 DEF MetricsAgree
<1> QED
  BY InitIInv, StepIInv, InitMetricsInv, StepMetricsInv, <1>3, PTL DEF Spec
---------------------------------------------------------------------------
(* One refresh token, one refresh. *)

\* No two refreshes that both found one token in the cache are under way at
\* once (validateRefreshToken awaits cache.get, then cache.del is awaited).
NoRefreshOverlap ==
  \A f, g \in Refreshes :
    pc[f] \in Rotating /\ pc[g] \in Rotating /\ dto[f] = dto[g] => f = g

\* Nothing is about to store again a text that some refresh presented, which
\* takes a second signature in the second of the first.
NoRemint ==
  \A r \in Minters, f \in Refreshes :
    pc[r] = "set token" /\ pc[f] # "new" => minted[r] # dto[f]

\* A refresh token is exchanged once, as SECURITY_SETUP.md has it.
OneRefresh ==
  \A f, g \in Refreshes :
    reply[f] = "OK" /\ reply[g] = "OK" /\ dto[f] = dto[g] => f = g

Taken(f) == pc[f] \in Rotating \/ reply[f] = "OK"
Replaced(f) == pc[f] \in Rotated \/ reply[f] = "OK"

OneTakes ==
  \A f, g \in Refreshes : Taken(f) /\ Taken(g) /\ dto[f] = dto[g] => f = g

GoneWhenReplaced ==
  \A f \in Refreshes : Replaced(f) => dto[f] \in Tokens /\ refreshExp[dto[f]] = 0

RotationInv == OneTakes /\ GoneWhenReplaced

LEMMA InitRotationInv == Init => RotationInv
BY DEF Init, RotationInv, OneTakes, GoneWhenReplaced, Taken, Replaced, Rotating, Rotated,
       Requests

\* A refresh that moves keeps its body; it takes a token that is in the cache
\* and replaces one it has just deleted.
LEMMA RefreshMoves ==
  ASSUME NEW f \in Refreshes, Moves(f)
  PROVE  /\ Taken(f)' =>
              dto'[f] = dto[f] /\ (Taken(f) \/ (refreshExp[dto[f]] # 0 /\ pc'[f] \in Rotating))
         /\ Replaced(f)' => dto'[f] = dto[f] /\ (Replaced(f) \/ Deletes(f))
<1>1. /\ pc[f] # "done"
      /\ pc[f] # "new" => dto'[f] = dto[f]
      /\ reply'[f] = "OK" => pc[f] = "respond"
      /\ pc'[f] \in Rotating =>
           pc[f] \in Rotating \/ (pc[f] = "get token" /\ refreshExp[dto[f]] # 0)
      /\ pc'[f] \in Rotated => pc[f] \in Rotated \/ Deletes(f)
  BY DEF Moves, Alone, Handles, Rotates
<1>2. Deletes(f) => pc[f] = "delete token"
  BY DEF Deletes
<1> QED BY <1>1, <1>2 DEF Taken, Replaced, Rotating, Rotated

LEMMA OthersRest ==
  ASSUME NEW r \in Requests, Moves(r), NEW f \in Refreshes, f # r
  PROVE  /\ pc'[f] = pc[f] /\ dto'[f] = dto[f]
         /\ Taken(f)' = Taken(f) /\ Replaced(f)' = Replaced(f)
BY DEF Moves, Alone, Taken, Replaced, Requests, Minters

LEMMA RequestKeepsOne ==
  ASSUME IInv, RotationInv, NoRefreshOverlap', NEW r \in Requests, Moves(r)
  PROVE  OneTakes'
<1>1. ASSUME NEW f \in Refreshes, Moves(f), Taken(f)', NEW g \in Refreshes, Taken(g)',
             dto'[f] = dto'[g], g # f
      PROVE  FALSE
  <2>1. f \in Requests
    BY DEF Requests, Minters
  <2>2. Taken(g) /\ dto'[g] = dto[g] /\ pc'[g] = pc[g]
    BY <1>1, <2>1, OthersRest
  <2>3. dto'[f] = dto[f] /\ (Taken(f) \/ (refreshExp[dto[f]] # 0 /\ pc'[f] \in Rotating))
    BY <1>1, RefreshMoves
  <2>4. ~ Taken(f)
    BY <1>1, <2>2, <2>3 DEF RotationInv, OneTakes
  <2>5. CASE pc[g] \in Rotating
    BY <1>1, <2>2, <2>3, <2>4, <2>5 DEF NoRefreshOverlap
  <2>6. CASE reply[g] = "OK"
    <3>1. refreshExp[dto[g]] = 0
      BY <2>6 DEF RotationInv, GoneWhenReplaced, Replaced
    <3> QED BY <1>1, <2>2, <2>3, <2>4, <3>1
  <2> QED BY <2>2, <2>5, <2>6 DEF Taken
<1>2. ASSUME NEW f \in Refreshes, NEW g \in Refreshes, Taken(f)', Taken(g)',
             dto'[f] = dto'[g], f # r, g # r
      PROVE  f = g
  BY <1>2, OthersRest DEF RotationInv, OneTakes
<1>3. ASSUME NEW f \in Refreshes, NEW g \in Refreshes, Taken(f)', Taken(g)',
             dto'[f] = dto'[g]
      PROVE  f = g
  <2>1. CASE f = r
    BY <1>1, <1>3, <2>1
  <2>2. CASE g = r
    BY <1>1, <1>3, <2>2
  <2>3. CASE f # r /\ g # r
    BY <1>2, <1>3, <2>3
  <2> QED BY <2>1, <2>2, <2>3
<1> QED BY <1>3 DEF OneTakes

\* A token that is gone comes back only if somebody stores that text.
LEMMA GoneStays ==
  ASSUME IInv, NEW r \in Requests, Moves(r), NEW t \in Tokens, refreshExp[t] = 0,
         r \in Minters /\ pc[r] = "set token" => minted[r] # t
  PROVE  refreshExp'[t] = 0
<1>1. UNCHANGED refreshExp \/ Stores(r) \/ Deletes(r)
  BY DEF Moves, Handles
<1>2. CASE Stores(r)
  BY <1>2 DEF Stores, setToken, IInv, TypeOK
<1>3. CASE Deletes(r)
  BY <1>3 DEF Deletes, delToken
<1> QED BY <1>1, <1>2, <1>3

LEMMA RequestKeepsGone ==
  ASSUME IInv, RotationInv, NoRemint, NEW r \in Requests, Moves(r)
  PROVE  GoneWhenReplaced'
<1> SUFFICES ASSUME NEW f \in Refreshes, Replaced(f)'
             PROVE  dto'[f] \in Tokens /\ refreshExp'[dto'[f]] = 0
  BY DEF GoneWhenReplaced
<1>1. dto'[f] = dto[f] /\ (Replaced(f) \/ (f = r /\ Deletes(f)))
  <2>1. CASE f = r
    BY <2>1, RefreshMoves
  <2>2. CASE f # r
    BY <2>2, OthersRest
  <2> QED BY <2>1, <2>2
<1>2. CASE Replaced(f)
  <2>1. dto[f] \in Tokens /\ refreshExp[dto[f]] = 0
    BY <1>2 DEF RotationInv, GoneWhenReplaced
  <2>2. pc[f] # "new"
    BY <1>2 DEF Replaced, Rotated, IInv, Replied, Requests, Minters
  <2>3. r \in Minters /\ pc[r] = "set token" => minted[r] # dto[f]
    BY <2>2 DEF NoRemint
  <2> QED BY <1>1, <2>1, <2>3, GoneStays
<1>3. CASE Deletes(f)
  <2>1. dto[f] \in Tokens
    BY <1>3 DEF Deletes, IInv, Bodies
  <2> QED BY <1>1, <1>3, <2>1 DEF Deletes, delToken
<1> QED BY <1>1, <1>2, <1>3

\* Time, expiry and restarts only end refreshes and forget tokens.
LEMMA EnvironmentKeepsRotation ==
  ASSUME IInv, RotationInv, Environment
  PROVE  RotationInv'
<1> DEFINE Leaves(f) == (Taken(f)' => Taken(f)) /\ (Replaced(f)' => Replaced(f))
           OnlyForgets ==
             /\ dto' = dto
             /\ \A f \in Refreshes : Leaves(f)
             /\ \A t \in Tokens : refreshExp[t] = 0 => refreshExp'[t] = 0
<1>1. OnlyForgets
  <2>1. CASE Tick
    BY <2>1 DEF Tick, cacheVars, Taken, Replaced
  <2>2. ASSUME NEW i \in Initiates, expireSession(i) PROVE OnlyForgets
    BY <2>2 DEF expireSession, Taken, Replaced
  <2>3. ASSUME NEW t \in Tokens, expireToken(t) PROVE OnlyForgets
    BY <2>3 DEF expireToken, Taken, Replaced, IInv, TypeOK
  <2>4. ASSUME NEW p \in Replicas, NEW list \in AllowLists, restart(p, list) PROVE OnlyForgets
    <3>1. \A f \in Refreshes : Leaves(f)
      BY <2>4 DEF restart, Taken, Replaced, Rotating, Rotated, Requests, Minters
    <3>2. \A t \in Tokens : refreshExp[t] = 0 => refreshExp'[t] = 0
      BY <2>4 DEF restart, cacheVars
    <3> QED BY <2>4, <3>1, <3>2 DEF restart
  <2> QED BY <2>1, <2>2, <2>3, <2>4 DEF Environment
<1>2. OneTakes'
  BY <1>1 DEF RotationInv, OneTakes
<1>3. GoneWhenReplaced'
  BY <1>1 DEF RotationInv, GoneWhenReplaced
<1> QED BY <1>2, <1>3 DEF RotationInv

LEMMA StepRotationInv ==
  ASSUME IInv, IInv', RotationInv, NoRefreshOverlap', NoRemint, [Next]_vars
  PROVE  RotationInv'
<1>1. ASSUME NEW r \in Requests, Moves(r) PROVE RotationInv'
  BY <1>1, RequestKeepsOne, RequestKeepsGone DEF RotationInv
<1>2. CASE Environment
  BY <1>2, EnvironmentKeepsRotation
<1>3. CASE UNCHANGED vars
  BY <1>3 DEF vars, RotationInv, OneTakes, GoneWhenReplaced, Taken, Replaced
<1> QED BY <1>1, <1>2, <1>3, RequestMoves

\* A refresh token buys one refresh (the delete before createAuthResponse in
\* refreshAccessToken) in every behaviour in which no two refreshes of it
\* overlap and its text is not signed and stored a second time. Without either
\* condition it may buy two.
THEOREM OneRefreshUnlessOverlap ==
  Spec /\ []NoRefreshOverlap /\ []NoRemint => []OneRefresh
<1>1. IInv /\ IInv' /\ RotationInv /\ NoRefreshOverlap' /\ NoRemint /\ [Next]_vars
        => RotationInv'
  BY StepRotationInv
<1>2. RotationInv => OneRefresh
  BY DEF RotationInv, OneTakes, Taken, OneRefresh
<1> QED BY InitIInv, StepIInv, InitRotationInv, <1>1, <1>2, PTL DEF Spec
---------------------------------------------------------------------------
(* Where refresh tokens come from. *)

\* The checks of exchangePkce that need no allow-list: state, verifier, code
\* and the e-mail the session was started for.
Passed(x) ==
  /\ dto[x].stateOk /\ dto[x].verifierOk
  /\ dto[dto[x].sid].provider = "local" \/ dto[x].hasCode
  /\ SessionEmail(x) \notin Malformed

\* Some exchange passed them for this e-mail and signed a token for it.
SignedIn(e) ==
  \E x \in Exchanges :
    /\ pc[x] # "new" /\ Passed(x) /\ SessionEmail(x) = e
    /\ minted[x] # NoToken /\ minted[x].email = e

StoredSignedIn == \A t \in Tokens : refreshExp[t] # 0 => SignedIn(t.email)
MintedSignedIn == \A r \in Minters : minted[r] # NoToken => SignedIn(minted[r].email)
PresentedSignedIn == \A f \in Refreshes : dto[f] \in Tokens => SignedIn(dto[f].email)

Provenance == StoredSignedIn /\ MintedSignedIn /\ PresentedSignedIn

LEMMA InitProvenance == Init => Provenance
<1> SUFFICES ASSUME Init PROVE Provenance
  OBVIOUS
<1>1. StoredSignedIn /\ MintedSignedIn
  BY DEF Init, StoredSignedIn, MintedSignedIn
<1>2. \A f \in Refreshes : dto[f] = NoDto
  BY DEF Init, Requests, Minters
<1>3. PresentedSignedIn
  BY <1>2, Nulls DEF PresentedSignedIn
<1> QED BY <1>1, <1>3 DEF Provenance

\* A token signed in this step.
Signs(r) ==
  /\ minted'[r] # NoToken
  /\ \/ r \in Exchanges /\ Passed(r) /\ minted'[r].email = SessionEmail(r)
     \/ r \in Refreshes /\ dto[r] \in Tokens /\ minted'[r].email = dto[r].email

LEMMA StepSigns ==
  ASSUME IInv, IInv', Next, NEW r \in Minters
  PROVE  /\ minted'[r] = minted[r] \/ (pc[r] # "new" /\ Signs(r))
         /\ r \in Refreshes => dto'[r] = dto[r] \/ dto'[r] \in Presentable
<1> DEFINE Good ==
      /\ minted'[r] = minted[r] \/ (pc[r] # "new" /\ Signs(r))
      /\ r \in Refreshes => dto'[r] = dto[r] \/ dto'[r] \in Presentable
<1>0. \A q \in Minters : pc'[q] = "set token" => minted'[q] # NoToken
  BY Nulls DEF IInv, Signed
<1>1. ASSUME NEW x \in Exchanges, checkExchange(x) PROVE Good
  <2>1. UNCHANGED dto
    BY <1>1 DEF checkExchange
  <2>2. CASE UNCHANGED minted
    BY <2>1, <2>2
  <2>3. CASE Verdict(x) = "OK" /\ signRefreshToken(x, SessionEmail(x))
    <3>1. Passed(x)
      BY <2>3 DEF Verdict, SignInCheck, Passed
    <3>2. minted'[x].email = SessionEmail(x) /\ \A q \in Minters \ {x} : minted'[q] = minted[q]
      BY <2>3 DEF signRefreshToken, IInv, TypeOK, Minters
    <3>3. pc'[x] = "set token" /\ pc[x] = "check"
      BY <1>1, <2>3 DEF signRefreshToken, checkExchange, Goto, IInv, TypeOK, Requests
    <3>4. Signs(x)
      BY <1>0, <3>1, <3>2, <3>3 DEF Signs, Minters
    <3> QED BY <2>1, <3>2, <3>3, <3>4
  <2> QED BY <1>1, <2>2, <2>3 DEF checkExchange
<1>2. ASSUME NEW f \in Refreshes, createAuthResponse(f) PROVE Good
  <2>1. UNCHANGED dto /\ pc[f] = "sign"
    BY <1>2 DEF createAuthResponse
  <2>2. dto[f] \in Tokens
    BY <2>1 DEF IInv, Bodies
  <2>3. minted'[f].email = dto[f].email /\ \A q \in Minters \ {f} : minted'[q] = minted[q]
    BY <1>2 DEF createAuthResponse, signRefreshToken, IInv, TypeOK, Minters
  <2>4. pc'[f] = "set token"
    BY <1>2 DEF createAuthResponse, signRefreshToken, Goto, IInv, TypeOK, Requests, Minters
  <2>5. Signs(f)
    BY <1>0, <2>2, <2>3, <2>4 DEF Signs, Minters
  <2> QED BY <2>1, <2>3, <2>5
<1>3. CASE UNCHANGED <<dto, minted>>
  BY <1>3
<1>4. ASSUME NEW q \in Requests, q \notin Refreshes, NEW d, dto' = [dto EXCEPT ![q] = d],
             UNCHANGED minted
      PROVE  Good
  BY <1>4
<1>5. CASE Arrive
  <2>1. ASSUME NEW i \in Initiates, NEW e \in Emails, NEW p \in Providers, initiatePkce(i, e, p)
        PROVE  Good
    BY <1>4, <2>1, KindsAreDisjoint DEF initiatePkce, Requests
  <2>2. ASSUME NEW x \in Exchanges, NEW s \in Initiates, NEW so \in BOOLEAN,
               NEW vo \in BOOLEAN, NEW hc \in BOOLEAN, exchangePkce(x, s, so, vo, hc)
        PROVE  Good
    BY <1>4, <2>2, KindsAreDisjoint DEF exchangePkce, Requests
  <2>3. ASSUME NEW f \in Refreshes, NEW t \in Presentable, refreshAccessToken(f, t)
        PROVE  Good
    BY <2>3 DEF refreshAccessToken, IInv, TypeOK, Requests
  <2>4. ASSUME NEW l \in Logouts, NEW t \in Presentable, logout(l, t) PROVE Good
    BY <1>4, <2>4, KindsAreDisjoint DEF logout, Requests
  <2> QED BY <1>5, <2>1, <2>2, <2>3, <2>4 DEF Arrive
<1>6. ASSUME NEW i \in Initiates, InitiateStep(i) PROVE Good
  BY <1>3, <1>6 DEF InitiateStep, createSession, createSessionRejects, respondInitiate
<1>7. ASSUME NEW q \in Requests,
             \/ consumeSessionGet(q) \/ consumeSessionDel(q) \/ consumeSessionDelRejects(q)
             \/ storeRefreshToken(q) \/ storeRefreshTokenRejects(q) \/ respondExchange(q)
             \/ validateRefreshToken(q) \/ revokeRefreshToken(q)
             \/ revokeRefreshTokenRejects(q) \/ respondPlain(q)
      PROVE  Good
  BY <1>3, <1>7 DEF consumeSessionGet, consumeSessionDel, consumeSessionDelRejects,
       storeRefreshToken, storeRefreshTokenRejects, respondExchange, validateRefreshToken,
       revokeRefreshToken, revokeRefreshTokenRejects, respondPlain
<1>8. ASSUME NEW x \in Exchanges, ExchangeStep(x) PROVE Good
  BY <1>1, <1>7, <1>8 DEF ExchangeStep, Requests
<1>9. ASSUME NEW f \in Refreshes, RefreshStep(f) PROVE Good
  BY <1>2, <1>7, <1>9 DEF RefreshStep, Requests
<1>10. ASSUME NEW l \in Logouts, LogoutStep(l) PROVE Good
  BY <1>7, <1>10 DEF LogoutStep, Requests
<1>11. CASE Environment
  BY <1>3, <1>11 DEF Environment, Tick, expireSession, expireToken, restart
<1> QED BY <1>5, <1>6, <1>8, <1>9, <1>10, <1>11 DEF Next

\* Bodies stay what they are once they were read.
BodiesStay == \A r \in Requests : pc[r] # "new" => dto'[r] = dto[r] /\ pc'[r] # "new"

LEMMA StepBodies == ASSUME IInv, IInv', Next PROVE BodiesStay
<1>1. ASSUME NEW r \in Requests, Moves(r) PROVE BodiesStay
  BY <1>1 DEF Moves, Alone, Handles, BodiesStay
<1>2. CASE Environment
  BY <1>2 DEF Environment, Tick, expireSession, expireToken, restart, BodiesStay
<1> QED BY <1>1, <1>2, RequestMoves

\* What an exchange knows of its session stays.
LEMMA ExchangeStays ==
  ASSUME IInv, BodiesStay, NEW x \in Exchanges, pc[x] # "new"
  PROVE  /\ pc'[x] # "new"
         /\ Passed(x) => Passed(x)'
         /\ SessionEmail(x)' = SessionEmail(x)
<1>1. dto[x] \in ExchangeDtos /\ pc[dto[x].sid] = "done"
  BY DEF IInv, Bodies
<1>2. dto[x].sid \in Requests /\ x \in Requests
  BY <1>1 DEF ExchangeDtos, Requests
<1>3. dto'[x] = dto[x] /\ dto'[dto[x].sid] = dto[dto[x].sid] /\ pc'[x] # "new"
  BY <1>1, <1>2 DEF BodiesStay
<1> QED BY <1>3 DEF Passed, SessionEmail

LEMMA ExchangeSigns ==
  ASSUME IInv, BodiesStay, NEW x \in Exchanges, pc[x] # "new", Passed(x),
         minted'[x] # NoToken, minted'[x].email = SessionEmail(x)
  PROVE  SignedIn(SessionEmail(x))'
BY ExchangeStays DEF SignedIn

LEMMA SignedInStays ==
  ASSUME IInv, IInv', Next, NEW e, SignedIn(e)
  PROVE  SignedIn(e)'
<1>1. PICK x \in Exchanges :
        /\ pc[x] # "new" /\ Passed(x) /\ SessionEmail(x) = e
        /\ minted[x] # NoToken /\ minted[x].email = e
  BY DEF SignedIn
<1>2. BodiesStay
  BY StepBodies
<1>3. minted'[x] = minted[x] \/ Signs(x)
  BY StepSigns DEF Minters
<1>4. minted'[x] # NoToken /\ minted'[x].email = e
  BY <1>1, <1>3, KindsAreDisjoint DEF Signs
<1> QED BY <1>1, <1>2, <1>4, ExchangeStays DEF SignedIn

\* The same for every e-mail at once.
LEMMA StepSignedIn ==
  ASSUME IInv, IInv', Next
  PROVE  \A e : SignedIn(e) => SignedIn(e)'
BY SignedInStays

LEMMA StepMinted ==
  ASSUME IInv, IInv', Provenance, Next
  PROVE  MintedSignedIn'
<1> SUFFICES ASSUME NEW r \in Minters, minted'[r] # NoToken
             PROVE  SignedIn(minted[r].email)'
  BY DEF MintedSignedIn
<1>1. minted'[r] = minted[r] \/ (pc[r] # "new" /\ Signs(r))
  BY StepSigns
<1>2. CASE minted'[r] = minted[r]
  <2>1. PICK e : e = minted[r].email
    OBVIOUS
  <2>2. SignedIn(e)
    BY <1>2, <2>1 DEF Provenance, MintedSignedIn
  <2>3. SignedIn(e)'
    BY <2>2, StepSignedIn
  <2> QED BY <1>2, <2>1, <2>3 DEF SignedIn
<1>3. CASE r \in Exchanges /\ Passed(r) /\ minted'[r].email = SessionEmail(r) /\ pc[r] # "new"
  <2>1. BodiesStay
    BY StepBodies
  <2> QED BY <1>3, <2>1, ExchangeStays DEF SignedIn
<1>4. CASE r \in Refreshes /\ dto[r] \in Tokens /\ minted'[r].email = dto[r].email
  <2>1. PICK e : e = dto[r].email
    OBVIOUS
  <2>2. SignedIn(e)
    BY <1>4, <2>1 DEF Provenance, PresentedSignedIn
  <2>3. SignedIn(e)'
    BY <2>2, StepSignedIn
  <2> QED BY <1>4, <2>1, <2>3 DEF SignedIn
<1> QED BY <1>1, <1>2, <1>3, <1>4 DEF Signs

\* An entry of the cache was there or is the token of a minter.
Sourced(t) == refreshExp[t] # 0 \/ \E r \in Minters : minted[r] = t

LEMMA StepStored ==
  ASSUME IInv, IInv', Next, NEW t \in Tokens, refreshExp'[t] # 0
  PROVE  Sourced(t)
<1>1. refreshExp \in [Tokens -> Nat]
  BY DEF IInv, TypeOK
<1>2. CASE UNCHANGED refreshExp
  BY <1>2 DEF Sourced
<1>3. ASSUME NEW r \in Requests, Moves(r) PROVE Sourced(t)
  <2>1. CASE Stores(r)
    BY <1>1, <2>1 DEF Stores, setToken, Sourced
  <2>2. CASE Deletes(r)
    BY <2>2 DEF Deletes, delToken, Sourced
  <2> QED BY <1>2, <1>3, <2>1, <2>2 DEF Moves, Handles
<1>4. ASSUME NEW q \in Tokens, expireToken(q) PROVE Sourced(t)
  BY <1>1, <1>4 DEF expireToken, Sourced
<1>5. ASSUME NEW p \in Replicas, NEW list \in AllowLists, restart(p, list) PROVE Sourced(t)
  BY <1>5 DEF restart, cacheVars, Sourced
<1>6. CASE Environment
  BY <1>2, <1>4, <1>5, <1>6 DEF Environment, Tick, expireSession, cacheVars
<1> QED BY <1>3, <1>6, RequestMoves

LEMMA StepPresented ==
  ASSUME IInv, IInv', Provenance, Next
  PROVE  PresentedSignedIn'
<1> SUFFICES ASSUME NEW f \in Refreshes, dto'[f] \in Tokens
             PROVE  SignedIn(dto[f].email)'
  BY DEF PresentedSignedIn
<1>1. PICK t : t = dto'[f]
  OBVIOUS
<1>2. SignedIn(t.email)
  <2>1. dto'[f] = dto[f] \/ dto'[f] \in Presentable
    BY StepSigns DEF Minters
  <2>2. CASE dto'[f] = dto[f]
    BY <1>1, <2>2 DEF Provenance, PresentedSignedIn
  <2>3. CASE dto'[f] \in Presentable
    <3>1. PICK q \in Minters : t = minted[q]
      BY <1>1, <2>3, Nulls DEF Presentable
    <3>2. minted[q] # NoToken
      BY <1>1, <3>1, Nulls
    <3> QED BY <3>1, <3>2 DEF Provenance, MintedSignedIn
  <2> QED BY <2>1, <2>2, <2>3
<1>3. PICK e : e = t.email
  OBVIOUS
<1>4. SignedIn(e)'
  BY <1>2, <1>3, StepSignedIn DEF SignedIn
<1> QED BY <1>1, <1>3, <1>4 DEF SignedIn

LEMMA StepProvenance ==
  ASSUME IInv, IInv', Provenance, [Next]_vars
  PROVE  Provenance'
<1>1. CASE UNCHANGED vars
  BY <1>1 DEF vars, cacheVars, Provenance, StoredSignedIn, MintedSignedIn,
       PresentedSignedIn, SignedIn, Passed, SessionEmail
<1>2. CASE Next
  <2>1. StoredSignedIn'
    <3> SUFFICES ASSUME NEW t \in Tokens, refreshExp'[t] # 0
                 PROVE  SignedIn(t.email)'
      BY DEF StoredSignedIn
    <3>1. SignedIn(t.email)
      BY <1>2, StepStored, Nulls
         DEF Sourced, Provenance, StoredSignedIn, MintedSignedIn
    <3> QED BY <1>2, <3>1, SignedInStays
  <2> QED BY <1>2, <2>1, StepMinted, StepPresented DEF Provenance
<1> QED BY <1>1, <1>2

\* Nobody stays signed in whom no exchange let in: for every refresh token the
\* cache holds, whatever chain of rotations, restarts and expiries led to it,
\* some exchange passed its state, verifier, code and e-mail checks and signed
\* a token for the same e-mail; and so for every token signed or presented.
THEOREM TokensGoBackToSignIns == Spec => []Provenance
BY InitIInv, StepIInv, InitProvenance, StepProvenance, PTL DEF Spec
===========================================================================
