------------------------- MODULE LegacyBff_proofs -------------------------
(* LegacyBff for any sessions, users, lifetimes and clock resolution, and  *)
(* LegacyStream beside it for any streams.                                 *)
EXTENDS LegacyStream, SequenceTheorems, TLAPS

\* With a unit parseDuration reads, a token that was not logged out has an
\* entry that outlives its JWT; with another, no entry outlives its storing.
Outlives ==
  unit \in Understood =>
    \A t \in signed \ revoked : tokenExp[t] >= (t.iat + RefreshLife) * Second

Spent == unit \notin Understood => \A t \in Tokens : tokenExp[t] <= now

\* A session not handed out has no record; a redeemed one has none either.
Records ==
  /\ \A s \in Sids \ generated : sessionExp[s] = 0
  /\ \A s \in redeemed : sessionExp[s] = 0

IInv == TypeOK /\ TokensHaveSignIn /\ Outlives /\ Spent /\ Records

(***************************************************************************)
(* Arithmetic: seconds and ticks.                                          *)
(***************************************************************************)
LEMMA SecondsOfNow ==
  ASSUME NEW n \in Nat
  PROVE  /\ n \div Second \in 0 .. n
         /\ (n \div Second) * Second <= n
         /\ n < (n \div Second + 1) * Second
BY LegacyAssumption

LEMMA ProductIsNat == ASSUME NEW x \in Nat, NEW y \in Nat PROVE x * y \in Nat
OBVIOUS

LEMMA Later ==
  ASSUME NEW n \in Nat, NEW i \in Nat, n \div Second < i
  PROVE  n < i * Second
<1> DEFINE q == n \div Second
<1>1. q \in Nat /\ n < (q + 1) * Second
  BY SecondsOfNow
<1>2. q + 1 <= i
  BY <1>1
<1> HIDE DEF q
<1>3. (q + 1) * Second <= i * Second
  BY <1>1, <1>2, LegacyAssumption
<1> QED BY <1>1, <1>3, LegacyAssumption, ProductIsNat

LEMMA InitIInv == Init => IInv
<1> SUFFICES ASSUME Init PROVE IInv
  OBVIOUS
<1>1. TypeOK
  BY LegacyAssumption DEF Init, TypeOK
<1>2. TokensHaveSignIn /\ Outlives /\ Records
  BY DEF Init, TokensHaveSignIn, Outlives, Records
<1>3. Spent
  BY DEF Init, Spent
<1> QED BY <1>1, <1>2, <1>3 DEF IInv

(***************************************************************************)
(* Signing.                                                                *)
(***************************************************************************)
LEMMA SignedToken ==
  ASSUME TypeOK, NEW email \in Emails
  PROVE  [email |-> email, iat |-> seconds] \in Tokens
<1>1. now \in Nat /\ now <= MaxTime
  BY LegacyAssumption DEF TypeOK
<1>2. seconds \in 0 .. MaxTime
  BY <1>1, SecondsOfNow, LegacyAssumption DEF seconds
<1> QED BY <1>2 DEF Tokens

LEMMA Distributes ==
  ASSUME NEW x \in Nat, NEW y \in Nat, NEW z \in Nat
  PROVE  (x + y) * z = x * z + y * z
OBVIOUS

LEMMA LifetimeReaches ==
  ASSUME TypeOK
  PROVE  /\ now + parseDuration(RefreshLife) \in Nat \ {0}
         /\ unit \in Understood =>
              now + parseDuration(RefreshLife) >= (seconds + RefreshLife) * Second
         /\ unit \notin Understood => now + parseDuration(RefreshLife) = now
<1>1. now \in Nat \ {0}
  BY LegacyAssumption DEF TypeOK
<1>2. seconds \in Nat /\ seconds * Second <= now
  BY <1>1, SecondsOfNow DEF seconds
<1>3. parseDuration(RefreshLife) = IF unit \in Understood THEN RefreshLife * Second ELSE 0
  BY DEF parseDuration
<1>4. RefreshLife * Second \in Nat /\ seconds * Second \in Nat
  BY <1>2, ProductIsNat, LegacyAssumption
<1>5. (seconds + RefreshLife) * Second = seconds * Second + RefreshLife * Second
  BY <1>2, Distributes, LegacyAssumption
<1> QED BY <1>1, <1>2, <1>3, <1>4, <1>5

\* A handler that signs a token for the user of a redeemed session.
LEMMA SigningKeeps ==
  ASSUME TypeOK, TokensHaveSignIn, Outlives, Spent, UNCHANGED <<unit, now>>,
         NEW email \in Emails, signRefreshToken(email),
         \E s \in redeemed' : sessionEmail'[s] = email,
         redeemed \subseteq redeemed', UNCHANGED sessionEmail
  PROVE  /\ tokenExp' \in [Tokens -> Nat]
         /\ signed' \subseteq Tokens /\ revoked' \subseteq signed'
         /\ TokensHaveSignIn' /\ Outlives' /\ Spent'
<1> DEFINE t == [email |-> email, iat |-> seconds]
           exp == now + parseDuration(RefreshLife)
<1>1. t \in Tokens /\ t.email = email /\ t.iat = seconds
  BY SignedToken
<1>2. /\ exp \in Nat \ {0}
      /\ unit \in Understood => exp >= (t.iat + RefreshLife) * Second
      /\ unit \notin Understood => exp = now
  BY <1>1, LifetimeReaches
<1>3. /\ tokenExp' = [tokenExp EXCEPT ![t] = exp]
      /\ signed' = signed \union {t}
      /\ revoked' = revoked \ {t}
  BY DEF signRefreshToken
<1> HIDE DEF t, exp
<1>4. /\ tokenExp' \in [Tokens -> Nat]
      /\ signed' \subseteq Tokens /\ revoked' \subseteq signed'
  BY <1>1, <1>2, <1>3 DEF TypeOK
<1>5. TokensHaveSignIn'
  <2> SUFFICES ASSUME NEW u \in Tokens, tokenExp'[u] # 0
               PROVE  \E s \in redeemed' : sessionEmail'[s] = u.email
    BY DEF TokensHaveSignIn
  <2>1. CASE u = t
    BY <1>1, <2>1
  <2>2. CASE u # t
    BY <1>3, <2>2 DEF TypeOK, TokensHaveSignIn
  <2> QED BY <2>1, <2>2
<1>6. Outlives'
  <2> SUFFICES ASSUME unit \in Understood, NEW u \in signed' \ revoked'
               PROVE  tokenExp'[u] >= (u.iat + RefreshLife) * Second
    BY DEF Outlives
  <2>1. CASE u = t
    <3>1. tokenExp'[u] = exp
      BY <1>1, <1>3, <2>1 DEF TypeOK
    <3> QED BY <1>2, <2>1, <3>1
  <2>2. CASE u # t
    <3>1. u \in signed \ revoked /\ tokenExp'[u] = tokenExp[u]
      BY <1>3, <2>2 DEF TypeOK
    <3> QED BY <3>1 DEF Outlives
  <2> QED BY <2>1, <2>2
<1>7. Spent'
  <2> SUFFICES ASSUME unit \notin Understood, NEW u \in Tokens
               PROVE  tokenExp'[u] <= now
    BY DEF Spent
  <2>1. tokenExp'[u] = IF u = t THEN exp ELSE tokenExp[u]
    BY <1>3 DEF TypeOK
  <2>2. tokenExp[u] <= now /\ now <= now
    BY LegacyAssumption DEF Spent, TypeOK
  <2> QED BY <1>2, <2>1, <2>2
<1> QED BY <1>4, <1>5, <1>6, <1>7

(***************************************************************************)
(* The handlers.                                                           *)
(***************************************************************************)
LEMMA InitiateKeeps ==
  ASSUME IInv, NEW s \in Sids, NEW e \in Emails, createPkceSession(s, e), UNCHANGED unit
  PROVE  IInv'
<1>1. now \in Nat \ {0} /\ now + SessionTtl \in Nat
  BY LegacyAssumption DEF IInv, TypeOK
<1>2. TypeOK'
  BY <1>1 DEF IInv, TypeOK, createPkceSession, tokenVars
<1>3. s \notin redeemed
  BY DEF IInv, TypeOK, createPkceSession
<1>4. TokensHaveSignIn'
  BY <1>3 DEF IInv, TypeOK, TokensHaveSignIn, createPkceSession, tokenVars
<1>5. Outlives' /\ Spent'
  BY DEF IInv, Outlives, Spent, createPkceSession, tokenVars
<1>6. Records'
  BY <1>3 DEF IInv, TypeOK, Records, createPkceSession
<1> QED BY <1>2, <1>4, <1>5, <1>6 DEF IInv

LEMMA ExchangeKeeps ==
  ASSUME IInv, NEW s \in Sids, NEW match \in BOOLEAN, exchange(s, match), UNCHANGED unit
  PROVE  IInv'
<1>1. /\ sessionExp' = [sessionExp EXCEPT ![s] = 0]
      /\ s \in generated
      /\ UNCHANGED <<now, generated, sessionEmail>>
  BY DEF exchange, consumePkceSession
<1>2. redeemed' \subseteq generated /\ redeemed \subseteq redeemed'
      /\ redeemed' \subseteq redeemed \union {s}
  BY <1>1 DEF IInv, TypeOK, exchange, signIn
<1>3. Records'
  BY <1>1, <1>2 DEF IInv, TypeOK, Records
<1>4. /\ tokenExp' \in [Tokens -> Nat]
      /\ signed' \subseteq Tokens /\ revoked' \subseteq signed'
      /\ TokensHaveSignIn' /\ Outlives' /\ Spent'
  <2>1. CASE getPkceSession(s) /\ match
    <3>1. signRefreshToken(sessionEmail[s]) /\ s \in redeemed'
      BY <2>1 DEF exchange, signIn
    <3>2. sessionEmail[s] \in Emails
      BY DEF IInv, TypeOK
    <3>3. TypeOK /\ TokensHaveSignIn /\ Outlives /\ Spent
      BY DEF IInv
    <3>4. \E r \in redeemed' : sessionEmail'[r] = sessionEmail[s]
      BY <1>1, <3>1
    <3> QED BY <1>1, <1>2, <3>1, <3>2, <3>3, <3>4, SigningKeeps
  <2>2. CASE ~ (getPkceSession(s) /\ match)
    <3>1. UNCHANGED <<redeemed, tokenVars>>
      BY <2>2 DEF exchange, signIn
    <3> QED BY <1>1, <3>1 DEF IInv, TypeOK, TokensHaveSignIn, Outlives, Spent, tokenVars
  <2> QED BY <2>1, <2>2
<1>5. TypeOK'
  BY <1>1, <1>2, <1>4 DEF IInv, TypeOK
<1> QED BY <1>3, <1>4, <1>5 DEF IInv

LEMMA RefreshKeeps ==
  ASSUME IInv, NEW t \in signed, refresh(t), UNCHANGED unit
  PROVE  IInv'
<1>1. UNCHANGED <<now, sessionVars>>
  BY DEF refresh
<1>2. t \in Tokens /\ t.email \in Emails /\ t.iat \in Nat
  BY DEF IInv, TypeOK, Tokens
<1>3. /\ tokenExp' \in [Tokens -> Nat]
      /\ signed' \subseteq Tokens /\ revoked' \subseteq signed'
      /\ TokensHaveSignIn' /\ Outlives' /\ Spent'
  <2>1. CASE validateStoredRefreshToken(t)
    <3>1. signRefreshToken(t.email)
      BY <2>1 DEF refresh
    <3>2. tokenExp[t] # 0
      BY <2>1, LegacyAssumption DEF validateStoredRefreshToken, IInv, TypeOK
    <3>3. \E s \in redeemed' : sessionEmail'[s] = t.email
      BY <1>1, <1>2, <3>2 DEF IInv, TokensHaveSignIn, sessionVars
    <3>4. TypeOK /\ TokensHaveSignIn /\ Outlives /\ Spent
      BY DEF IInv
    <3> QED BY <1>1, <1>2, <3>1, <3>3, <3>4, SigningKeeps DEF sessionVars
  <2>2. CASE ~ validateStoredRefreshToken(t)
    <3>1. tokenExp' = [tokenExp EXCEPT ![t] = 0] /\ UNCHANGED <<signed, revoked>>
      BY <2>2 DEF refresh
    <3>2. unit \in Understood => t \in revoked
      <4> SUFFICES ASSUME unit \in Understood, t \notin revoked PROVE FALSE
        OBVIOUS
      <4>1. tokenExp[t] >= (t.iat + RefreshLife) * Second
        BY DEF IInv, Outlives
      <4>2. now \in Nat /\ now \div Second < t.iat + RefreshLife
        BY LegacyAssumption DEF IInv, TypeOK, refresh, verifyToken, seconds
      <4>3. t.iat + RefreshLife \in Nat
        BY <1>2, LegacyAssumption
      <4>4. now < (t.iat + RefreshLife) * Second
        BY <4>2, <4>3, Later
      <4>5. tokenExp[t] \in Nat /\ (t.iat + RefreshLife) * Second \in Nat
        BY <1>2, <4>3, ProductIsNat, LegacyAssumption DEF IInv, TypeOK
      <4> QED BY <2>2, <4>1, <4>2, <4>4, <4>5 DEF validateStoredRefreshToken
    <3>3. tokenExp' \in [Tokens -> Nat]
      BY <1>2, <3>1 DEF IInv, TypeOK
    <3>4. TokensHaveSignIn'
      BY <1>1, <1>2, <3>1 DEF IInv, TypeOK, TokensHaveSignIn, sessionVars
    <3>5. Outlives'
      BY <3>1, <3>2 DEF IInv, TypeOK, Outlives
    <3>6. Spent'
      BY <1>1, <3>1, LegacyAssumption DEF IInv, TypeOK, Spent
    <3> QED BY <3>1, <3>3, <3>4, <3>5, <3>6 DEF IInv, TypeOK
  <2> QED BY <2>1, <2>2
<1>4. TypeOK'
  BY <1>1, <1>3 DEF IInv, TypeOK, sessionVars
<1>5. Records'
  BY <1>1 DEF IInv, Records, sessionVars
<1> QED BY <1>3, <1>4, <1>5 DEF IInv

LEMMA LogoutKeeps ==
  ASSUME IInv, NEW t \in signed, logout(t), UNCHANGED unit
  PROVE  IInv'
<1>1. /\ tokenExp' = [tokenExp EXCEPT ![t] = 0]
      /\ revoked' = revoked \union {t}
      /\ UNCHANGED <<now, sessionVars, signed>>
  BY DEF logout, revokeRefreshToken
<1>2. TypeOK'
  BY <1>1 DEF IInv, TypeOK, sessionVars
<1>3. TokensHaveSignIn'
  BY <1>1 DEF IInv, TypeOK, TokensHaveSignIn, sessionVars
<1>4. Outlives'
  BY <1>1 DEF IInv, TypeOK, Outlives
<1>5. Spent'
  BY <1>1, LegacyAssumption DEF IInv, TypeOK, Spent
<1>6. Records'
  BY <1>1 DEF IInv, Records, sessionVars
<1> QED BY <1>2, <1>3, <1>4, <1>5, <1>6 DEF IInv

LEMMA StepIInv == IInv /\ [Next]_vars => IInv'
<1> SUFFICES ASSUME IInv, [Next]_vars PROVE IInv'
  OBVIOUS
<1>0. UNCHANGED unit
  BY DEF Next, vars
<1>1. ASSUME NEW s \in Sids, NEW e \in Emails, initiate(s, e) \/ initiatePkceFlow(s, e)
      PROVE  IInv'
  BY <1>0, <1>1, InitiateKeeps DEF initiate, initiatePkceFlow
<1>2. ASSUME NEW s \in Sids, NEW match \in BOOLEAN,
             exchange(s, match) \/ exchangeAuthorizationCode(s, match)
      PROVE  IInv'
  BY <1>0, <1>2, ExchangeKeeps DEF exchangeAuthorizationCode
<1>3. ASSUME NEW t \in signed, refresh(t) \/ refreshAccessToken(t) \/ logout(t)
      PROVE  IInv'
  BY <1>0, <1>3, RefreshKeeps, LogoutKeeps DEF refreshAccessToken
<1>4. CASE Tick
  <2>1. now' \in 1 .. MaxTime
    BY <1>4, LegacyAssumption DEF IInv, TypeOK, Tick
  <2>2. UNCHANGED <<sessionVars, tokenVars>>
    BY <1>4 DEF Tick
  <2>3. TypeOK'
    BY <1>0, <2>1, <2>2 DEF IInv, TypeOK, sessionVars, tokenVars
  <2>4. TokensHaveSignIn' /\ Outlives'
    BY <1>0, <2>2 DEF IInv, TokensHaveSignIn, Outlives, sessionVars, tokenVars
  <2>6. Spent'
    <3>1. now \in Nat /\ now' = now + 1 /\ tokenExp' = tokenExp
      BY <1>4, LegacyAssumption DEF IInv, TypeOK, Tick, tokenVars
    <3> QED BY <1>0, <3>1 DEF IInv, TypeOK, Spent
  <2>5. Records'
    BY <2>2 DEF IInv, Records, sessionVars
  <2> QED BY <2>3, <2>4, <2>5, <2>6 DEF IInv
<1>5. CASE UNCHANGED vars
  BY <1>5
  DEF IInv, TypeOK, TokensHaveSignIn, Outlives, Spent, Records, vars
<1> QED BY <1>1, <1>2, <1>3, <1>4, <1>5 DEF Next

THEOREM Inductive == Spec => []IInv
<1>1. Init => IInv
  BY InitIInv
<1>2. IInv /\ [Next]_vars => IInv'
  BY StepIInv
<1> QED BY <1>1, <1>2, PTL DEF Spec

(***************************************************************************)
(* The results.                                                            *)
(***************************************************************************)
(* The Maps are always well typed (sessionStore.js).                       *)
THEOREM TypeCorrect == Spec => []TypeOK
<1>1. IInv => TypeOK
  BY DEF IInv
<1> QED BY <1>1, Inductive, PTL

(* Every stored refresh token goes back to a sign-in of its user           *)
(* (createAuthResponse).                                                   *)
THEOREM Provenance == Spec => []TokensHaveSignIn
<1>1. IInv => TokensHaveSignIn
  BY DEF IInv
<1> QED BY <1>1, Inductive, PTL

(* Whatever the clock's resolution, and whatever unit the setting has: a   *)
(* token that verifies and was not logged out is in the Map and alive if   *)
(* parseDuration reads the unit, and no token is alive after the           *)
(* millisecond that stored it if it does not (parseDuration against        *)
(* jsonwebtoken).                                                          *)
THEOREM TokensRefreshable == Spec => []UnrevokedRefreshable
<1>1. ASSUME IInv, unit \notin Understood,
             NEW t \in signed, validateStoredRefreshToken(t)
      PROVE  tokenExp[t] = now
  <2>1. t \in Tokens
    BY <1>1 DEF IInv, TypeOK
  <2>2. tokenExp[t] <= now /\ tokenExp[t] \in Nat /\ now \in Nat
    BY <1>1, <2>1, LegacyAssumption DEF IInv, TypeOK, Spent
  <2> QED BY <1>1, <2>2 DEF validateStoredRefreshToken
<1>2. ASSUME IInv, unit \in Understood,
             NEW t \in signed \ revoked, verifyToken(t)
      PROVE  validateStoredRefreshToken(t)
  <2>0. t \in Tokens /\ tokenExp[t] \in Nat
    BY <1>2 DEF IInv, TypeOK
  <2>1. t \in Tokens /\ t.iat \in Nat /\ tokenExp[t] \in Nat
    BY <2>0 DEF Tokens
  <2>2. now \in Nat /\ now \div Second < t.iat + RefreshLife
    BY <1>2, LegacyAssumption DEF IInv, TypeOK, verifyToken, seconds
  <2>3. t.iat + RefreshLife \in Nat
    BY <2>1, LegacyAssumption
  <2>4. now < (t.iat + RefreshLife) * Second
    BY <2>2, <2>3, Later
  <2>5. tokenExp[t] >= (t.iat + RefreshLife) * Second
    BY <1>2 DEF IInv, Outlives
  <2>6. (t.iat + RefreshLife) * Second \in Nat
    BY <2>3, ProductIsNat, LegacyAssumption
  <2> QED BY <2>1, <2>2, <2>4, <2>5, <2>6 DEF validateStoredRefreshToken
<1>3. IInv => UnrevokedRefreshable
  BY <1>1, <1>2 DEF UnrevokedRefreshable
<1> QED BY <1>3, Inductive, PTL

(***************************************************************************)
(* Refinement.                                                             *)
(***************************************************************************)
statusBar ==
  [s \in Sids |-> IF s \notin generated THEN "unused"
                  ELSE IF sessionExp[s] >= now THEN "open" ELSE "closed"]

LEMMA LedgerInit == Init => Ledger!Init
BY DEF Init, Ledger!Init

\* Records that are gone or run out are closed in the ledger, all at once.
LEMMA ClosingStep ==
  ASSUME IInv, redeemed' = redeemed,
         NEW S \in SUBSET Sids, \A s \in S : statusBar[s] = "open",
         statusBar' = [s \in Sids |-> IF s \in S THEN "closed" ELSE statusBar[s]]
  PROVE  [Ledger!Next]_(Ledger!lvars)
<1>1. Ledger!Close(S)
  BY DEF Ledger!Close, statusBar
<1> QED BY <1>1 DEF Ledger!Next

LEMMA StepLedger == IInv /\ IInv' /\ [Next]_vars => [Ledger!Next]_(Ledger!lvars)
<1> SUFFICES ASSUME IInv, IInv', [Next]_vars PROVE [Ledger!Next]_(Ledger!lvars)
  OBVIOUS
<1>0. now \in Nat \ {0} /\ sessionExp \in [Sids -> Nat]
  BY LegacyAssumption DEF IInv, TypeOK
<1>1. ASSUME NEW s \in Sids, NEW e \in Emails, createPkceSession(s, e)
      PROVE  [Ledger!Next]_(Ledger!lvars)
  <2>1. /\ s \notin generated /\ generated' = generated \union {s}
        /\ sessionExp' = [sessionExp EXCEPT ![s] = now + SessionTtl]
        /\ now' = now /\ redeemed' = redeemed
    BY <1>1 DEF createPkceSession
  <2>2. now + SessionTtl >= now
    BY <1>0, LegacyAssumption
  <2>3. statusBar[s] = "unused" /\ statusBar' = [statusBar EXCEPT ![s] = "open"]
    BY <1>0, <2>1, <2>2 DEF statusBar
  <2>4. Ledger!Open(s)
    BY <2>1, <2>3 DEF Ledger!Open, statusBar
  <2> QED BY <2>4 DEF Ledger!Next
<1>2. ASSUME NEW s \in Sids, NEW match \in BOOLEAN, exchange(s, match)
      PROVE  [Ledger!Next]_(Ledger!lvars)
  <2>1. /\ s \in generated /\ sessionExp' = [sessionExp EXCEPT ![s] = 0]
        /\ now' = now /\ generated' = generated
    BY <1>2 DEF exchange, consumePkceSession
  <2>2. statusBar' = [statusBar EXCEPT ![s] = "closed"]
    <3>1. ~ (sessionExp'[s] >= now')
      BY <1>0, <2>1
    <3>2. \A r \in Sids \ {s} : sessionExp'[r] = sessionExp[r]
      BY <1>0, <2>1
    <3> QED BY <2>1, <3>1, <3>2 DEF statusBar
  <2>3. CASE getPkceSession(s) /\ match
    <3>1. statusBar[s] = "open"
      BY <2>1, <2>3 DEF statusBar, getPkceSession
    <3>2. redeemed' = redeemed \union {s}
      BY <1>2, <2>3 DEF exchange, signIn
    <3>3. Ledger!Redeem(s)
      BY <2>2, <3>1, <3>2 DEF Ledger!Redeem, statusBar
    <3> QED BY <3>3 DEF Ledger!Next
  <2>4. CASE ~ (getPkceSession(s) /\ match)
    <3>1. redeemed' = redeemed
      BY <1>2, <2>4 DEF exchange, signIn
    <3> DEFINE S == {r \in {s} : statusBar[r] = "open"}
    <3>2. statusBar[s] \in {"open", "closed"}
      BY <2>1 DEF statusBar
    <3>3. statusBar' = [r \in Sids |-> IF r \in S THEN "closed" ELSE statusBar[r]]
      BY <2>2, <3>2 DEF statusBar
    <3>4. S \in SUBSET Sids /\ \A r \in S : statusBar[r] = "open"
      OBVIOUS
    <3> HIDE DEF S
    <3> QED BY <3>1, <3>3, <3>4, ClosingStep
  <2> QED BY <2>3, <2>4
<1>3. ASSUME UNCHANGED <<now, sessionVars>> PROVE [Ledger!Next]_(Ledger!lvars)
  <2>1. statusBar' = statusBar
    BY <1>3 DEF statusBar, sessionVars
  <2> QED BY <1>3, <2>1 DEF Ledger!lvars, statusBar, sessionVars
<1>4. CASE Tick
  <2>1. now' = now + 1 /\ UNCHANGED <<sessionVars>>
    BY <1>4 DEF Tick
  <2> DEFINE S == {s \in generated : sessionExp[s] = now}
  <2>2. S \in SUBSET Sids
    BY DEF IInv, TypeOK
  <2>3. \A s \in S : statusBar[s] = "open"
    BY <1>0, <2>2 DEF statusBar
  <2>4. statusBar' = [s \in Sids |-> IF s \in S THEN "closed" ELSE statusBar[s]]
    BY <1>0, <2>1 DEF statusBar, sessionVars
  <2>5. redeemed' = redeemed
    BY <2>1 DEF sessionVars
  <2> HIDE DEF S
  <2> QED BY <2>2, <2>3, <2>4, <2>5, ClosingStep
<1>5. ASSUME NEW t \in signed, refresh(t) \/ logout(t)
      PROVE  UNCHANGED <<now, sessionVars>>
  BY <1>5 DEF refresh, logout, revokeRefreshToken
<1>6. CASE UNCHANGED vars
  BY <1>3, <1>6 DEF vars, sessionVars
<1> QED
  BY <1>1, <1>2, <1>3, <1>4, <1>5, <1>6
  DEF Next, initiate, initiatePkceFlow, exchangeAuthorizationCode, refreshAccessToken

(* The legacy store keeps the one-time session: an expired record counts   *)
(* as closed at once, and a redeemed session was open until that step      *)
(* (consumePkceSession).                                                   *)
THEOREM OneTimeLedgerImplemented == Spec => ImplementsOneTimeLedger
<1>1. Init => Ledger!Init
  BY LedgerInit
<1>2. IInv /\ IInv' /\ [Next]_vars => [Ledger!Next]_(Ledger!lvars)
  BY StepLedger
<1> QED
  BY <1>1, <1>2, Inductive, PTL DEF Spec, Ledger!Spec, ImplementsOneTimeLedger

(***************************************************************************)
(* The report stream, which runs beside those handlers.                    *)
(***************************************************************************)
\* What a client got is <<1, 2, ...>>, no longer than what was sent.
Prefix(rows, n) ==
  /\ rows \in Seq(1 .. MaxRows)
  /\ Len(rows) <= n
  /\ \A i \in 1 .. Len(rows) : rows[i] = i

\* The states of one stream.
Quiet(so, ti, n, rows) ==
  so = "none" => ti = FALSE /\ n = 0 /\ Len(rows) = 0
Live(so, ti, n, rows) ==
  so = "open" => ti = TRUE /\ Len(rows) = n

StreamOK(c) ==
  /\ Prefix(got[c], count[c])
  /\ Quiet(socket[c], timer[c], count[c], got[c])
  /\ Live(socket[c], timer[c], count[c], got[c])

StreamIInv == StreamTypeOK /\ \A c \in Streams : StreamOK(c)

LEMMA EmptyPrefix == Prefix(<<>>, 0) /\ Len(<<>>) = 0
<1>1. <<>> \in Seq(1 .. MaxRows) /\ Len(<<>>) = 0
  BY EmptySeq
<1> QED BY <1>1 DEF Prefix

\* A row that is numbered by the count continues what is complete.
LEMMA RowContinues ==
  ASSUME NEW rows, Prefix(rows, Len(rows)), Len(rows) + 1 <= MaxRows
  PROVE  LET more == Append(rows, Len(rows) + 1) IN
           Prefix(more, Len(rows) + 1) /\ Len(more) = Len(rows) + 1
<1> DEFINE S == 1 .. MaxRows
           n == Len(rows)
           more == Append(rows, n + 1)
<1>1. rows \in Seq(S) /\ \A i \in 1 .. n : rows[i] = i
  BY DEF Prefix
<1>2. n \in Nat
  BY <1>1, LenProperties
<1>3. n + 1 \in S
  BY <1>2, StreamAssumption
<1> HIDE DEF S
<1>4. /\ more \in Seq(S)
      /\ Len(more) = n + 1
      /\ \A i \in 1 .. n : more[i] = rows[i]
      /\ more[n + 1] = n + 1
  BY <1>1, <1>3, AppendProperties
<1>5. \A i \in 1 .. (n + 1) : more[i] = i
  BY <1>1, <1>2, <1>4
<1>6. n + 1 <= n + 1
  BY <1>2
<1> USE DEF S
<1> QED BY <1>4, <1>5, <1>6 DEF Prefix

LEMMA PrefixGrows ==
  ASSUME NEW rows, NEW n \in Nat, Prefix(rows, n)
  PROVE  Prefix(rows, n + 1) /\ Len(rows) \in Nat
<1>1. Len(rows) \in Nat
  BY LenProperties DEF Prefix
<1> QED BY <1>1 DEF Prefix

LEMMA InitStreamIInv == StreamInit => StreamIInv
<1> SUFFICES ASSUME StreamInit PROVE StreamIInv
  OBVIOUS
<1>1. StreamTypeOK
  BY EmptyPrefix, StreamAssumption DEF StreamInit, StreamTypeOK, Prefix
<1>2. ASSUME NEW c \in Streams PROVE StreamOK(c)
  <2>1. /\ socket[c] = "none" /\ timer[c] = FALSE
        /\ count[c] = 0 /\ got[c] = <<>>
    BY DEF StreamInit
  <2> QED BY <2>1, EmptyPrefix DEF StreamOK, Quiet, Live
<1> QED BY <1>1, <1>2 DEF StreamIInv

\* send, with the connection as its caller leaves it.
LEMMA SendKeeps ==
  ASSUME StreamIInv, NEW c \in Streams, send(c), count[c] < MaxRows,
         socket'[c] = "open" => Len(got[c]) = count[c]
  PROVE  /\ count' \in [Streams -> 0 .. MaxRows]
         /\ got' \in [Streams -> Seq(1 .. MaxRows)]
         /\ count'[c] = count[c] + 1
         /\ Prefix(got'[c], count'[c])
         /\ socket'[c] = "open" => Len(got'[c]) = count'[c]
         /\ \A d \in Streams \ {c} : count'[d] = count[d] /\ got'[d] = got[d]
<1>1. /\ count \in [Streams -> 0 .. MaxRows]
      /\ got \in [Streams -> Seq(1 .. MaxRows)]
      /\ Prefix(got[c], count[c])
  BY DEF StreamIInv, StreamTypeOK, StreamOK
<1>2. /\ count' = [count EXCEPT ![c] = count[c] + 1]
      /\ got' = [got EXCEPT ![c] = IF socket'[c] = "open"
                                  THEN Append(got[c], count'[c]) ELSE got[c]]
  BY DEF send
<1>3. count[c] \in Nat /\ count[c] + 1 \in 0 .. MaxRows
  BY <1>1, StreamAssumption
<1>4. /\ count' \in [Streams -> 0 .. MaxRows]
      /\ count'[c] = count[c] + 1
  BY <1>1, <1>2, <1>3
<1>5. \A d \in Streams \ {c} : count'[d] = count[d] /\ got'[d] = got[d]
  BY <1>1, <1>2
<1>6. /\ Prefix(got'[c], count'[c])
      /\ socket'[c] = "open" => Len(got'[c]) = count'[c]
  <2>1. CASE socket'[c] = "open"
    <3>1. got'[c] = Append(got[c], Len(got[c]) + 1)
      BY <1>1, <1>2, <1>4, <2>1
    <3>2. Len(got[c]) + 1 <= MaxRows
      BY <1>3, <2>1
    <3>3. Prefix(got[c], Len(got[c]))
      BY <1>1, <2>1
    <3>4. /\ Prefix(Append(got[c], Len(got[c]) + 1), Len(got[c]) + 1)
          /\ Len(Append(got[c], Len(got[c]) + 1)) = Len(got[c]) + 1
      BY <3>2, <3>3, RowContinues
    <3> QED BY <1>4, <2>1, <3>1, <3>4
  <2>2. CASE socket'[c] # "open"
    <3>1. got'[c] = got[c]
      BY <1>1, <1>2, <2>2
    <3> QED BY <1>1, <1>3, <1>4, <2>2, <3>1, PrefixGrows
  <2> QED BY <2>1, <2>2
<1>7. got'[c] \in Seq(1 .. MaxRows)
  BY <1>6 DEF Prefix
<1>8. got' \in [Streams -> Seq(1 .. MaxRows)]
  BY <1>1, <1>2, <1>7
<1> QED BY <1>4, <1>5, <1>6, <1>8

LEMMA StreamStepKeeps ==
  ASSUME StreamIInv, NEW c \in Streams, StreamStep(c)
  PROVE  StreamIInv'
<1>1. /\ socket \in [Streams -> {"none", "open", "dropped", "closed"}]
      /\ timer \in [Streams -> BOOLEAN]
      /\ count \in [Streams -> 0 .. MaxRows]
      /\ got \in [Streams -> Seq(1 .. MaxRows)]
  BY DEF StreamIInv, StreamTypeOK
<1>2. \A d \in Streams : StreamOK(d)
  BY DEF StreamIInv
<1>3. CASE \E a \in Jwts \union {NoJwt}, k \in Jwts \union {NoJwt} : stream(c, a, k)
  <2>1. /\ socket[c] = "none" /\ send(c)
        /\ socket' = [socket EXCEPT ![c] = "open"]
        /\ timer' = [timer EXCEPT ![c] = TRUE]
    BY <1>3 DEF stream
  <2>2. count[c] = 0 /\ Len(got[c]) = 0
    BY <1>2, <2>1 DEF StreamOK, Quiet
  <2>3. /\ count' \in [Streams -> 0 .. MaxRows]
        /\ got' \in [Streams -> Seq(1 .. MaxRows)]
        /\ Prefix(got'[c], count'[c])
        /\ socket'[c] = "open" => Len(got'[c]) = count'[c]
        /\ \A d \in Streams \ {c} : count'[d] = count[d] /\ got'[d] = got[d]
    BY <2>1, <2>2, SendKeeps, StreamAssumption
  <2>4. StreamTypeOK'
    BY <1>1, <2>1, <2>3 DEF StreamTypeOK
  <2>5. socket'[c] = "open" /\ timer'[c] = TRUE
    BY <1>1, <2>1
  <2>6. StreamOK(c)'
    BY <2>3, <2>5 DEF StreamOK, Quiet, Live
  <2>7. ASSUME NEW d \in Streams \ {c} PROVE StreamOK(d)'
    <3>1. socket'[d] = socket[d] /\ timer'[d] = timer[d]
      BY <1>1, <2>1
    <3> QED BY <1>2, <2>3, <3>1 DEF StreamOK
  <2> QED BY <2>4, <2>6, <2>7 DEF StreamIInv
<1>4. CASE interval(c)
  <2>1. /\ timer[c] /\ count[c] < MaxRows /\ send(c)
        /\ socket' = socket /\ timer' = timer
    BY <1>4 DEF interval
  <2>2. socket'[c] = "open" => Len(got[c]) = count[c]
    BY <1>2, <2>1 DEF StreamOK, Live
  <2>3. /\ count' \in [Streams -> 0 .. MaxRows]
        /\ got' \in [Streams -> Seq(1 .. MaxRows)]
        /\ Prefix(got'[c], count'[c])
        /\ socket'[c] = "open" => Len(got'[c]) = count'[c]
        /\ \A d \in Streams \ {c} : count'[d] = count[d] /\ got'[d] = got[d]
    BY <2>1, <2>2, SendKeeps
  <2>4. StreamTypeOK'
    BY <1>1, <2>1, <2>3 DEF StreamTypeOK
  <2>5. socket[c] # "none" /\ (socket[c] = "open" => timer[c] = TRUE)
    BY <1>2, <2>1 DEF StreamOK, Quiet, Live
  <2>6. StreamOK(c)'
    BY <2>1, <2>3, <2>5 DEF StreamOK, Quiet, Live
  <2>7. ASSUME NEW d \in Streams \ {c} PROVE StreamOK(d)'
    BY <1>2, <2>1, <2>3 DEF StreamOK
  <2> QED BY <2>4, <2>6, <2>7 DEF StreamIInv
<1>5. CASE drop(c) \/ close(c)
  <2>1. /\ count' = count /\ got' = got
        /\ \E so \in {"dropped", "closed"} : socket' = [socket EXCEPT ![c] = so]
        /\ \E ti \in BOOLEAN : timer' = [timer EXCEPT ![c] = ti]
    <3>1. timer = [timer EXCEPT ![c] = timer[c]] /\ timer[c] \in BOOLEAN
      BY <1>1
    <3> QED BY <1>5, <3>1 DEF drop, close
  <2>2. StreamTypeOK'
    BY <1>1, <2>1 DEF StreamTypeOK
  <2>3. socket'[c] \in {"dropped", "closed"}
    BY <1>1, <2>1
  <2>4. StreamOK(c)'
    BY <1>2, <2>1, <2>3 DEF StreamOK, Quiet, Live
  <2>5. ASSUME NEW d \in Streams \ {c} PROVE StreamOK(d)'
    <3>1. socket'[d] = socket[d] /\ timer'[d] = timer[d]
      BY <1>1, <2>1
    <3> QED BY <1>2, <2>1, <3>1 DEF StreamOK
  <2> QED BY <2>2, <2>4, <2>5 DEF StreamIInv
<1> QED BY <1>3, <1>4, <1>5 DEF StreamStep

LEMMA StreamUnchanged == StreamIInv /\ UNCHANGED streamVars => StreamIInv'
BY DEF StreamIInv, StreamTypeOK, StreamOK, streamVars

THEOREM StreamInductive == StreamSpec => []StreamIInv
<1>1. StreamInit => StreamIInv
  BY InitStreamIInv
<1>2. StreamIInv /\ [StreamNext]_<<vars, streamVars>> => StreamIInv'
  BY StreamStepKeeps, StreamUnchanged DEF StreamNext
<1> QED BY <1>1, <1>2, PTL DEF StreamSpec

(* Whatever rows a stream's client has, they are 1, 2, 3 ... without a gap *)
(* or a repeat, and all that were sent as long as it is connected, when    *)
(* its interval is running (send, and the close handler of                 *)
(* /api/reports/stream).                                                   *)
THEOREM StreamsAreCounted == StreamSpec => []StreamInv
<1>1. StreamIInv => StreamInv
  <2> SUFFICES ASSUME StreamIInv PROVE StreamInv
    OBVIOUS
  <2>1. StreamTypeOK
    BY DEF StreamIInv
  <2>2. ASSUME NEW c \in Streams
        PROVE  /\ \A n \in DOMAIN got[c] : got[c][n] = n
               /\ socket[c] = "open" => timer[c] /\ Len(got[c]) = count[c]
    <3>1. StreamOK(c)
      BY DEF StreamIInv
    <3>2. DOMAIN got[c] = 1 .. Len(got[c])
      BY <3>1, LenProperties DEF StreamOK, Prefix
    <3> QED BY <3>1, <3>2 DEF StreamOK, Prefix, Live
  <2> QED BY <2>1, <2>2 DEF StreamInv, RowsAreCounted
<1> QED BY <1>1, StreamInductive, PTL

(* The stream only reads what the other handlers keep: beside it they      *)
(* behave as LegacyBff says (requireJwt changes no Map).                   *)
THEOREM StreamImplementsLegacyBff == StreamSpec => Spec
<1>1. StreamInit => Init
  BY DEF StreamInit
<1>2. [StreamNext]_<<vars, streamVars>> => [Next]_vars
  BY DEF StreamNext
<1> QED BY <1>1, <1>2, PTL DEF StreamSpec, Spec

(* So with streams open a refresh token that was not logged out can still  *)
(* be refreshed as long as its JWT verifies, and whoever holds one got it  *)
(* from a sign-in of its user (exchange, refresh).                         *)
THEOREM TokensBesideStreams ==
  StreamSpec => [](TypeOK /\ TokensHaveSignIn /\ UnrevokedRefreshable)
BY StreamImplementsLegacyBff, TypeCorrect, Provenance, TokensRefreshable, PTL
=============================================================================
