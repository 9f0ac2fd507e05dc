----------------------------- MODULE LegacyBff -----------------------------
(***************************************************************************)
(* The archived Express BFF (services/bff/legacy): REST and GraphQL over   *)
(* the Maps of sessionStore.js in one process. No handler awaits, so a     *)
(* request is a step; what is left to go wrong is the clock, which the     *)
(* Maps read in milliseconds and the JWTs in seconds, expiry that only     *)
(* happens when somebody looks, and two APIs that share the Maps.          *)
(*                                                                         *)
(* A request that leaves the Maps alone (a field missing, a JWT that does  *)
(* not verify, a limited client) is no step.                               *)
(***************************************************************************)
EXTENDS Integers

CONSTANTS
  Sids,          \* ids crypto.randomUUID generates
  Emails, Blank, \* what is typed as email, the empty string among it
  SessionTtl,    \* ticks a PKCE session lives
  RefreshLife,   \* seconds JWT_REFRESH_EXPIRES_IN stands for
  Units,         \* the units it may be written in
  Second,        \* ticks per second
  MaxTime        \* bound on the clock

ASSUME LegacyAssumption ==
  /\ Blank \in Emails
  /\ SessionTtl \in Nat /\ RefreshLife \in Nat
  /\ Second \in Nat \ {0} /\ MaxTime \in Nat \ {0}

\* A token is its payload: signed in the same second it is the same string.
Tokens == [email : Emails, iat : 0 .. MaxTime]

VARIABLES
  unit,                       \* the unit this process was started with
  now,                        \* Date.now()
  generated,                  \* session ids handed out
  sessionEmail, sessionExp,   \* pkceSessions; expiresAt 0: no record
  tokenExp,                   \* refreshTokenStore: token -> expiresAt or 0
  redeemed,                   \* sessions answered with tokens
  signed, revoked             \* tokens handed out, logged out since

vars == <<unit, now, generated, sessionEmail, sessionExp, tokenExp, redeemed,
          signed, revoked>>
sessionVars == <<generated, sessionEmail, sessionExp, redeemed>>
tokenVars == <<tokenExp, signed, revoked>>

Init ==
  /\ unit \in Units
  /\ now = 1
  /\ generated = {} /\ redeemed = {} /\ signed = {} /\ revoked = {}
  /\ sessionEmail = [s \in Sids |-> Blank]
  /\ sessionExp = [s \in Sids |-> 0]
  /\ tokenExp = [t \in Tokens |-> 0]

seconds == now \div Second

-----------------------------------------------------------------------------
(* sessionStore.js and token.js *)

Mutant_createPkceSession(s, email) ==
  /\ s \notin generated
  /\ generated' = generated \union {s}
  /\ sessionEmail' = [sessionEmail EXCEPT ![s] = "undefined"]
  /\ sessionExp' = [sessionExp EXCEPT ![s] = now + SessionTtl]
  /\ UNCHANGED <<now, redeemed, tokenVars>>

createPkceSession(s, email) ==
  /\ s \notin generated
  /\ generated' = generated \union {s}
  /\ sessionEmail' = [sessionEmail EXCEPT ![s] = email]
  /\ sessionExp' = [sessionExp EXCEPT ![s] = now + SessionTtl]
  /\ UNCHANGED <<now, redeemed, tokenVars>>

Mutant_getPkceSession(s) == sessionExp[s] # 0

getPkceSession(s) == sessionExp[s] >= now

\* An expired record is deleted as well as one that is returned.
Mutant_consumePkceSession(s) ==
  sessionExp' = [sessionExp EXCEPT ![s] = IF @ >= now THEN @ ELSE 0]

consumePkceSession(s) == sessionExp' = [sessionExp EXCEPT ![s] = 0]

\* What parseDuration reads; jsonwebtoken reads more, minutes for one.
\* Digits alone are milliseconds to both.
Understood == {"h", "d", "digits"}

\* Ticks in a setting of n seconds.
Mutant_parseDuration(n) == IF unit = "h" THEN n * Second ELSE 0

parseDuration(n) == IF unit \in Understood THEN n * Second ELSE 0

verifyToken(t) == seconds < t.iat + RefreshLife

signRefreshToken(email) ==
  LET t == [email |-> email, iat |-> seconds] IN
    /\ tokenExp' = [tokenExp EXCEPT ![t] = now + parseDuration(RefreshLife)]
    /\ signed' = signed \union {t}
    /\ revoked' = revoked \ {t}

validateStoredRefreshToken(t) == tokenExp[t] >= now

revokeRefreshToken(t) ==
  /\ tokenExp' = [tokenExp EXCEPT ![t] = 0]
  /\ revoked' = revoked \union {t}
  /\ UNCHANGED <<now, sessionVars, signed>>

-----------------------------------------------------------------------------
(* The handlers. GraphQL's String! admits the empty string REST refuses. *)

initiate(s, email) == email # Blank /\ createPkceSession(s, email)

initiatePkceFlow(s, email) == createPkceSession(s, email)

\* match: state and verifier are those of the session.
Mutant_signIn(s, match) ==
  /\ signRefreshToken(sessionEmail[s])
  /\ redeemed' = IF match THEN redeemed \union {s} ELSE redeemed

signIn(s, match) ==
  IF getPkceSession(s) /\ match
  THEN /\ signRefreshToken(sessionEmail[s])
       /\ redeemed' = redeemed \union {s}
  ELSE UNCHANGED <<redeemed, tokenVars>>

exchange(s, match) ==
  /\ s \in generated
  /\ consumePkceSession(s)
  /\ signIn(s, match)
  /\ UNCHANGED <<now, generated, sessionEmail>>

exchangeAuthorizationCode(s, match) == exchange(s, match)

\* The token presented stays valid; an expired entry goes.
refresh(t) ==
  /\ t \in signed /\ verifyToken(t)
  /\ IF validateStoredRefreshToken(t)
     THEN signRefreshToken(t.email)
     ELSE /\ tokenExp' = [tokenExp EXCEPT ![t] = 0]
          /\ UNCHANGED <<signed, revoked>>
  /\ UNCHANGED <<now, sessionVars>>

refreshAccessToken(t) == refresh(t)

logout(t) == t \in signed /\ revokeRefreshToken(t)

Tick ==
  /\ now < MaxTime
  /\ now' = now + 1
  /\ UNCHANGED <<sessionVars, tokenVars>>

Next ==
  /\ UNCHANGED unit
  /\ \/ \E s \in Sids, e \in Emails : initiate(s, e) \/ initiatePkceFlow(s, e)
     \/ \E s \in Sids, match \in BOOLEAN :
          exchange(s, match) \/ exchangeAuthorizationCode(s, match)
     \/ \E t \in signed : refresh(t) \/ refreshAccessToken(t) \/ logout(t)
     \/ Tick

Spec == Init /\ [][Next]_vars

-----------------------------------------------------------------------------
(* Every variable has its type. *)
TypeOK ==
  /\ unit \in Units
  /\ now \in 1 .. MaxTime
  /\ generated \subseteq Sids /\ redeemed \subseteq generated
  /\ sessionEmail \in [Sids -> Emails]
  /\ sessionExp \in [Sids -> Nat]
  /\ tokenExp \in [Tokens -> Nat]
  /\ signed \subseteq Tokens /\ revoked \subseteq signed

(* Whoever holds a stored refresh token got it from a sign-in of its user, *)
(* through however many refreshes by whichever API (createAuthResponse is  *)
(* called by exchange with the session's email, by refresh with the        *)
(* stored payload's).                                                      *)
TokensHaveSignIn ==
  \A t \in Tokens : tokenExp[t] # 0 =>
    \E s \in redeemed : sessionEmail[s] = t.email

(* Where JWT_REFRESH_EXPIRES_IN has a unit parseDuration reads, a refresh  *)
(* token that was not logged out can be refreshed as long as its JWT       *)
(* verifies: the Map's lifetime, in milliseconds, never ends before the    *)
(* JWT's, which jsonwebtoken counts in seconds. Where it has another, such *)
(* as 30m, the Map's lifetime is 0 (token.js:30): a token can be refreshed *)
(* in the millisecond it was stored and never again, although its JWT      *)
(* verifies for half an hour.                                              *)
UnrevokedRefreshable ==
  IF unit \in Understood
  THEN \A t \in signed \ revoked : verifyToken(t) => validateStoredRefreshToken(t)
  ELSE \A t \in signed : validateStoredRefreshToken(t) => tokenExp[t] = now

(* Sessions are the ledger's: a record that has expired is closed although *)
(* it stays in the Map until somebody looks.                               *)
Ledger == INSTANCE OneTimeLedger WITH
  Sessions <- Sids,
  status <- [s \in Sids |->
    IF s \notin generated THEN "unused"
    ELSE IF sessionExp[s] >= now THEN "open" ELSE "closed"]

ImplementsOneTimeLedger == Ledger!Spec
=============================================================================
