---------------------------- MODULE AuthClient ----------------------------
(***************************************************************************)
(* One browser tab as a client of the BFF: the sign-in of the login MFE    *)
(* (usePkceLogin, authClient, withRetry) and the refresh and logout of     *)
(* platform-auth (bff-client, session), over a network that loses requests *)
(* and answers.  Every call of signIn, refreshTokens and logout is a       *)
(* process; nothing in the code keeps two of them apart.                   *)
(*                                                                         *)
(* The BFF is AuthService seen from outside: a request is read against the *)
(* cache in one step and carried out in the next, so requests race in it.  *)
(* A refresh token is its text, named by the <<call, attempt>> it was      *)
(* first signed for: the text depends on the user and the second only, so  *)
(* later calls of that second may be given the same one.  A PKCE session   *)
(* is the <<sign-in, attempt>> that opened it.  The three keys of          *)
(* platform.auth are written and removed together and are one variable.    *)
(***************************************************************************)
EXTENDS Naturals, FiniteSets

CONSTANTS
  SignIns, Refreshes, Logouts,  \* calls, each made once
  External,       \* the sign-ins whose provider is not "local"
  maxRetries,     \* of DEFAULT_RETRY_POLICY
  NoToken, NoDraft, NoAnswer

Calls == SignIns \union Refreshes \union Logouts
Attempts == 0..maxRetries
Tokens == (SignIns \union Refreshes) \X Attempts

ASSUME CallsAreDisjoint ==
  /\ SignIns \intersect Refreshes = {}
  /\ SignIns \intersect Logouts = {}
  /\ Refreshes \intersect Logouts = {}
  /\ External \subseteq SignIns
ASSUME Retries == maxRetries \in Nat

VARIABLES
  session,    \* platform.auth.*: the refresh token in it
  draft,      \* pkce_session: the sign-in that saved it
  loading,    \* the hook's loading flag
  pc,         \* per call: the request it awaits, or its backoff
  attempt,    \* per call: the attempt its request is at
  sid,        \* per sign-in: the attempt that opened the session it uses
  used,       \* per refresh and logout: the token it read from the session
  outcome,    \* per call: how it ended
  wire,       \* requests the BFF has not answered
  inbox,      \* per call: the answer on its way to the attempt it is at
  opened,     \* PKCE sessions in the BFF's cache
  live,       \* refresh tokens in the BFF's cache
  recent,     \* tokens stored in the current second
  excused     \* history: tokens that expired, or were stored a second time

tab == <<session, draft, loading, pc, attempt, sid, used, outcome>>
bff == <<opened, live, recent, excused>>
vars == <<tab, wire, inbox, bff>>

Awaits == {"initiate", "exchange", "refresh", "logout"}
Backoffs == {"retry initiate", "retry exchange"}
Results == {"ok", "rejected", "broken"}   \* 2xx, 4xx, 5xx
Outcomes == {"none", "ok", "rejected", "broken", "unreachable", "no session",
             "external", "listener threw", "reloaded"}
Answers == [result : Results, token : Tokens \union {NoToken}]
Messages == [call : Calls, op : Awaits, n : Attempts, read : BOOLEAN]

ASSUME NullValues == NoToken \notin Tokens /\ NoAnswer \notin Answers

TypeOK ==
  /\ session \in Tokens \union {NoToken}
  /\ draft \in SignIns \union {NoDraft}
  /\ loading \in BOOLEAN
  /\ pc \in [Calls -> Awaits \union Backoffs \union {"idle", "done"}]
  /\ attempt \in [Calls -> Attempts]
  /\ sid \in [SignIns -> Attempts]
  /\ used \in [Refreshes \union Logouts -> Tokens \union {NoToken}]
  /\ outcome \in [Calls -> Outcomes]
  /\ wire \subseteq Messages
  /\ inbox \in [Calls -> Answers \union {NoAnswer}]
  /\ opened \subseteq SignIns \X Attempts
  /\ live \subseteq Tokens
  /\ recent \subseteq Tokens
  /\ excused \subseteq Tokens

Init ==
  /\ session = NoToken /\ draft = NoDraft /\ loading = FALSE
  /\ pc = [c \in Calls |-> "idle"]
  /\ attempt = [c \in Calls |-> 0]
  /\ sid = [c \in SignIns |-> 0]
  /\ used = [c \in Refreshes \union Logouts |-> NoToken]
  /\ outcome = [c \in Calls |-> "none"]
  /\ wire = {}
  /\ inbox = [c \in Calls |-> NoAnswer]
  /\ opened = {} /\ live = {} /\ recent = {} /\ excused = {}

Backoff(op) == IF op = "initiate" THEN "retry initiate" ELSE "retry exchange"
---------------------------------------------------------------------------
(* Requests and how they end *)

\* fetch: attempt n of the request op of call c goes out.
send(c, op, n) ==
  /\ pc' = [pc EXCEPT ![c] = op]
  /\ attempt' = [attempt EXCEPT ![c] = n]
  /\ wire' = wire \union {[call |-> c, op |-> op, n |-> n, read |-> FALSE]}
  /\ inbox' = [inbox EXCEPT ![c] = NoAnswer]

settle(c, result) ==
  /\ pc' = [pc EXCEPT ![c] = "done"]
  /\ outcome' = [outcome EXCEPT ![c] = result]
  /\ inbox' = [inbox EXCEPT ![c] = NoAnswer]
  /\ UNCHANGED <<attempt, wire>>

\* The answer to the request op of call c is there.
Answered(c, op) == pc[c] = op /\ inbox[c] # NoAnswer
Succeeded(c, op) == Answered(c, op) /\ inbox[c].result = "ok"
Refused(c, op) == Answered(c, op) /\ inbox[c].result # "ok"

\* session.ts: the three keys at once.
\* Mutant: the refresh token of a renewed session is not written.
Mutant_persistAuthSession(t) == session' = IF session = NoToken THEN t ELSE session

persistAuthSession(t) == session' = t
clearAuthSession == session' = NoToken
---------------------------------------------------------------------------
(* signIn *)

signIn(c) ==
  /\ pc[c] = "idle"
  /\ loading' = TRUE
  /\ send(c, "initiate", 0)
  /\ UNCHANGED <<session, draft, sid, used, outcome, bff>>

\* The end of signIn, with its finally.
\* Mutant: the early return for an external provider skips it.
Mutant_signInEnds(c, result) ==
  settle(c, result) /\ loading' = (result = "external" /\ loading)

signInEnds(c, result) == settle(c, result) /\ loading' = FALSE

\* withRetry after fetch has rejected.
\* Mutant: one attempt too many.
Mutant_attemptsLeft(c) == attempt[c] <= maxRetries

attemptsLeft(c) == attempt[c] < maxRetries

backoff(c, op) ==
  /\ pc[c] = op /\ ~Answered(c, op) /\ attemptsLeft(c)
  /\ pc' = [pc EXCEPT ![c] = Backoff(op)]
  /\ UNCHANGED <<session, draft, loading, attempt, sid, used, outcome, wire, inbox, bff>>

\* Mutant: the attempt is not counted.
Mutant_retry(c, op) ==
  /\ pc[c] = Backoff(op)
  /\ send(c, op, attempt[c])
  /\ UNCHANGED <<session, draft, loading, sid, used, outcome, bff>>

retry(c, op) ==
  /\ pc[c] = Backoff(op)
  /\ send(c, op, attempt[c] + 1)
  /\ UNCHANGED <<session, draft, loading, sid, used, outcome, bff>>

giveUp(c, op) ==
  /\ pc[c] = op /\ ~Answered(c, op) /\ ~attemptsLeft(c)
  /\ signInEnds(c, "unreachable")
  /\ UNCHANGED <<session, draft, sid, used, bff>>

\* Any HTTP answer ends withRetry; parseError throws when it is no 2xx, and
\* json() when the body of a 2xx is cut off.
signInFails(c, op) ==
  /\ \/ Refused(c, op) /\ signInEnds(c, inbox[c].result)
     \/ Succeeded(c, op) /\ signInEnds(c, "unreachable")
  /\ UNCHANGED <<session, draft, sid, used, bff>>

savePkceSession(c) ==
  /\ Succeeded(c, "initiate")
  /\ draft' = c
  /\ sid' = [sid EXCEPT ![c] = attempt[c]]
  /\ \/ c \in External /\ signInEnds(c, "external")
     \/ c \notin External /\ send(c, "exchange", 0) /\ UNCHANGED <<loading, outcome>>
  /\ UNCHANGED <<session, used, bff>>

\* The session is stored before the event is published: a listener, or
\* postMessage, that throws then makes the sign-in report a failure.
signedIn(c) ==
  /\ Succeeded(c, "exchange")
  /\ draft' = NoDraft
  /\ persistAuthSession(inbox[c].token)
  /\ \E result \in {"ok", "listener threw"} : signInEnds(c, result)
  /\ UNCHANGED <<sid, used, bff>>
---------------------------------------------------------------------------
(* refreshTokens and logout *)

refreshTokens(f) ==
  /\ pc[f] = "idle"
  /\ used' = [used EXCEPT ![f] = session]
  /\ \/ session # NoToken /\ send(f, "refresh", 0) /\ UNCHANGED outcome
     \/ session = NoToken /\ settle(f, "no session")
  /\ UNCHANGED <<session, draft, loading, sid, bff>>

refreshed(f) ==
  /\ Succeeded(f, "refresh")
  /\ persistAuthSession(inbox[f].token)
  /\ settle(f, "ok")
  /\ UNCHANGED <<draft, loading, sid, used, bff>>

logout(l) ==
  /\ pc[l] = "idle"
  /\ used' = [used EXCEPT ![l] = session]
  /\ \/ session # NoToken /\ send(l, "logout", 0) /\ UNCHANGED <<session, outcome>>
     \/ session = NoToken /\ settle(l, "ok") /\ clearAuthSession
  /\ UNCHANGED <<draft, loading, sid, bff>>

loggedOut(l) ==
  /\ Succeeded(l, "logout")
  /\ clearAuthSession
  /\ settle(l, "ok")
  /\ UNCHANGED <<draft, loading, sid, used, bff>>

\* request has no retry: a failed fetch, a refusal or a body cut off is thrown
\* to the caller, and the session stays as it is.
requestFails(c, op) ==
  /\ \/ Refused(c, op) /\ settle(c, inbox[c].result)
     \/ pc[c] = op /\ ~Refused(c, op) /\ settle(c, "unreachable")
  /\ UNCHANGED <<session, draft, loading, sid, used, bff>>

\* The page is loaded again: its calls are gone, the sessionStorage is not.
reload ==
  LET gone == {c \in Calls : pc[c] \notin {"idle", "done"}} IN
  /\ gone # {}
  /\ pc' = [c \in Calls |-> IF c \in gone THEN "done" ELSE pc[c]]
  /\ outcome' = [c \in Calls |-> IF c \in gone THEN "reloaded" ELSE outcome[c]]
  /\ inbox' = [c \in Calls |-> NoAnswer]
  /\ loading' = FALSE
  /\ UNCHANGED <<session, draft, attempt, sid, used, wire, bff>>
---------------------------------------------------------------------------
(* The BFF and the network *)

\* The answer to m reaches the tab only if it still waits for that attempt.
answer(m, result, t) ==
  /\ wire' = wire \ {m}
  /\ inbox' = IF pc[m.call] = m.op /\ attempt[m.call] = m.n
                THEN [inbox EXCEPT ![m.call] = [result |-> result, token |-> t]]
                ELSE inbox

lost(m) ==
  /\ wire' = wire \ {m}
  /\ UNCHANGED <<tab, inbox, bff>>

serveInitiate(m) ==
  /\ m.op = "initiate"
  /\ \/ /\ opened' = opened \union {<<m.call, m.n>>}
        /\ answer(m, "ok", NoToken) \/ answer(m, "broken", NoToken)
     \/ /\ answer(m, "rejected", NoToken) \/ answer(m, "broken", NoToken)
        /\ UNCHANGED opened
  /\ UNCHANGED <<tab, live, recent, excused>>

\* The read an exchange or a refresh begins with.  A miss is refused, and so is
\* a refresh whose read fails.
Found(m) == IF m.op = "exchange" THEN <<m.call, sid[m.call]>> \in opened
                                 ELSE used[m.call] \in live
serveRead(m) ==
  /\ m.op \in {"exchange", "refresh"} /\ ~m.read
  /\ \/ /\ Found(m)
        /\ wire' = (wire \ {m}) \union {[m EXCEPT !.read = TRUE]}
        /\ UNCHANGED inbox
     \/ /\ m.op = "refresh" \/ ~Found(m)
        /\ answer(m, "rejected", NoToken)
     \/ answer(m, "broken", NoToken)
  /\ UNCHANGED <<tab, bff>>

\* signRefreshToken for attempt n of call c adds t to the tokens in rest: a
\* new text, or the one another call of this second was given.  Users are not
\* told apart, so a second may also have several texts.
storeToken(c, n, t, rest) ==
  /\ t \in {<<c, n>>} \union recent
  /\ live' = rest \union {t}
  /\ recent' = recent \union {t}
  /\ excused' = IF t \in recent THEN excused \union {t} ELSE excused

\* The session is consumed, then the checks pass or not, then the token is
\* stored or not.
serveExchange(m) ==
  /\ m.op = "exchange" /\ m.read
  /\ \/ /\ opened' = opened \ {<<m.call, sid[m.call]>>}
        /\ \/ \E t \in Tokens :
                /\ storeToken(m.call, m.n, t, live)
                /\ answer(m, "ok", t) \/ answer(m, "broken", NoToken)
           \/ /\ answer(m, "rejected", NoToken) \/ answer(m, "broken", NoToken)
              /\ UNCHANGED <<live, recent, excused>>
     \/ UNCHANGED <<opened, live, recent, excused>> /\ answer(m, "broken", NoToken)
  /\ UNCHANGED tab

\* The token is revoked, then another is stored.
serveRefresh(m) ==
  /\ m.op = "refresh" /\ m.read
  /\ LET rest == live \ {used[m.call]} IN
       \/ \E t \in Tokens :
            /\ storeToken(m.call, m.n, t, rest)
            /\ answer(m, "ok", t) \/ answer(m, "broken", NoToken)
       \/ /\ live' \in {live, rest} /\ UNCHANGED <<recent, excused>>
          /\ answer(m, "broken", NoToken)
  /\ UNCHANGED <<tab, opened>>

serveLogout(m) ==
  /\ m.op = "logout"
  /\ \/ live' = live \ {used[m.call]} /\ answer(m, "ok", NoToken)
     \/ live' \in {live, live \ {used[m.call]}} /\ answer(m, "broken", NoToken)
  /\ UNCHANGED <<tab, opened, recent, excused>>

\* The second in which the recent tokens were signed is over.
secondPasses ==
  /\ recent # {} /\ recent' = {}
  /\ UNCHANGED <<tab, wire, inbox, opened, live, excused>>

expire ==
  /\ \/ /\ \E s \in opened : opened' = opened \ {s}
        /\ UNCHANGED <<live, excused>>
     \/ /\ \E t \in live : live' = live \ {t} /\ excused' = excused \union {t}
        /\ UNCHANGED opened
  /\ UNCHANGED <<tab, wire, inbox, recent>>
---------------------------------------------------------------------------
Start ==
  \/ \E c \in SignIns : signIn(c)
  \/ \E f \in Refreshes : refreshTokens(f)
  \/ \E l \in Logouts : logout(l)

SignInStep(c) ==
  \/ \E op \in {"initiate", "exchange"} :
       backoff(c, op) \/ retry(c, op) \/ giveUp(c, op) \/ signInFails(c, op)
  \/ savePkceSession(c) \/ signedIn(c)
RefreshStep(f) == refreshed(f) \/ requestFails(f, "refresh")
LogoutStep(l) == loggedOut(l) \/ requestFails(l, "logout")

Serve ==
  \E m \in wire :
    \/ lost(m) \/ serveInitiate(m) \/ serveRead(m) \/ serveExchange(m)
    \/ serveRefresh(m) \/ serveLogout(m)

Next ==
  \/ Start
  \/ \E c \in SignIns : SignInStep(c)
  \/ \E f \in Refreshes : RefreshStep(f)
  \/ \E l \in Logouts : LogoutStep(l)
  \/ reload \/ Serve \/ expire \/ secondPasses

Spec == Init /\ [][Next]_vars

\* The timer of a backoff fires.  Nothing is assumed of the network: no timer
\* bounds a fetch or the reading of its body.
FairSpec ==
  /\ Spec
  /\ \A c \in SignIns : WF_vars(\E op \in {"initiate", "exchange"} : retry(c, op))
---------------------------------------------------------------------------
(* Correctness *)

\* However sign-ins, refreshes and logouts of the tab overlap, the refresh
\* token it keeps is one the BFF accepts, unless a refresh or logout that
\* presented it is under way or ended without an answer that says so
\* (session.ts is only written on answers, and no answer is written twice).
\* Not so for a text that has expired, or that two calls of one second were
\* both given: a logout with the one revokes the other.
Spent(t) ==
  \E c \in Refreshes \union Logouts :
    used[c] = t /\ outcome[c] \notin {"ok", "rejected", "no session"}
SessionUsable ==
  session # NoToken /\ ~Spent(session) /\ session \notin excused =>
    session \in live

\* A sign-in that ends refused has no token stored by the attempt that was
\* refused or a later one; what it left in the BFF is of attempts before that,
\* whose fetch failed after they were carried out (withRetry repeats the
\* exchange, and the repeated one finds the session used up).
RefusalLeavesNothing ==
  \A c \in SignIns, n \in Attempts :
    outcome[c] = "rejected" /\ n >= attempt[c] => <<c, n>> \notin live

\* The form is not left disabled: loading ends with the last sign-in.
SpinnerStops ==
  loading => \E c \in SignIns : pc[c] \notin {"idle", "done"}

\* In the end a call that was made has ended, or waits for ever for an answer,
\* or the body of one, that does not come (withRetry repeats a request a bounded
\* number of times and no backoff is the last that is heard of a sign-in; a
\* request is never aborted).
CallsEndOrWait ==
  \A c \in Calls : <>[](pc[c] \in {"idle", "done"} \union Awaits)
===========================================================================
