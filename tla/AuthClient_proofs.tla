------------------------- MODULE AuthClient_proofs -------------------------
(* Invariants of AuthClient for any number of overlapping sign-ins,        *)
(* refreshes and logouts and any number of retries.                        *)
EXTENDS AuthClient, TLAPS

Minters == SignIns \union Refreshes
Presenters == Refreshes \union Logouts
Unheard == {"broken", "unreachable", "reloaded"}

\* Where a call of each kind can be; only ended calls have an outcome.
Places ==
  /\ \A c \in SignIns :
       /\ pc[c] \in {"idle", "initiate", "retry initiate", "exchange",
                     "retry exchange", "done"}
       /\ pc[c] \in {"retry initiate", "retry exchange"} => attempt[c] < maxRetries
  /\ \A f \in Refreshes : pc[f] \in {"idle", "refresh", "done"}
  /\ \A l \in Logouts : pc[l] \in {"idle", "logout", "done"}
  /\ \A c \in Presenters : attempt[c] = 0
  /\ \A c \in Calls : pc[c] # "done" => outcome[c] = "none"

\* A request belongs to a call of its kind and is no later than the attempt
\* its call is at; that of a refresh or logout is awaited or given up.
KindOK(m) ==
  /\ m.op \in {"initiate", "exchange"} => m.call \in SignIns
  /\ m.op = "refresh" => m.call \in Refreshes
  /\ m.op = "logout" => m.call \in Logouts
  /\ m.call \in Presenters => m.n = 0
TimeOK(m) ==
  /\ pc[m.call] # "idle"
  /\ m.op = "exchange" => pc[m.call] \in {"exchange", "retry exchange", "done"}
  /\ pc[m.call] \in {m.op, Backoff(m.op)} => m.n <= attempt[m.call]
  /\ m.call \in Presenters =>
       \/ pc[m.call] = m.op /\ inbox[m.call] = NoAnswer
       \/ outcome[m.call] \in {"unreachable", "reloaded"}
Requests == \A m \in wire : KindOK(m) /\ TimeOK(m)
OneRequest ==
  \A m, k \in wire :
    m.call = k.call /\ m.op = k.op /\ m.n = k.n => m = k

\* An answer is for the attempt that is awaited; only exchange and refresh
\* are answered with a token.
AnswerOK(c) ==
  inbox[c] # NoAnswer =>
    /\ pc[c] \in Awaits
    /\ \A m \in wire : ~(m.call = c /\ m.op = pc[c] /\ m.n = attempt[c])
    /\ inbox[c].token \in Tokens <=>
         inbox[c].result = "ok" /\ pc[c] \in {"exchange", "refresh"}
Inbox == \A c \in Calls : AnswerOK(c)

Holds(c, t) == inbox[c] # NoAnswer /\ inbox[c].token = t
Seen(t) ==
  \/ session = t
  \/ \E c \in Presenters : used[c] = t
  \/ \E c \in Calls : Holds(c, t)
  \/ t \in recent

\* Attempt n of the exchange of c, or the request of a refresh, is not sent.
Pending(c, n) ==
  \/ pc[c] \in {"idle", "initiate", "retry initiate"}
  \/ pc[c] \in {"exchange", "retry exchange"} /\ n > attempt[c]

\* A request is still to be answered with a token of its own name: nobody has
\* seen it, and no call of this second was given it.
Fresh == \A m \in wire : m.op \in {"exchange", "refresh"} => ~Seen(<<m.call, m.n>>)
NotYet == \A c \in Minters, n \in Attempts : Pending(c, n) => ~Seen(<<c, n>>)

\* A token on its way to the tab is nowhere else.
OneHolder ==
  \A c \in Calls, t \in Tokens \ excused : Holds(c, t) =>
    /\ session # t
    /\ \A g \in Presenters : used[g] # t
    /\ \A d \in Calls : Holds(d, t) => d = c

\* The token the tab has, or is about to have, is live, or somebody who
\* presented it had it revoked and the tab has not heard the end of that.
Known(t) == session = t \/ \E c \in Calls : Holds(c, t)
CausedBy(g, t) ==
  /\ used[g] = t
  /\ \/ outcome[g] \in Unheard
     \/ inbox[g] # NoAnswer /\ inbox[g].result \in {"ok", "broken"}
Cause(t) == \E g \in Presenters : CausedBy(g, t)
Kept == \A t \in Tokens \ excused : Known(t) => t \in live \/ Cause(t)

\* Only a logout without a session ends well with nothing presented.
PresentedBy(c) ==
  used[c] = NoToken => pc[c] = "idle" \/ outcome[c] \in {"ok", "no session"}
Presented == \A c \in Presenters : PresentedBy(c)

Shape == TypeOK /\ Places /\ Requests /\ OneRequest /\ Inbox
Flow == Fresh /\ NotYet /\ OneHolder /\ Kept /\ Presented
IInv == Shape /\ Flow

LEMMA InitIInv == Init => IInv
<1> SUFFICES ASSUME Init PROVE IInv
  OBVIOUS
<1>a. 0 \in Attempts
  BY Retries DEF Attempts
<1>1. TypeOK
  BY <1>a DEF Init, TypeOK, Outcomes
<1>2. Places /\ Requests /\ OneRequest /\ Inbox
  BY DEF Init, Places, Requests, OneRequest, Inbox, AnswerOK, Presenters, Calls
<1>3. \A t \in Tokens : ~Seen(t)
  BY NullValues DEF Init, Seen, Holds, Presenters, Calls
<1>4. \A c \in Minters, n \in Attempts : <<c, n>> \in Tokens
  BY DEF Minters, Tokens
<1>5. Fresh /\ NotYet
  BY <1>3, <1>4 DEF Init, Fresh, NotYet
<1>6. OneHolder /\ Kept
  BY <1>3 DEF OneHolder, Kept, Known, Seen
<1>7. Presented
  BY DEF Init, Presented, PresentedBy, Presenters, Calls
<1> QED BY <1>1, <1>2, <1>5, <1>6, <1>7 DEF IInv, Shape, Flow
---------------------------------------------------------------------------
(* What a step of the tab has to do with tokens. *)

Same(d) ==
  /\ pc'[d] = pc[d] /\ attempt'[d] = attempt[d]
  /\ inbox'[d] = inbox[d] /\ outcome'[d] = outcome[d]
Sent(m) ==   \* m is, up to being read, an old request or one not sent yet
  \/ Pending(m.call, m.n)
  \/ \E k \in wire : k.op = m.op /\ k.call = m.call /\ k.n = m.n
ClientMove(c) ==
  /\ \A d \in Calls \ {c} : Same(d)
  /\ inbox'[c] = NoAnswer
  /\ live' = live /\ recent' = recent /\ excused' = excused
  /\ session' \in {session, NoToken} \/ Holds(c, session')
  /\ \A g \in Presenters : used'[g] \in {used[g], session}
  /\ \A n \in Attempts : Pending(c, n)' => Pending(c, n)
  /\ \A m \in wire' : m.op \in {"exchange", "refresh"} => Sent(m)

LEMMA FreshKept ==
  ASSUME Fresh, NotYet, wire' \subseteq Messages,
         \A m \in wire' : m.op \in {"exchange", "refresh"} =>
           m.call \in Minters /\ Sent(m),
         \A t \in Tokens : Seen(t)' => Seen(t)
  PROVE  Fresh'
<1> SUFFICES ASSUME NEW m \in wire', m.op \in {"exchange", "refresh"},
                    Seen(<<m.call, m.n>>)'
             PROVE  FALSE
  BY DEF Fresh
<1>1. m.call \in Minters /\ m.n \in Attempts /\ Sent(m)
  BY DEF Messages
<1>2. Seen(<<m.call, m.n>>)
  BY <1>1 DEF Minters, Tokens
<1>3. ~Pending(m.call, m.n)
  BY <1>1, <1>2 DEF NotYet
<1> QED BY <1>1, <1>2, <1>3 DEF Sent, Fresh

LEMMA NotYetKept ==
  ASSUME NotYet,
         \A c \in Minters, n \in Attempts : Pending(c, n)' => Pending(c, n),
         \A t \in Tokens : Seen(t)' => Seen(t)
  PROVE  NotYet'
<1> \A c \in Minters, n \in Attempts : <<c, n>> \in Tokens
  BY DEF Minters, Tokens
<1> QED BY DEF NotYet

LEMMA OneHolderKept ==
  ASSUME OneHolder, excused \subseteq excused',
         \A c \in Calls, t \in Tokens : Holds(c, t)' => Holds(c, t),
         \A t \in Tokens : session' = t =>
           session = t \/ (\E d \in Calls : Holds(d, t) /\ ~Holds(d, t)'),
         \A g \in Presenters, t \in Tokens : used'[g] = t => used[g] = t \/ session = t
  PROVE  OneHolder'
<1> SUFFICES ASSUME NEW c \in Calls, NEW t \in Tokens \ excused', Holds(c, t)'
             PROVE  /\ session' # t
                    /\ \A g \in Presenters : used'[g] # t
                    /\ \A d \in Calls : Holds(d, t)' => d = c
  BY DEF OneHolder
<1>1. Holds(c, t) /\ t \in Tokens \ excused
  OBVIOUS
<1>2. /\ session # t
      /\ \A g \in Presenters : used[g] # t
      /\ \A d \in Calls : Holds(d, t) => d = c
  BY <1>1 DEF OneHolder
<1> QED BY <1>1, <1>2

LEMMA KeptKept ==
  ASSUME Kept, excused \subseteq excused',
         \A t \in Tokens : Known(t)' => Known(t),
         \A t \in Tokens \ excused' : Known(t)' =>
           /\ t \in live => t \in live' \/ Cause(t)'
           /\ Cause(t) => t \in live' \/ Cause(t)'
  PROVE  Kept'
BY DEF Kept

\* A step of the tab on call c, which is no refresh or logout, or else has an
\* answer that revoked nothing, hears of its failure, or gives its token up.
LEMMA ClientFlow ==
  ASSUME IInv, NEW c \in Calls, ClientMove(c), wire' \subseteq Messages,
         \A m \in wire' : m.op \in {"exchange", "refresh"} => m.call \in Minters,
         \A g \in Presenters : g # c => used'[g] = used[g],
         c \in Presenters => PresentedBy(c)',
         \A t \in Tokens \ excused :
           c \in Presenters /\ CausedBy(c, t) /\ Known(t)' => CausedBy(c, t)'
  PROVE  Flow'
<1> Fresh /\ NotYet /\ OneHolder /\ Kept /\ Presented
  BY DEF IInv, Flow
<1>1. \A d \in Calls, t \in Tokens : Holds(d, t)' => Holds(d, t) /\ d # c
  BY DEF ClientMove, Same, Holds
<1>2. \A t \in Tokens : session' = t =>
        session = t \/ (Holds(c, t) /\ ~Holds(c, t)')
  BY <1>1, NullValues DEF ClientMove
<1>3. \A t \in Tokens : Seen(t)' => Seen(t)
  BY <1>1, <1>2 DEF Seen, ClientMove
<1>4. \A t \in Tokens : Known(t)' => Known(t)
  BY <1>1, <1>2 DEF Known
<1>5. \A d \in Calls, n \in Attempts : Pending(d, n)' => Pending(d, n)
  <2> SUFFICES ASSUME NEW d \in Calls, NEW n \in Attempts, Pending(d, n)'
               PROVE  Pending(d, n)
    OBVIOUS
  <2>1. CASE d = c
    BY <2>1 DEF ClientMove
  <2>2. CASE d # c
    BY <2>2 DEF ClientMove, Same, Pending
  <2> QED BY <2>1, <2>2
<1>6. Fresh'
  BY <1>3, FreshKept DEF ClientMove
<1>7. NotYet'
  BY <1>3, <1>5, NotYetKept DEF Minters, Calls
<1>8. OneHolder'
  <2>1. excused \subseteq excused'
    BY DEF ClientMove
  <2>2. \A g \in Presenters, t \in Tokens : used'[g] = t => used[g] = t \/ session = t
    BY DEF ClientMove
  <2> QED BY <1>1, <1>2, <2>1, <2>2, OneHolderKept
<1>9. Kept'
  <2>1. excused' = excused /\ live' = live
    BY DEF ClientMove
  <2>2. ASSUME NEW t \in Tokens \ excused', Known(t)', Cause(t)
        PROVE  Cause(t)'
    <3>1. PICK g \in Presenters : CausedBy(g, t)
      BY <2>2 DEF Cause
    <3>2. CASE g = c
      BY <2>1, <2>2, <3>1, <3>2 DEF Cause
    <3>3. CASE g # c
      <4>1. Same(g) /\ used'[g] = used[g]
        BY <3>3 DEF ClientMove, Presenters, Calls
      <4> QED BY <3>1, <4>1 DEF Cause, CausedBy, Same
    <3> QED BY <3>2, <3>3
  <2> QED BY <1>4, <2>1, <2>2, KeptKept
<1>10. Presented'
  <2> SUFFICES ASSUME NEW g \in Presenters PROVE PresentedBy(g)'
    BY DEF Presented
  <2>1. CASE g = c
    BY <2>1
  <2>2. CASE g # c
    BY <2>2 DEF Presented, PresentedBy, ClientMove, Same, Presenters, Calls
  <2> QED BY <2>1, <2>2
<1> QED BY <1>6, <1>7, <1>8, <1>9, <1>10 DEF Flow
---------------------------------------------------------------------------
(* The shape of the state after a request is sent, a call settles. *)

LEMMA AttemptsNat == \A n \in Attempts : n \in Nat /\ n <= n /\ ~(n < n)
BY Retries DEF Attempts

LEMMA LessAtMost == \A i, j \in Nat : i < j => i <= j
OBVIOUS

LEMMA TimeKept ==
  ASSUME NEW m, TimeOK(m), Same(m.call) PROVE TimeOK(m)'
BY DEF TimeOK, Same

LEMMA SendShape ==
  ASSUME Shape, NEW c \in Calls, NEW op \in Awaits, NEW n \in Attempts,
         send(c, op, n), UNCHANGED outcome,
         KindOK([call |-> c, op |-> op, n |-> n, read |-> FALSE]),
         pc[c] # "done",
         \A m \in wire : m.call = c =>
           /\ c \notin Presenters
           /\ pc[c] \in {"initiate", "retry initiate"} => m.op # "exchange"
           /\ m.op = op => m.n < n
           /\ m.op = "exchange" => op = "exchange"
  PROVE  /\ pc' \in [Calls -> Awaits \union Backoffs \union {"idle", "done"}]
         /\ attempt' \in [Calls -> Attempts]
         /\ wire' \subseteq Messages
         /\ inbox' \in [Calls -> Answers \union {NoAnswer}]
         /\ \A d \in Calls \ {c} : Same(d)
         /\ pc'[c] = op /\ attempt'[c] = n /\ inbox'[c] = NoAnswer
         /\ wire' = wire \union {[call |-> c, op |-> op, n |-> n, read |-> FALSE]}
         /\ Places' /\ Requests' /\ OneRequest' /\ Inbox'
<1> DEFINE new == [call |-> c, op |-> op, n |-> n, read |-> FALSE]
<1> TypeOK /\ Places /\ Requests /\ OneRequest /\ Inbox
  BY DEF Shape
<1>0. /\ pc' = [pc EXCEPT ![c] = op]
      /\ attempt' = [attempt EXCEPT ![c] = n]
      /\ wire' = wire \union {new}
      /\ inbox' = [inbox EXCEPT ![c] = NoAnswer]
  BY DEF send
<1>1. pc' \in [Calls -> Awaits \union Backoffs \union {"idle", "done"}]
  BY <1>0 DEF TypeOK
<1>2. attempt' \in [Calls -> Attempts]
  BY <1>0 DEF TypeOK
<1>3. wire' \subseteq Messages
  <2>1. new \in Messages
    BY DEF Messages
  <2> QED BY <1>0, <2>1 DEF TypeOK
<1>4. inbox' \in [Calls -> Answers \union {NoAnswer}]
  BY <1>0 DEF TypeOK
<1>5. \A d \in Calls \ {c} : Same(d)
  BY <1>0 DEF Same, TypeOK
<1>6. pc'[c] = op /\ attempt'[c] = n /\ inbox'[c] = NoAnswer
  BY <1>0 DEF TypeOK
<1>7. Requests'
  <2> SUFFICES ASSUME NEW m \in wire' PROVE KindOK(m)' /\ TimeOK(m)'
    BY DEF Requests
  <2>1. CASE m \in wire /\ m.call # c
    <3>1. KindOK(m) /\ TimeOK(m) /\ m.call \in Calls
      BY <2>1 DEF Requests, TypeOK, Messages
    <3>2. Same(m.call)
      BY <2>1, <3>1, <1>5
    <3>3. TimeOK(m)'
      BY <3>1, <3>2, TimeKept
    <3> QED BY <3>1, <3>3 DEF KindOK
  <2>2. CASE m \in wire /\ m.call = c
    <3>0. m.n \in Nat /\ n \in Nat
      BY <2>2, AttemptsNat DEF TypeOK, Messages
    <3>1. KindOK(m) /\ TimeOK(m)
      BY <2>2 DEF Requests
    <3>2. c \notin Presenters
      BY <2>2
    <3>3. op # "idle" /\ op \notin Backoffs /\ op # "done"
      BY DEF Awaits, Backoffs
    <3>4. m.op = "exchange" => op = "exchange"
      BY <2>2
    <3>5. op \in {m.op, Backoff(m.op)} => m.n <= n
      <4>1. op \in {m.op, Backoff(m.op)} => op = m.op
        BY <3>3 DEF Backoff, Backoffs
      <4>2. m.op = op => m.n < n
        BY <2>2
      <4> QED BY <4>1, <4>2, <3>0, LessAtMost
    <3>6. TimeOK(m)'
      BY <2>2, <3>2, <3>3, <3>4, <3>5, <1>6 DEF TimeOK
    <3> QED BY <3>1, <3>6 DEF KindOK
  <2>3. CASE m = new
    <3>1. m.call = c /\ m.op = op /\ m.n = n
      BY <2>3
    <3>2. n <= n
      BY AttemptsNat
    <3>3. TimeOK(m)'
      BY <3>1, <3>2, <1>6 DEF TimeOK, Awaits
    <3> QED BY <2>3, <3>3 DEF KindOK
  <2> QED BY <1>0, <2>1, <2>2, <2>3
<1>8. OneRequest'
  <2> SUFFICES ASSUME NEW m \in wire', NEW k \in wire',
                      m.call = k.call, m.op = k.op, m.n = k.n
               PROVE  m = k
    BY DEF OneRequest
  <2>1. \A j \in wire : ~(j.call = c /\ j.op = op /\ j.n = n)
    <3> SUFFICES ASSUME NEW j \in wire, j.call = c, j.op = op, j.n = n PROVE FALSE
      OBVIOUS
    <3>1. j.n < n
      OBVIOUS
    <3>2. ~(n < n)
      BY AttemptsNat
    <3> QED BY <3>1, <3>2
  <2>2. m \in wire \/ m = new
    BY <1>0
  <2>3. k \in wire \/ k = new
    BY <1>0
  <2>4. m \in wire /\ k \in wire => m = k
    BY DEF OneRequest
  <2>5. new.call = c /\ new.op = op /\ new.n = n
    OBVIOUS
  <2>6. m = new => k = new
    BY <2>1, <2>3, <2>5
  <2>7. k = new => m = new
    BY <2>1, <2>2, <2>5
  <2> QED BY <2>2, <2>3, <2>4, <2>6, <2>7
<1>9. Inbox'
  <2> SUFFICES ASSUME NEW d \in Calls, (inbox[d] # NoAnswer)' PROVE AnswerOK(d)'
    BY DEF Inbox, AnswerOK
  <2>1. d # c /\ Same(d)
    BY <1>5, <1>6
  <2>2. AnswerOK(d) /\ inbox[d] # NoAnswer
    BY <2>1 DEF Inbox, Same
  <2>0. new.call = c
    OBVIOUS
  <2>3. \A m \in wire' : m.call = d => m \in wire
    BY <1>0, <2>0, <2>1
  <2> QED BY <2>1, <2>2, <2>3 DEF AnswerOK, Same
<1>10. Places'
  <2>1. /\ c \in SignIns => op \in {"initiate", "exchange"}
        /\ c \in Refreshes => op = "refresh"
        /\ c \in Logouts => op = "logout"
        /\ c \in Presenters => n = 0
    BY CallsAreDisjoint DEF KindOK, Awaits
  <2>2. outcome'[c] = "none"
    BY DEF Places
  <2>3. \A d \in SignIns : pc'[d] \in {"retry initiate", "retry exchange"} =>
                             attempt'[d] < maxRetries
    BY <1>5, <1>6, <2>1 DEF Places, Same, Calls
  <2> QED BY <1>5, <1>6, <2>1, <2>2, <2>3 DEF Places, Same, Calls, Presenters
<1> QED BY <1>0, <1>1, <1>2, <1>3, <1>4, <1>5, <1>6, <1>7, <1>8, <1>9, <1>10

LEMMA SettleShape ==
  ASSUME Shape, NEW c \in Calls, NEW result \in Outcomes, settle(c, result),
         \A m \in wire : m.call = c =>
           /\ pc[c] # "idle"
           /\ c \in Presenters => result \in {"unreachable", "reloaded"}
  PROVE  /\ pc' \in [Calls -> Awaits \union Backoffs \union {"idle", "done"}]
         /\ outcome' \in [Calls -> Outcomes]
         /\ inbox' \in [Calls -> Answers \union {NoAnswer}]
         /\ \A d \in Calls \ {c} : Same(d)
         /\ pc'[c] = "done" /\ outcome'[c] = result /\ inbox'[c] = NoAnswer
         /\ Places' /\ Requests' /\ OneRequest' /\ Inbox'
<1> TypeOK /\ Places /\ Requests /\ OneRequest /\ Inbox
  BY DEF Shape
<1>0. /\ pc' = [pc EXCEPT ![c] = "done"]
      /\ outcome' = [outcome EXCEPT ![c] = result]
      /\ inbox' = [inbox EXCEPT ![c] = NoAnswer]
      /\ attempt' = attempt /\ wire' = wire
  BY DEF settle
<1>1. /\ pc' \in [Calls -> Awaits \union Backoffs \union {"idle", "done"}]
      /\ outcome' \in [Calls -> Outcomes]
      /\ inbox' \in [Calls -> Answers \union {NoAnswer}]
  BY <1>0 DEF TypeOK
<1>2. \A d \in Calls \ {c} : Same(d)
  BY <1>0 DEF TypeOK, Same
<1>3. pc'[c] = "done" /\ outcome'[c] = result /\ inbox'[c] = NoAnswer
  BY <1>0 DEF TypeOK
<1>4. Places'
  BY <1>0, <1>2, <1>3 DEF Places, Same, Calls, Presenters
<1>5. Requests'
  <2> SUFFICES ASSUME NEW m \in wire PROVE KindOK(m)' /\ TimeOK(m)'
    BY <1>0 DEF Requests
  <2>1. KindOK(m) /\ TimeOK(m) /\ m.call \in Calls /\ m.op \in Awaits
    BY DEF Requests, TypeOK, Messages
  <2>2. CASE m.call # c
    BY <2>1, <2>2, <1>2, TimeKept DEF KindOK
  <2>3. CASE m.call = c
    <3>1. "done" \notin {m.op, Backoff(m.op)}
      BY <2>1 DEF Awaits, Backoff
    <3> QED BY <2>1, <2>3, <3>1, <1>3 DEF KindOK, TimeOK
  <2> QED BY <2>2, <2>3
<1>6. OneRequest'
  BY <1>0 DEF OneRequest
<1>7. Inbox'
  <2> SUFFICES ASSUME NEW d \in Calls, (inbox[d] # NoAnswer)' PROVE AnswerOK(d)'
    BY DEF Inbox, AnswerOK
  <2>1. d # c /\ Same(d)
    BY <1>2, <1>3
  <2>2. AnswerOK(d) /\ inbox[d] # NoAnswer
    BY <2>1 DEF Inbox, Same
  <2> QED BY <2>1, <2>2, <1>0 DEF AnswerOK, Same
<1> QED BY <1>1, <1>2, <1>3, <1>4, <1>5, <1>6, <1>7

\* A refresh or logout that has been answered has no request left.
LEMMA AnsweredOnce ==
  ASSUME Shape, NEW c \in Presenters, pc[c] \in {"refresh", "logout"},
         inbox[c] # NoAnswer, NEW m \in wire
  PROVE  m.call # c
<1> Places /\ Requests /\ Inbox /\ TypeOK
  BY DEF Shape
<1> SUFFICES ASSUME m.call = c PROVE FALSE
  OBVIOUS
<1>1. KindOK(m) /\ TimeOK(m) /\ c \in Calls
  BY DEF Requests, Presenters, Calls
<1>2. pc[c] # "done" /\ outcome[c] = "none"
  BY <1>1 DEF Places
<1> QED BY <1>1, <1>2 DEF TimeOK
---------------------------------------------------------------------------
(* The steps of the tab. *)

\* What the step on call c leaves alone, and where the session comes from.
TabFrame(c) ==
  /\ live' = live /\ recent' = recent /\ excused' = excused
  /\ session' \in {session, NoToken} \/ Holds(c, session')
  /\ \A g \in Presenters : used'[g] \in {used[g], session}
  /\ \A g \in Presenters : g # c => used'[g] = used[g]

LEMMA SendFlow ==
  ASSUME IInv, NEW c \in Calls, NEW op \in Awaits, NEW n \in Attempts,
         TabFrame(c), \A d \in Calls \ {c} : Same(d), inbox'[c] = NoAnswer,
         wire' = wire \union {[call |-> c, op |-> op, n |-> n, read |-> FALSE]},
         wire' \subseteq Messages, Requests',
         op \in {"exchange", "refresh"} => Pending(c, n),
         \A k \in Attempts : Pending(c, k)' => Pending(c, k),
         c \in Presenters => pc[c] = "idle" /\ used'[c] # NoToken
  PROVE  Flow'
<1> DEFINE new == [call |-> c, op |-> op, n |-> n, read |-> FALSE]
<1>1. \A m \in wire' : m.op \in {"exchange", "refresh"} => Sent(m)
  <2>1. Sent(new) \/ op \notin {"exchange", "refresh"}
    BY DEF Sent
  <2>2. \A m \in wire : Sent(m)
    BY DEF Sent
  <2>3. new.op = op
    OBVIOUS
  <2> QED BY <2>1, <2>2, <2>3
<1>2. ClientMove(c)
  BY <1>1 DEF ClientMove, TabFrame
<1>3. \A m \in wire' : m.op \in {"exchange", "refresh"} => m.call \in Minters
  BY DEF Requests, KindOK, Minters
<1>4. \A t \in Tokens : c \in Presenters => ~CausedBy(c, t)
  BY DEF IInv, Shape, Places, Inbox, AnswerOK, CausedBy, Unheard, Awaits
<1>5. c \in Presenters => PresentedBy(c)'
  BY DEF PresentedBy
<1> QED BY <1>2, <1>3, <1>4, <1>5, ClientFlow DEF TabFrame

LEMMA SettleFlow ==
  ASSUME IInv, NEW c \in Calls, TabFrame(c), \A d \in Calls \ {c} : Same(d),
         inbox'[c] = NoAnswer, wire' = wire, pc'[c] = "done",
         c \in Presenters => PresentedBy(c)',
         \A t \in Tokens \ excused :
           c \in Presenters /\ CausedBy(c, t) /\ Known(t)' => CausedBy(c, t)'
  PROVE  Flow'
<1>1. \A m \in wire' : Sent(m)
  BY DEF Sent
<1>2. \A n \in Attempts : ~Pending(c, n)'
  BY DEF Pending
<1>3. ClientMove(c)
  BY <1>1, <1>2 DEF ClientMove, TabFrame
<1>4. \A m \in wire' : m.op \in {"exchange", "refresh"} => m.call \in Minters
  BY DEF IInv, Shape, Requests, KindOK, Minters
<1>5. wire' \subseteq Messages
  BY DEF IInv, Shape, TypeOK
<1> QED BY <1>3, <1>4, <1>5, ClientFlow DEF TabFrame

LEMMA signInIInv ==
  ASSUME IInv, NEW c \in SignIns, signIn(c) PROVE IInv'
<1> Shape /\ TypeOK /\ Places /\ Requests /\ Inbox
  BY DEF IInv, Shape
<1> c \in Calls /\ c \notin Presenters /\ "initiate" \in Awaits
  BY CallsAreDisjoint DEF Calls, Presenters, Awaits
<1>0. 0 \in Attempts
  BY Retries DEF Attempts
<1>1. /\ pc[c] = "idle" /\ loading' = TRUE /\ send(c, "initiate", 0)
      /\ UNCHANGED <<session, draft, sid, used, outcome, opened, live, recent, excused>>
  BY DEF signIn, bff
<1>2. \A m \in wire : m.call # c
  BY <1>1 DEF Requests, TimeOK
<1>3. KindOK([call |-> c, op |-> "initiate", n |-> 0, read |-> FALSE])
  BY DEF KindOK
<1>4. /\ pc' \in [Calls -> Awaits \union Backoffs \union {"idle", "done"}]
      /\ attempt' \in [Calls -> Attempts]
      /\ wire' \subseteq Messages
      /\ inbox' \in [Calls -> Answers \union {NoAnswer}]
      /\ \A d \in Calls \ {c} : Same(d)
      /\ pc'[c] = "initiate" /\ attempt'[c] = 0 /\ inbox'[c] = NoAnswer
      /\ wire' = wire \union {[call |-> c, op |-> "initiate", n |-> 0, read |-> FALSE]}
      /\ Places' /\ Requests' /\ OneRequest' /\ Inbox'
  BY <1>0, <1>1, <1>2, <1>3, SendShape
<1>5. TypeOK'
  BY <1>1, <1>4 DEF TypeOK
<1>6. TabFrame(c)
  BY <1>1 DEF TabFrame
<1>7. Flow'
  <2>1. \A k \in Attempts : Pending(c, k)
    BY <1>1 DEF Pending
  <2> QED BY <1>0, <1>4, <1>6, <2>1, SendFlow
<1> QED BY <1>4, <1>5, <1>7 DEF IInv, Shape

LEMMA retryIInv ==
  ASSUME IInv, NEW c \in SignIns, NEW op \in {"initiate", "exchange"}, retry(c, op)
  PROVE  IInv'
<1> Shape /\ TypeOK /\ Places /\ Requests /\ Inbox
  BY DEF IInv, Shape
<1> c \in Calls /\ c \notin Presenters /\ op \in Awaits
  BY CallsAreDisjoint DEF Calls, Presenters, Awaits
<1> DEFINE n == attempt[c] + 1
<1>1. /\ pc[c] = Backoff(op) /\ send(c, op, n)
      /\ UNCHANGED <<session, draft, loading, sid, used, outcome, opened, live, recent, excused>>
  BY DEF retry, bff
<1>2. attempt[c] \in Nat /\ n \in Nat /\ attempt[c] < n /\ n \in Attempts
  <2>1. attempt[c] < maxRetries
    BY <1>1 DEF Places, Backoff
  <2> QED BY <2>1, Retries DEF TypeOK, Attempts
<1>3. \A k \in Attempts : k <= attempt[c] => k < n
  BY <1>2, AttemptsNat
<1>4. \A m \in wire : m.call = c =>
        /\ pc[c] \in {"initiate", "retry initiate"} => m.op # "exchange"
        /\ m.op = op => m.n < n
        /\ m.op = "exchange" => op = "exchange"
  <2> SUFFICES ASSUME NEW m \in wire, m.call = c
               PROVE  /\ pc[c] \in {"initiate", "retry initiate"} => m.op # "exchange"
                      /\ m.op = op => m.n < n
                      /\ m.op = "exchange" => op = "exchange"
    OBVIOUS
  <2>1. TimeOK(m) /\ m.n \in Attempts
    BY DEF Requests, TypeOK, Messages
  <2>2. m.op = op => m.n <= attempt[c]
    BY <1>1, <2>1 DEF TimeOK
  <2>3. m.op = "exchange" => pc[c] \in {"exchange", "retry exchange", "done"}
    BY <2>1 DEF TimeOK
  <2> HIDE DEF n
  <2> QED BY <1>1, <1>3, <2>1, <2>2, <2>3 DEF Backoff
<1>5. KindOK([call |-> c, op |-> op, n |-> n, read |-> FALSE])
  BY DEF KindOK
<1> HIDE DEF n
<1>6. /\ pc' \in [Calls -> Awaits \union Backoffs \union {"idle", "done"}]
      /\ attempt' \in [Calls -> Attempts]
      /\ wire' \subseteq Messages
      /\ inbox' \in [Calls -> Answers \union {NoAnswer}]
      /\ \A d \in Calls \ {c} : Same(d)
      /\ pc'[c] = op /\ attempt'[c] = n /\ inbox'[c] = NoAnswer
      /\ wire' = wire \union {[call |-> c, op |-> op, n |-> n, read |-> FALSE]}
      /\ Places' /\ Requests' /\ OneRequest' /\ Inbox'
  <2>1. pc[c] # "done"
    BY <1>1 DEF Backoff
  <2>2. send(c, op, n) /\ UNCHANGED outcome
    BY <1>1
  <2>3. \A m \in wire : m.call = c =>
          /\ c \notin Presenters
          /\ pc[c] \in {"initiate", "retry initiate"} => m.op # "exchange"
          /\ m.op = op => m.n < n
          /\ m.op = "exchange" => op = "exchange"
    BY <1>4
  <2> QED BY <1>2, <1>5, <2>1, <2>2, <2>3, SendShape
<1>7. TypeOK'
  BY <1>1, <1>6 DEF TypeOK
<1>8. TabFrame(c)
  BY <1>1 DEF TabFrame
<1>9. Flow'
  <2>1. \A i, j, k \in Nat : j < k /\ i > k => i > j
    OBVIOUS
  <2>2. \A k \in Attempts : k > n => k > attempt[c]
    BY <1>2, <2>1, AttemptsNat
  <2>3. \A i, j \in Nat : i < j => j > i
    OBVIOUS
  <2>4. n > attempt[c]
    BY <1>2, <2>3
  <2>5. op \in {"exchange", "refresh"} => Pending(c, n)
    BY <1>1, <2>4 DEF Pending, Backoff
  <2>6. \A k \in Attempts : Pending(c, k)' => Pending(c, k)
    BY <1>1, <1>6, <2>2 DEF Pending, Backoff
  <2> QED BY <1>2, <1>6, <1>8, <2>5, <2>6, SendFlow
<1> QED BY <1>6, <1>7, <1>9 DEF IInv, Shape

LEMMA backoffIInv ==
  ASSUME IInv, NEW c \in SignIns, NEW op \in {"initiate", "exchange"}, backoff(c, op)
  PROVE  IInv'
<1> Shape /\ TypeOK /\ Places /\ Requests /\ OneRequest /\ Inbox
  BY DEF IInv, Shape
<1> c \in Calls /\ c \notin Presenters /\ op \in Awaits
  BY CallsAreDisjoint DEF Calls, Presenters, Awaits
<1>1. /\ pc[c] = op /\ inbox[c] = NoAnswer /\ attempt[c] < maxRetries
      /\ pc' = [pc EXCEPT ![c] = Backoff(op)]
      /\ UNCHANGED <<session, draft, loading, attempt, sid, used, outcome, wire,
                     inbox, opened, live, recent, excused>>
  BY DEF backoff, Answered, attemptsLeft, bff
<1>2. pc' \in [Calls -> Awaits \union Backoffs \union {"idle", "done"}]
  BY <1>1 DEF TypeOK, Backoff, Backoffs
<1>3. TypeOK'
  BY <1>1, <1>2 DEF TypeOK
<1>4. pc'[c] = Backoff(op) /\ \A d \in Calls \ {c} : Same(d)
  BY <1>1 DEF TypeOK, Same
<1>5. Places'
  <2>1. Backoff(op) \in {"retry initiate", "retry exchange"}
    BY DEF Backoff
  <2>2. \A d \in SignIns :
          /\ pc'[d] \in {"idle", "initiate", "retry initiate", "exchange",
                         "retry exchange", "done"}
          /\ pc'[d] \in {"retry initiate", "retry exchange"} => attempt'[d] < maxRetries
    BY <1>1, <1>4, <2>1 DEF Places, Same, Calls
  <2>3. \A d \in Presenters : Same(d)
    BY <1>4 DEF Presenters, Calls
  <2>4. outcome'[c] = "none"
    BY <1>1 DEF Places
  <2> QED BY <1>1, <1>4, <2>2, <2>3, <2>4 DEF Places, Same, Presenters
<1>6. Requests'
  <2> SUFFICES ASSUME NEW m \in wire PROVE KindOK(m)' /\ TimeOK(m)'
    BY <1>1 DEF Requests
  <2>1. KindOK(m) /\ TimeOK(m) /\ m.call \in Calls /\ m.op \in Awaits
    BY DEF Requests, TypeOK, Messages
  <2>2. CASE m.call # c
    BY <2>1, <2>2, <1>4, TimeKept DEF KindOK
  <2>3. CASE m.call = c
    <3>1. pc'[c] # "idle"
      BY <1>4 DEF Backoff
    <3>2. m.op = "exchange" => pc'[c] \in {"exchange", "retry exchange", "done"}
      BY <1>1, <1>4, <2>1, <2>3 DEF TimeOK, Backoff
    <3>0. m.op \in {"initiate", "exchange"}
      BY <2>1, <2>3, CallsAreDisjoint DEF KindOK, Awaits
    <3>3. pc'[c] \in {m.op, Backoff(m.op)} => pc[c] \in {m.op, Backoff(m.op)}
      <4>0. \A i, j \in {"initiate", "exchange"} :
              i # j => Backoff(i) # j /\ Backoff(i) # Backoff(j)
        BY DEF Backoff
      <4>1. m.op # op => Backoff(op) \notin {m.op, Backoff(m.op)}
        BY <3>0, <4>0
      <4> QED BY <1>1, <1>4, <4>1
    <3>4. pc'[c] \in {m.op, Backoff(m.op)} => m.n <= attempt'[c]
      BY <1>1, <2>1, <2>3, <3>3 DEF TimeOK
    <3> QED BY <2>1, <2>3, <3>1, <3>2, <3>4 DEF KindOK, TimeOK
  <2> QED BY <2>2, <2>3
<1>7. OneRequest' /\ Inbox'
  <2>1. OneRequest'
    BY <1>1 DEF OneRequest
  <2>2. Inbox'
    BY <1>1, <1>4 DEF Inbox, AnswerOK, Same
  <2> QED BY <2>1, <2>2
<1>8. Flow'
  <2>1. \A m \in wire' : Sent(m)
    BY <1>1 DEF Sent
  <2>2. \A k \in Attempts : Pending(c, k)' => Pending(c, k)
    <3>1. CASE op = "initiate"
      BY <1>1, <3>1 DEF Pending
    <3>2. CASE op = "exchange"
      <4>1. pc[c] = "exchange" /\ pc'[c] = "retry exchange" /\ attempt' = attempt
        BY <1>1, <1>4, <3>2 DEF Backoff
      <4> QED BY <4>1 DEF Pending
    <3> QED BY <3>1, <3>2
  <2>3. ClientMove(c)
    BY <1>1, <1>4, <2>1, <2>2 DEF ClientMove
  <2>4. \A m \in wire' : m.op \in {"exchange", "refresh"} => m.call \in Minters
    BY <1>1 DEF Requests, KindOK, Minters
  <2>5. wire' \subseteq Messages /\ used' = used
    BY <1>1 DEF TypeOK
  <2> QED BY <2>3, <2>4, <2>5, ClientFlow
<1> QED BY <1>3, <1>5, <1>6, <1>7, <1>8 DEF IInv, Shape

\* The end of a sign-in.
LEMMA SignInEndsIInv ==
  ASSUME IInv, NEW c \in SignIns, NEW result \in Outcomes, signInEnds(c, result),
         pc[c] # "idle", TabFrame(c), session' \in Tokens \union {NoToken},
         draft' \in SignIns \union {NoDraft}, sid' \in [SignIns -> Attempts],
         UNCHANGED <<used, opened>>
  PROVE  IInv'
<1> Shape /\ TypeOK /\ Places /\ Requests /\ Inbox
  BY DEF IInv, Shape
<1> c \in Calls /\ c \notin Presenters
  BY CallsAreDisjoint DEF Calls, Presenters
<1>1. settle(c, result) /\ loading' = FALSE /\ attempt' = attempt /\ wire' = wire
  BY DEF signInEnds, settle
<1>2. /\ pc' \in [Calls -> Awaits \union Backoffs \union {"idle", "done"}]
      /\ outcome' \in [Calls -> Outcomes]
      /\ inbox' \in [Calls -> Answers \union {NoAnswer}]
      /\ \A d \in Calls \ {c} : Same(d)
      /\ pc'[c] = "done" /\ outcome'[c] = result /\ inbox'[c] = NoAnswer
      /\ Places' /\ Requests' /\ OneRequest' /\ Inbox'
  BY <1>1, SettleShape
<1>3. TypeOK'
  BY <1>1, <1>2 DEF TypeOK, TabFrame
<1>4. Flow'
  BY <1>1, <1>2, SettleFlow
<1> QED BY <1>2, <1>3, <1>4 DEF IInv, Shape

LEMMA giveUpIInv ==
  ASSUME IInv, NEW c \in SignIns, NEW op \in {"initiate", "exchange"}, giveUp(c, op)
  PROVE  IInv'
<1>1. pc[c] # "idle"
  BY DEF giveUp
<1>2. signInEnds(c, "unreachable") /\ UNCHANGED <<session, draft, sid, used, bff>>
  BY DEF giveUp
<1>3. TabFrame(c)
  BY <1>2 DEF TabFrame, bff
<1> QED BY <1>1, <1>2, <1>3, SignInEndsIInv DEF Outcomes, bff, IInv, Shape, TypeOK

LEMMA signInFailsIInv ==
  ASSUME IInv, NEW c \in SignIns, NEW op \in {"initiate", "exchange"},
         signInFails(c, op)
  PROVE  IInv'
<1> TypeOK /\ c \in Calls
  BY DEF IInv, Shape, Calls
<1>1. pc[c] # "idle" /\ inbox[c] \in Answers
  BY DEF signInFails, Refused, Succeeded, Answered, TypeOK
<1>2. PICK result \in Outcomes : signInEnds(c, result)
  BY <1>1 DEF signInFails, Answers, Results, Outcomes
<1>3. UNCHANGED <<session, draft, sid, used, bff>>
  BY DEF signInFails
<1>4. TabFrame(c)
  BY <1>3 DEF TabFrame, bff
<1> QED BY <1>1, <1>2, <1>3, <1>4, SignInEndsIInv DEF bff, TypeOK

LEMMA savePkceSessionIInv ==
  ASSUME IInv, NEW c \in SignIns, savePkceSession(c) PROVE IInv'
<1> Shape /\ TypeOK /\ Places /\ Requests /\ Inbox
  BY DEF IInv, Shape
<1> c \in Calls /\ c \notin Presenters /\ "exchange" \in Awaits
  BY CallsAreDisjoint DEF Calls, Presenters, Awaits
<1>0. 0 \in Attempts
  BY Retries DEF Attempts
<1>1. /\ pc[c] = "initiate" /\ draft' = c /\ sid' = [sid EXCEPT ![c] = attempt[c]]
      /\ UNCHANGED <<session, used, opened, live, recent, excused>>
  BY DEF savePkceSession, Succeeded, Answered, bff
<1>2. TabFrame(c) /\ sid' \in [SignIns -> Attempts]
  <2>1. TabFrame(c)
    BY <1>1 DEF TabFrame
  <2> QED BY <1>1, <2>1 DEF TypeOK
<1>3. CASE signInEnds(c, "external")
  BY <1>1, <1>2, <1>3, SignInEndsIInv DEF TypeOK, Outcomes
<1>4. CASE send(c, "exchange", 0) /\ UNCHANGED <<loading, outcome>>
  <2>1. \A m \in wire : m.call = c => m.op # "exchange"
    BY <1>1 DEF Requests, TimeOK
  <2>2. KindOK([call |-> c, op |-> "exchange", n |-> 0, read |-> FALSE])
    BY DEF KindOK
  <2>3. /\ pc' \in [Calls -> Awaits \union Backoffs \union {"idle", "done"}]
        /\ attempt' \in [Calls -> Attempts]
        /\ wire' \subseteq Messages
        /\ inbox' \in [Calls -> Answers \union {NoAnswer}]
        /\ \A d \in Calls \ {c} : Same(d)
        /\ pc'[c] = "exchange" /\ attempt'[c] = 0 /\ inbox'[c] = NoAnswer
        /\ wire' = wire \union {[call |-> c, op |-> "exchange", n |-> 0, read |-> FALSE]}
        /\ Places' /\ Requests' /\ OneRequest' /\ Inbox'
    <3>1. send(c, "exchange", 0) /\ UNCHANGED outcome /\ pc[c] # "done"
      BY <1>1, <1>4
    <3>2. \A m \in wire : m.call = c =>
            /\ c \notin Presenters
            /\ pc[c] \in {"initiate", "retry initiate"} => m.op # "exchange"
            /\ m.op = "exchange" => m.n < 0
            /\ m.op = "exchange" => "exchange" = "exchange"
      BY <2>1
    <3> QED BY <1>0, <2>2, <3>1, <3>2, SendShape
  <2>4. TypeOK'
    BY <1>1, <1>2, <1>4, <2>3 DEF TypeOK
  <2>5. \A k \in Attempts : Pending(c, k)
    BY <1>1 DEF Pending
  <2>6. Flow'
    BY <1>0, <1>2, <2>3, <2>5, SendFlow
  <2> QED BY <2>3, <2>4, <2>6 DEF IInv, Shape
<1> QED BY <1>3, <1>4 DEF savePkceSession

LEMMA signedInIInv ==
  ASSUME IInv, NEW c \in SignIns, signedIn(c) PROVE IInv'
<1> TypeOK /\ Inbox /\ c \in Calls
  BY DEF IInv, Shape, Calls
<1>1. /\ pc[c] = "exchange" /\ inbox[c] # NoAnswer /\ inbox[c].result = "ok"
      /\ draft' = NoDraft /\ session' = inbox[c].token
      /\ UNCHANGED <<sid, used, opened, live, recent, excused>>
  BY DEF signedIn, Succeeded, Answered, persistAuthSession, bff
<1>2. PICK result \in {"ok", "listener threw"} : signInEnds(c, result)
  BY DEF signedIn
<1>3. session' \in Tokens
  BY <1>1 DEF Inbox, AnswerOK
<1>4. TabFrame(c)
  BY <1>1 DEF TabFrame, Holds
<1> QED BY <1>1, <1>2, <1>3, <1>4, SignInEndsIInv DEF TypeOK, Outcomes

\* The end of a refresh or logout: its requests are answered or given up, and
\* the tab knows how what it presented ended.
LEMMA PresenterEndsIInv ==
  ASSUME IInv, NEW c \in Presenters, NEW result \in Outcomes, settle(c, result),
         \A m \in wire : m.call = c =>
           pc[c] # "idle" /\ result \in {"unreachable", "reloaded"},
         TabFrame(c), session' \in Tokens \union {NoToken},
         used' \in [Presenters -> Tokens \union {NoToken}],
         UNCHANGED <<draft, loading, sid, opened>>,
         used'[c] = NoToken => result \in {"ok", "no session"},
         \A t \in Tokens \ excused : CausedBy(c, t) /\ Known(t)' =>
           used'[c] = t /\ result \in Unheard
  PROVE  IInv'
<1> Shape /\ TypeOK /\ Places /\ Requests /\ Inbox /\ c \in Calls
  BY DEF IInv, Shape, Presenters, Calls
<1>1. attempt' = attempt /\ wire' = wire
  BY DEF settle
<1>2. /\ pc' \in [Calls -> Awaits \union Backoffs \union {"idle", "done"}]
      /\ outcome' \in [Calls -> Outcomes]
      /\ inbox' \in [Calls -> Answers \union {NoAnswer}]
      /\ \A d \in Calls \ {c} : Same(d)
      /\ pc'[c] = "done" /\ outcome'[c] = result /\ inbox'[c] = NoAnswer
      /\ Places' /\ Requests' /\ OneRequest' /\ Inbox'
  BY SettleShape
<1>3. TypeOK'
  BY <1>1, <1>2 DEF TypeOK, TabFrame, Presenters
<1>4. \A t \in Tokens \ excused : CausedBy(c, t) /\ Known(t)' => CausedBy(c, t)'
  BY <1>2 DEF CausedBy
<1>5. PresentedBy(c)'
  BY <1>2 DEF PresentedBy
<1>6. Flow'
  BY <1>1, <1>2, <1>4, <1>5, SettleFlow
<1> QED BY <1>2, <1>3, <1>6 DEF IInv, Shape

LEMMA IdleCausesNothing ==
  ASSUME IInv, NEW c \in Presenters, pc[c] = "idle"
  PROVE  /\ \A m \in wire : m.call # c
         /\ \A t \in Tokens : ~CausedBy(c, t)
<1> Places /\ Requests /\ Inbox /\ c \in Calls
  BY DEF IInv, Shape, Presenters, Calls
<1>1. \A m \in wire : m.call # c
  BY DEF Requests, TimeOK
<1>2. inbox[c] = NoAnswer
  BY DEF Inbox, AnswerOK, Awaits
<1>3. outcome[c] = "none"
  BY DEF Places
<1>4. \A t \in Tokens : ~CausedBy(c, t)
  BY <1>2, <1>3 DEF CausedBy, Unheard
<1> QED BY <1>1, <1>4

\* The first request of a refresh or logout.
LEMMA PresenterSendsIInv ==
  ASSUME IInv, NEW c \in Presenters, NEW op \in Awaits, pc[c] = "idle", session # NoToken,
         KindOK([call |-> c, op |-> op, n |-> 0, read |-> FALSE]),
         send(c, op, 0), UNCHANGED outcome, used' = [used EXCEPT ![c] = session],
         UNCHANGED <<session, draft, loading, sid, opened, live, recent, excused>>
  PROVE  IInv'
<1> Shape /\ TypeOK /\ c \in Calls
  BY DEF IInv, Shape, Presenters, Calls
<1>0. 0 \in Attempts
  BY Retries DEF Attempts
<1>1. \A m \in wire : m.call # c
  BY IdleCausesNothing
<1>2. /\ pc' \in [Calls -> Awaits \union Backoffs \union {"idle", "done"}]
      /\ attempt' \in [Calls -> Attempts]
      /\ wire' \subseteq Messages
      /\ inbox' \in [Calls -> Answers \union {NoAnswer}]
      /\ \A d \in Calls \ {c} : Same(d)
      /\ pc'[c] = op /\ attempt'[c] = 0 /\ inbox'[c] = NoAnswer
      /\ wire' = wire \union {[call |-> c, op |-> op, n |-> 0, read |-> FALSE]}
      /\ Places' /\ Requests' /\ OneRequest' /\ Inbox'
  <2>1. pc[c] # "done"
    OBVIOUS
  <2> QED BY <1>0, <1>1, <2>1, SendShape
<1>3. used' \in [Presenters -> Tokens \union {NoToken}]
  BY DEF TypeOK, Presenters
<1>4. TypeOK'
  BY <1>2, <1>3 DEF TypeOK, Presenters
<1>5. TabFrame(c)
  BY DEF TabFrame, TypeOK, Presenters
<1>6. Flow'
  <2>1. \A k \in Attempts : Pending(c, k)
    BY DEF Pending
  <2>2. used'[c] # NoToken
    BY DEF TypeOK, Presenters
  <2> QED BY <1>0, <1>2, <1>5, <2>1, <2>2, SendFlow
<1> QED BY <1>2, <1>4, <1>6 DEF IInv, Shape

LEMMA refreshTokensIInv ==
  ASSUME IInv, NEW f \in Refreshes, refreshTokens(f) PROVE IInv'
<1> TypeOK /\ f \in Presenters /\ f \in Calls
  BY DEF IInv, Shape, Presenters, Calls
<1>1. /\ pc[f] = "idle" /\ used' = [used EXCEPT ![f] = session]
      /\ UNCHANGED <<session, draft, loading, sid, opened, live, recent, excused>>
  BY DEF refreshTokens, bff
<1>2. CASE session # NoToken /\ send(f, "refresh", 0) /\ UNCHANGED outcome
  <2>1. KindOK([call |-> f, op |-> "refresh", n |-> 0, read |-> FALSE])
    BY CallsAreDisjoint DEF KindOK
  <2> QED BY <1>1, <1>2, <2>1, PresenterSendsIInv DEF Awaits
<1>3. CASE settle(f, "no session")
  <2>1. TabFrame(f) /\ used' \in [Presenters -> Tokens \union {NoToken}]
    BY <1>1 DEF TabFrame, TypeOK, Presenters
  <2>2. /\ \A m \in wire : m.call # f
        /\ \A t \in Tokens : ~CausedBy(f, t)
    BY <1>1, IdleCausesNothing
  <2> QED BY <1>1, <1>3, <2>1, <2>2, PresenterEndsIInv DEF Outcomes, TypeOK
<1> QED BY <1>2, <1>3 DEF refreshTokens

LEMMA logoutIInv ==
  ASSUME IInv, NEW l \in Logouts, logout(l) PROVE IInv'
<1> TypeOK /\ l \in Presenters /\ l \in Calls
  BY DEF IInv, Shape, Presenters, Calls
<1>1. /\ pc[l] = "idle" /\ used' = [used EXCEPT ![l] = session]
      /\ UNCHANGED <<draft, loading, sid, opened, live, recent, excused>>
  BY DEF logout, bff
<1>2. CASE session # NoToken /\ send(l, "logout", 0) /\ UNCHANGED <<session, outcome>>
  <2>1. KindOK([call |-> l, op |-> "logout", n |-> 0, read |-> FALSE])
    BY CallsAreDisjoint DEF KindOK
  <2> QED BY <1>1, <1>2, <2>1, PresenterSendsIInv DEF Awaits
<1>3. CASE settle(l, "ok") /\ clearAuthSession
  <2>1. session' = NoToken
    BY <1>3 DEF clearAuthSession
  <2>2. TabFrame(l) /\ used' \in [Presenters -> Tokens \union {NoToken}]
    BY <1>1, <2>1 DEF TabFrame, TypeOK, Presenters
  <2>3. /\ \A m \in wire : m.call # l
        /\ \A t \in Tokens : ~CausedBy(l, t)
    BY <1>1, IdleCausesNothing
  <2> QED BY <1>1, <1>3, <2>1, <2>2, <2>3, PresenterEndsIInv DEF Outcomes
<1> QED BY <1>2, <1>3 DEF logout

LEMMA refreshedIInv ==
  ASSUME IInv, NEW f \in Refreshes, refreshed(f) PROVE IInv'
<1> Shape /\ TypeOK /\ Inbox /\ OneHolder /\ f \in Presenters /\ f \in Calls
  BY DEF IInv, Shape, Flow, Presenters, Calls
<1>1. /\ pc[f] = "refresh" /\ inbox[f] # NoAnswer /\ inbox[f].result = "ok"
      /\ session' = inbox[f].token /\ settle(f, "ok")
      /\ UNCHANGED <<draft, loading, sid, used, opened, live, recent, excused>>
  BY DEF refreshed, Succeeded, Answered, persistAuthSession, bff
<1>2. session' \in Tokens
  BY <1>1 DEF Inbox, AnswerOK
<1>3. \A m \in wire : m.call # f
  BY <1>1, AnsweredOnce
<1>4. TabFrame(f)
  BY <1>1 DEF TabFrame, Holds
<1>5. \A t \in Tokens \ excused : CausedBy(f, t) => ~Known(t)'
  <2> SUFFICES ASSUME NEW t \in Tokens \ excused, used[f] = t PROVE ~Known(t)'
    BY DEF CausedBy
  <2>1. \A d \in Calls : ~Holds(d, t)
    BY DEF OneHolder
  <2>2. session' # t
    BY <1>1, <2>1 DEF Holds
  <2>3. \A d \in Calls : Holds(d, t)' => Holds(d, t)
    BY <1>1, NullValues DEF Holds, settle, TypeOK
  <2> QED BY <2>1, <2>2, <2>3 DEF Known
<1> QED BY <1>1, <1>2, <1>3, <1>4, <1>5, PresenterEndsIInv DEF Outcomes, TypeOK, Presenters

LEMMA loggedOutIInv ==
  ASSUME IInv, NEW l \in Logouts, loggedOut(l) PROVE IInv'
<1> Shape /\ TypeOK /\ Inbox /\ OneHolder /\ l \in Presenters /\ l \in Calls
  BY DEF IInv, Shape, Flow, Presenters, Calls
<1>1. /\ pc[l] = "logout" /\ inbox[l] # NoAnswer
      /\ session' = NoToken /\ settle(l, "ok")
      /\ UNCHANGED <<draft, loading, sid, used, opened, live, recent, excused>>
  BY DEF loggedOut, Succeeded, Answered, clearAuthSession, bff
<1>2. \A m \in wire : m.call # l
  BY <1>1, AnsweredOnce
<1>3. TabFrame(l)
  BY <1>1 DEF TabFrame
<1>4. \A t \in Tokens \ excused : CausedBy(l, t) => ~Known(t)'
  <2> SUFFICES ASSUME NEW t \in Tokens \ excused, used[l] = t PROVE ~Known(t)'
    BY DEF CausedBy
  <2>1. \A d \in Calls : ~Holds(d, t)
    BY DEF OneHolder
  <2>2. session' # t
    BY <1>1, NullValues
  <2>3. \A d \in Calls : Holds(d, t)' => Holds(d, t)
    BY <1>1, NullValues DEF Holds, settle, TypeOK
  <2> QED BY <2>1, <2>2, <2>3 DEF Known
<1> QED BY <1>1, <1>2, <1>3, <1>4, PresenterEndsIInv DEF Outcomes, TypeOK, Presenters

LEMMA requestFailsIInv ==
  ASSUME IInv, NEW c \in Presenters, NEW op \in {"refresh", "logout"},
         requestFails(c, op)
  PROVE  IInv'
<1> Shape /\ TypeOK /\ Places /\ Presented /\ c \in Calls
  BY DEF IInv, Shape, Flow, Presenters, Calls
<1>1. /\ pc[c] = op
      /\ UNCHANGED <<session, draft, loading, sid, used, opened, live, recent, excused>>
  BY DEF requestFails, Refused, Answered, bff
<1>2. TabFrame(c)
  BY <1>1 DEF TabFrame
<1>3. session' \in Tokens \union {NoToken} /\ used' \in [Presenters -> Tokens \union {NoToken}]
  BY <1>1 DEF TypeOK, Presenters
<1>4. used'[c] # NoToken
  BY <1>1 DEF Places, Presented, PresentedBy
<1>5. CASE Refused(c, op) /\ settle(c, inbox[c].result)
  <2>1. inbox[c] # NoAnswer /\ inbox[c].result \in {"rejected", "broken"}
    BY <1>5 DEF Refused, Answered, TypeOK, Answers, Results
  <2>2. \A m \in wire : m.call # c
    BY <1>1, <2>1, AnsweredOnce
  <2>3. \A t \in Tokens : CausedBy(c, t) => used'[c] = t /\ inbox[c].result \in Unheard
    <3>1. outcome[c] = "none"
      BY <1>1 DEF Places
    <3> QED BY <1>1, <2>1, <3>1 DEF CausedBy, Unheard
  <2>4. inbox[c].result \in Outcomes
    BY <2>1 DEF Outcomes
  <2> QED BY <1>1, <1>2, <1>3, <1>5, <1>4, <2>2, <2>3, <2>4, PresenterEndsIInv
<1>6. CASE settle(c, "unreachable")
  <2>1. \A t \in Tokens : CausedBy(c, t) => used'[c] = t
    BY <1>1 DEF CausedBy
  <2>2. "unreachable" \in Unheard /\ "unreachable" \in Outcomes /\ pc[c] # "idle"
    BY <1>1 DEF Unheard, Outcomes
  <2> QED BY <1>1, <1>2, <1>3, <1>6, <1>4, <2>1, <2>2, PresenterEndsIInv
<1> QED BY <1>5, <1>6 DEF requestFails

LEMMA reloadIInv ==
  ASSUME IInv, reload PROVE IInv'
<1> Shape /\ TypeOK /\ Places /\ Requests /\ OneRequest /\ Inbox /\ Flow
  BY DEF IInv, Shape
<1> DEFINE gone == {c \in Calls : pc[c] \notin {"idle", "done"}}
<1>1. /\ pc' = [c \in Calls |-> IF c \in gone THEN "done" ELSE pc[c]]
      /\ outcome' = [c \in Calls |-> IF c \in gone THEN "reloaded" ELSE outcome[c]]
      /\ inbox' = [c \in Calls |-> NoAnswer]
      /\ loading' = FALSE
      /\ UNCHANGED <<session, draft, attempt, sid, used, wire, opened, live, recent, excused>>
  BY DEF reload, bff
<1>2. \A c \in Calls :
        /\ inbox'[c] = NoAnswer
        /\ pc[c] = "idle" => pc'[c] = "idle" /\ outcome'[c] = outcome[c]
        /\ pc[c] = "done" => pc'[c] = "done" /\ outcome'[c] = outcome[c]
        /\ pc[c] \notin {"idle", "done"} => pc'[c] = "done" /\ outcome'[c] = "reloaded"
  BY <1>1
<1> HIDE DEF gone
<1>3. TypeOK'
  <2>1. pc' \in [Calls -> Awaits \union Backoffs \union {"idle", "done"}]
    BY <1>1 DEF TypeOK
  <2>2. outcome' \in [Calls -> Outcomes]
    BY <1>1 DEF TypeOK, Outcomes
  <2>3. inbox' \in [Calls -> Answers \union {NoAnswer}]
    BY <1>1
  <2> QED BY <1>1, <2>1, <2>2, <2>3 DEF TypeOK
<1>4. Places'
  BY <1>1, <1>2 DEF Places, Calls, Presenters
<1>5. Requests'
  <2> SUFFICES ASSUME NEW m \in wire PROVE KindOK(m)' /\ TimeOK(m)'
    BY <1>1 DEF Requests
  <2>1. KindOK(m) /\ TimeOK(m) /\ m.call \in Calls /\ m.op \in Awaits
    BY DEF Requests, TypeOK, Messages
  <2>2. "done" \notin {m.op, Backoff(m.op)}
    BY <2>1 DEF Awaits, Backoff
  <2>3. pc'[m.call] = "done"
    BY <1>2, <2>1 DEF TimeOK
  <2>4. m.call \in Presenters => outcome'[m.call] \in {"unreachable", "reloaded"}
    <3>1. CASE pc[m.call] = "done"
      BY <1>2, <2>1, <2>2, <3>1 DEF TimeOK
    <3>2. CASE pc[m.call] # "done"
      BY <1>2, <2>1, <3>2 DEF TimeOK
    <3> QED BY <3>1, <3>2
  <2> QED BY <2>1, <2>2, <2>3, <2>4 DEF KindOK, TimeOK
<1>6. OneRequest' /\ Inbox'
  BY <1>1, <1>2 DEF OneRequest, Inbox, AnswerOK
<1>7. \A c \in Calls, t \in Tokens : ~Holds(c, t)'
  BY <1>2 DEF Holds
<1>8. Fresh'
  <2>1. \A t \in Tokens : Seen(t)' => Seen(t)
    BY <1>1, <1>7 DEF Seen
  <2>2. \A m \in wire : m.op \in {"exchange", "refresh"} => <<m.call, m.n>> \in Tokens
    BY DEF Requests, KindOK, TypeOK, Messages, Tokens
  <2> QED BY <1>1, <2>1, <2>2 DEF Flow, Fresh
<1>9. NotYet'
  <2>1. \A t \in Tokens : Seen(t)' => Seen(t)
    BY <1>1, <1>7 DEF Seen
  <2>2. \A c \in Calls, n \in Attempts : Pending(c, n)' => Pending(c, n)
    BY <1>2 DEF Pending
  <2> QED BY <2>1, <2>2, NotYetKept DEF Flow, Minters, Calls
<1>10. OneHolder'
  BY <1>7 DEF OneHolder
<1>11. Kept'
  <2>1. \A t \in Tokens : Known(t)' => Known(t)
    BY <1>1, <1>7 DEF Known
  <2>2. ASSUME NEW t \in Tokens, Cause(t) PROVE Cause(t)'
    <3>1. PICK g \in Presenters : CausedBy(g, t)
      BY <2>2 DEF Cause
    <3>2. g \in Calls
      BY DEF Presenters, Calls
    <3>3. CASE outcome[g] \in Unheard
      <4>1. pc[g] = "done"
        BY <3>2, <3>3 DEF Places, Unheard
      <4> QED BY <1>1, <1>2, <3>1, <3>2, <3>3, <4>1 DEF Cause, CausedBy
    <3>4. CASE inbox[g] # NoAnswer
      <4>1. pc[g] \notin {"idle", "done"}
        BY <3>2, <3>4 DEF Inbox, AnswerOK, Awaits
      <4> QED BY <1>1, <1>2, <3>1, <3>2, <4>1 DEF Cause, CausedBy, Unheard
    <3> QED BY <3>1, <3>3, <3>4 DEF CausedBy
  <2>3. excused' = excused /\ live' = live
    BY <1>1
  <2> QED BY <2>1, <2>2, <2>3, KeptKept DEF Flow
<1>12. Presented'
  <2> SUFFICES ASSUME NEW g \in Presenters, used[g] = NoToken
               PROVE  pc'[g] = "idle" \/ outcome'[g] \in {"ok", "no session"}
    BY <1>1 DEF Presented, PresentedBy
  <2>1. g \in Calls /\ (pc[g] = "idle" \/ outcome[g] \in {"ok", "no session"})
    BY DEF Flow, Presented, PresentedBy, Presenters, Calls
  <2>2. outcome[g] \in {"ok", "no session"} => pc[g] = "done"
    BY <2>1 DEF Places
  <2> QED BY <1>2, <2>1, <2>2
<1> QED BY <1>3, <1>4, <1>5, <1>6, <1>8, <1>9, <1>10, <1>11, <1>12 DEF IInv, Shape, Flow
---------------------------------------------------------------------------
(* The steps of the network and the BFF.                                   *)

\* The tab's own state is untouched.
Outside == UNCHANGED <<session, draft, loading, pc, attempt, sid, used, outcome>>

LEMMA KindOf ==
  ASSUME NEW m \in Messages, KindOK(m)
  PROVE  /\ m.call \in SignIns <=> m.op \in {"initiate", "exchange"}
         /\ m.call \in Refreshes <=> m.op = "refresh"
         /\ m.call \in Logouts <=> m.op = "logout"
BY CallsAreDisjoint DEF KindOK, Messages, Awaits, Calls

\* Two requests of the same kind for the same attempt are one.
LEMMA SameRequest ==
  ASSUME Shape, NEW m \in wire, NEW k \in wire, m.call = k.call, m.n = k.n,
         m.op \in {"exchange", "refresh", "logout"},
         m.op = "exchange" => k.op # "initiate"
  PROVE  m = k
<1>1. KindOK(m) /\ KindOK(k) /\ m \in Messages /\ k \in Messages
  BY DEF Shape, Requests, TypeOK
<1>2. m.op = k.op
  BY <1>1, KindOf, CallsAreDisjoint DEF Messages, Awaits
<1> QED BY <1>2 DEF Shape, OneRequest

Delivered(m) == pc[m.call] = m.op /\ attempt[m.call] = m.n

LEMMA AnswerShape ==
  ASSUME IInv, NEW m \in wire, NEW result \in Results,
         NEW t \in Tokens \union {NoToken}, answer(m, result, t), Outside,
         t \in Tokens <=> result = "ok" /\ m.op \in {"exchange", "refresh"}
  PROVE  /\ m.call \in Calls /\ wire' = wire \ {m}
         /\ inbox' \in [Calls -> Answers \union {NoAnswer}]
         /\ \A c \in Calls \ {m.call} : inbox'[c] = inbox[c]
         /\ ~Delivered(m) => inbox'[m.call] = inbox[m.call]
         /\ Delivered(m) => /\ inbox[m.call] = NoAnswer
                            /\ inbox'[m.call] # NoAnswer
                            /\ inbox'[m.call].result = result
                            /\ inbox'[m.call].token = t
         /\ Places' /\ Requests' /\ OneRequest' /\ Inbox' /\ Presented'
<1> Shape /\ TypeOK /\ Places /\ Requests /\ OneRequest /\ Inbox /\ Presented
  BY DEF IInv, Shape, Flow
<1> DEFINE r == [result |-> result, token |-> t]
<1>1. /\ wire' = wire \ {m} /\ pc' = pc /\ attempt' = attempt /\ outcome' = outcome
      /\ used' = used
  BY DEF answer, Outside
<1>2. inbox' = IF Delivered(m) THEN [inbox EXCEPT ![m.call] = r] ELSE inbox
  BY DEF answer, Delivered
<1>3. r \in Answers /\ r # NoAnswer /\ r.result = result /\ r.token = t
  BY NullValues DEF Answers
<1>4. m.call \in Calls /\ m.op \in Awaits
  BY DEF TypeOK, Messages
<1> HIDE DEF r
<1>5. inbox' \in [Calls -> Answers \union {NoAnswer}]
  BY <1>2, <1>3 DEF TypeOK
<1>6. \A c \in Calls \ {m.call} : inbox'[c] = inbox[c]
  BY <1>2 DEF TypeOK
<1>7. ~Delivered(m) => inbox'[m.call] = inbox[m.call]
  BY <1>2
<1>8. Delivered(m) => inbox[m.call] = NoAnswer
  BY <1>4 DEF Delivered, Inbox, AnswerOK
<1>9. Delivered(m) => inbox'[m.call] = r
  BY <1>2, <1>4 DEF TypeOK
<1>10. Places' /\ OneRequest' /\ Presented'
  BY <1>1 DEF Places, OneRequest, Presented, PresentedBy
<1>11. Requests'
  <2> SUFFICES ASSUME NEW k \in wire, k # m PROVE KindOK(k)' /\ TimeOK(k)'
    BY <1>1 DEF Requests
  <2>1. KindOK(k) /\ TimeOK(k) /\ k.call \in Calls
    BY DEF Requests, TypeOK, Messages
  <2>2. k.call \in Presenters => inbox'[k.call] = inbox[k.call]
    <3> SUFFICES ASSUME k.call \in Presenters, k.call = m.call PROVE FALSE
      BY <1>6, <2>1
    <3>1. KindOK(m) /\ m \in Messages
      BY DEF Requests, TypeOK
    <3>2. m.n = 0 /\ k.n = 0
      BY <2>1, <3>1 DEF KindOK
    <3>3. m.op \in {"refresh", "logout"}
      BY <3>1, KindOf DEF Presenters
    <3> QED BY <3>2, <3>3, SameRequest
  <2> QED BY <1>1, <2>1, <2>2 DEF KindOK, TimeOK
<1>12. Inbox'
  <2> SUFFICES ASSUME NEW c \in Calls PROVE AnswerOK(c)'
    BY DEF Inbox
  <2>1. CASE inbox'[c] = inbox[c]
    BY <1>1, <2>1 DEF Inbox, AnswerOK
  <2>2. CASE inbox'[c] # inbox[c]
    <3>1. c = m.call /\ Delivered(m) /\ inbox'[c] = r
      BY <1>6, <1>7, <1>9, <2>2
    <3>2. \A k \in wire' : ~(k.call = c /\ k.op = pc[c] /\ k.n = attempt[c])
      BY <1>1, <3>1 DEF Delivered, OneRequest
    <3> QED BY <1>1, <1>3, <1>4, <3>1, <3>2 DEF AnswerOK, Delivered
  <2> QED BY <2>1, <2>2
<1> QED BY <1>1, <1>3, <1>4, <1>5, <1>6, <1>7, <1>8, <1>9, <1>10, <1>11, <1>12

\* An answer brings no token, one that is only now minted, or one that was seen
\* before and is excused; what is revoked for it had been presented.
TypedBff ==
  /\ opened \subseteq SignIns \X Attempts
  /\ live \subseteq Tokens /\ recent \subseteq Tokens /\ excused \subseteq Tokens
Brings(m, result, t) ==
  t \in Tokens <=> result = "ok" /\ m.op \in {"exchange", "refresh"}
Mints(m, t) ==
  /\ \A u \in recent' \ recent :
       u = <<m.call, m.n>> /\ m.op \in {"exchange", "refresh"}
  /\ t \in Tokens =>
       \/ t = <<m.call, m.n>> /\ t \in live'
       \/ t \in excused' /\ Seen(t)
Revokes(m, result) ==
  /\ excused \subseteq excused'
  /\ \A u \in live \ excused' :
       \/ u \in live'
       \/ (m.call \in Presenters /\ used[m.call] = u) /\ result \in {"ok", "broken"}

LEMMA HoldsKept ==
  ASSUME NEW c, NEW u, inbox'[c] = inbox[c], Holds(c, u)' PROVE Holds(c, u)
BY DEF Holds

LEMMA AnswerFlow ==
  ASSUME IInv, NEW m \in wire, NEW result \in Results,
         NEW t \in Tokens \union {NoToken}, answer(m, result, t), Outside,
         Brings(m, result, t), Mints(m, t), Revokes(m, result)
  PROVE  Flow'
<1> /\ Shape /\ TypeOK /\ Places /\ Requests /\ OneRequest /\ Inbox
    /\ Fresh /\ NotYet /\ OneHolder /\ Kept
  BY DEF IInv, Shape, Flow
<1>1. /\ m.call \in Calls /\ m.n \in Attempts /\ KindOK(m) /\ TimeOK(m) /\ m \in Messages
      /\ m.op \in Awaits
  BY DEF Requests, TypeOK, Messages
<1>2. /\ wire' = wire \ {m}
      /\ \A c \in Calls \ {m.call} : inbox'[c] = inbox[c]
      /\ ~Delivered(m) => inbox'[m.call] = inbox[m.call]
      /\ Delivered(m) => /\ inbox[m.call] = NoAnswer
                         /\ inbox'[m.call] # NoAnswer
                         /\ inbox'[m.call].result = result
                         /\ inbox'[m.call].token = t
      /\ Presented'
  BY AnswerShape DEF Brings
<1>3. /\ session' = session /\ used' = used /\ outcome' = outcome
      /\ pc' = pc /\ attempt' = attempt
  BY DEF Outside
<1>4. \A c \in Calls, u \in Tokens :
        Holds(c, u)' => Holds(c, u) \/ (c = m.call /\ u = t)
  <2> SUFFICES ASSUME NEW c \in Calls, NEW u \in Tokens, Holds(c, u)'
               PROVE  Holds(c, u) \/ (c = m.call /\ u = t)
    OBVIOUS
  <2>1. CASE inbox'[c] = inbox[c]
    BY <2>1, HoldsKept
  <2>2. CASE inbox'[c] # inbox[c]
    <3>1. c = m.call /\ inbox'[c].token = t
      BY <1>2, <2>2
    <3> QED BY <3>1 DEF Holds
  <2> QED BY <2>1, <2>2
<1>5. \A u \in Tokens : Seen(u)' =>
        \/ Seen(u)
        \/ u = <<m.call, m.n>> /\ m.op \in {"exchange", "refresh"}
  <2> SUFFICES ASSUME NEW u \in Tokens, Seen(u)', ~Seen(u)
               PROVE  u = <<m.call, m.n>> /\ m.op \in {"exchange", "refresh"}
    OBVIOUS
  <2>1. u = t \/ u \in recent' \ recent
    BY <1>3, <1>4 DEF Seen
  <2>2. CASE u = t
    BY <2>2 DEF Mints, Brings
  <2>3. CASE u \in recent' \ recent
    BY <2>3 DEF Mints
  <2> QED BY <2>1, <2>2, <2>3
<1>6. m.op \in {"exchange", "refresh"} => ~Seen(<<m.call, m.n>>)
  BY DEF Fresh
<1>7. Fresh'
  <2> SUFFICES ASSUME NEW k \in wire, k # m, k.op \in {"exchange", "refresh"},
                      Seen(<<k.call, k.n>>)'
               PROVE  FALSE
    BY <1>2 DEF Fresh
  <2>1. <<k.call, k.n>> \in Tokens /\ ~Seen(<<k.call, k.n>>)
    BY DEF Requests, KindOK, TypeOK, Messages, Tokens, Fresh
  <2>2. /\ <<k.call, k.n>> = <<m.call, m.n>>
        /\ m.op \in {"exchange", "refresh"}
    BY <1>5, <2>1
  <2>3. m.call = k.call /\ m.n = k.n
    BY <2>2
  <2> QED BY <2>2, <2>3, SameRequest
<1>8. NotYet'
  <2> SUFFICES ASSUME NEW c \in Minters, NEW n \in Attempts, Pending(c, n),
                      Seen(<<c, n>>)'
               PROVE  FALSE
    BY <1>3 DEF NotYet, Pending
  <2>1. <<c, n>> \in Tokens /\ ~Seen(<<c, n>>)
    BY DEF Minters, Tokens, NotYet
  <2>2. <<c, n>> = <<m.call, m.n>> /\ m.op \in {"exchange", "refresh"}
    BY <1>5, <2>1
  <2>4. c = m.call /\ n = m.n
    BY <2>2
  <2>5. m.op = "exchange" => m.call \in SignIns
    BY <1>1 DEF KindOK
  <2>6. CASE m.op = "exchange"
    <3>1. pc[m.call] \in {"exchange", "retry exchange", "done"}
      BY <1>1, <2>6 DEF TimeOK
    <3>2. pc[m.call] \in {"exchange", "retry exchange"} => m.n <= attempt[m.call]
      BY <1>1, <2>6 DEF TimeOK, Backoff
    <3>3. \A i, j \in Attempts : i <= j => ~(i > j)
      BY Retries DEF Attempts
    <3> QED BY <1>1, <2>4, <3>1, <3>2, <3>3 DEF Pending, TypeOK
  <2>7. CASE m.op = "refresh"
    <3>1. pc[m.call] \in {"refresh", "done"}
      BY <1>1, <2>7 DEF TimeOK, KindOK, Places
    <3> QED BY <2>4, <3>1 DEF Pending
  <2> QED BY <2>2, <2>6, <2>7
<1>9. OneHolder'
  <2> SUFFICES ASSUME NEW c \in Calls, NEW u \in Tokens \ excused', Holds(c, u)'
               PROVE  /\ session # u
                      /\ \A g \in Presenters : used[g] # u
                      /\ \A d \in Calls : Holds(d, u)' => d = c
    BY <1>3 DEF OneHolder
  <2>1. CASE u = t
    <3>1. ~Seen(u)
      BY <1>6, <2>1 DEF Mints, Brings
    <3>2. \A d \in Calls : Holds(d, u)' => d = m.call
      BY <1>4, <3>1 DEF Seen
    <3> QED BY <3>1, <3>2 DEF Seen
  <2>2. CASE u # t
    <3>1. \A d \in Calls : Holds(d, u)' => Holds(d, u)
      BY <1>4, <2>2
    <3> QED BY <3>1 DEF OneHolder, Revokes
  <2> QED BY <2>1, <2>2
<1>10. Kept'
  <2> SUFFICES ASSUME NEW u \in Tokens \ excused', Known(u)'
               PROVE  u \in live' \/ Cause(u)'
    BY DEF Kept
  <2>1. CASE u = t
    BY <2>1 DEF Mints
  <2>2. ASSUME Cause(u) PROVE Cause(u)'
    <3>1. PICK g \in Presenters : CausedBy(g, u)
      BY <2>2 DEF Cause
    <3>2. inbox[g] # NoAnswer => inbox'[g] = inbox[g]
      BY <1>2 DEF Presenters, Calls
    <3> QED BY <1>3, <3>1, <3>2 DEF Cause, CausedBy
  <2>3. ASSUME m.call \in Presenters, used[m.call] = u, result \in {"ok", "broken"}
        PROVE  Cause(u)'
    <3>1. CASE Delivered(m)
      BY <1>2, <1>3, <2>3, <3>1 DEF Cause, CausedBy
    <3>2. CASE ~Delivered(m)
      <4>1. m.n = 0 /\ attempt[m.call] = 0
        BY <1>1, <2>3 DEF KindOK, Places
      <4>2. outcome[m.call] \in {"unreachable", "reloaded"}
        BY <1>1, <2>3, <3>2, <4>1 DEF Delivered, TimeOK
      <4> QED BY <1>3, <2>3, <4>2 DEF Cause, CausedBy, Unheard
    <3> QED BY <3>1, <3>2
  <2>4. CASE u # t
    <3>1. Known(u)
      BY <1>3, <1>4, <2>4 DEF Known
    <3>2. u \in live \/ Cause(u)
      BY <3>1 DEF Kept, Revokes
    <3> QED BY <2>2, <2>3, <3>2 DEF Revokes
  <2> QED BY <2>1, <2>4
<1> QED BY <1>2, <1>7, <1>8, <1>9, <1>10 DEF Flow

LEMMA AnswerIInv ==
  ASSUME IInv, NEW m \in wire, NEW result \in Results,
         NEW t \in Tokens \union {NoToken}, answer(m, result, t), Outside,
         Brings(m, result, t), Mints(m, t), Revokes(m, result), TypedBff'
  PROVE  IInv'
<1>1. Flow'
  BY AnswerFlow
<1>2. /\ wire' = wire \ {m} /\ inbox' \in [Calls -> Answers \union {NoAnswer}]
      /\ Places' /\ Requests' /\ OneRequest' /\ Inbox'
  BY AnswerShape DEF Brings
<1>3. TypeOK'
  BY <1>2 DEF IInv, Shape, TypeOK, Outside, TypedBff
<1> QED BY <1>1, <1>2, <1>3 DEF IInv, Shape

LEMMA NothingMinted ==
  ASSUME NEW m, NEW result,
         result # "ok" \/ m.op \notin {"exchange", "refresh"},
         \A u \in recent' \ recent :
           u = <<m.call, m.n>> /\ m.op \in {"exchange", "refresh"}
  PROVE  /\ NoToken \in Tokens \union {NoToken}
         /\ Brings(m, result, NoToken) /\ Mints(m, NoToken)
BY NullValues DEF Brings, Mints

LEMMA lostIInv ==
  ASSUME IInv, NEW m \in wire, lost(m) PROVE IInv'
<1>1. wire' = wire \ {m} /\ Outside /\ UNCHANGED <<inbox, opened, live, recent, excused>>
  BY DEF lost, tab, bff, Outside
<1>2. TypeOK'
  BY <1>1 DEF IInv, Shape, TypeOK, Outside
<1>3. Places' /\ OneRequest'
  BY <1>1 DEF IInv, Shape, Places, OneRequest, Outside
<1>4. Requests'
  BY <1>1 DEF IInv, Shape, Requests, KindOK, TimeOK, Outside
<1>5. Inbox'
  BY <1>1 DEF IInv, Shape, Inbox, AnswerOK, Outside
<1>6. \A t \in Tokens : Seen(t)' = Seen(t)
  BY <1>1 DEF Seen, Holds, Outside
<1>7. Fresh'
  <2>1. \A k \in wire : k.op \in {"exchange", "refresh"} => <<k.call, k.n>> \in Tokens
    BY DEF IInv, Shape, Requests, KindOK, TypeOK, Messages, Tokens
  <2> QED BY <1>1, <1>6, <2>1 DEF IInv, Flow, Fresh
<1>8. NotYet'
  BY <1>1, <1>6 DEF IInv, Flow, NotYet, Pending, Outside, Minters, Tokens
<1>9. OneHolder' /\ Presented'
  BY <1>1 DEF IInv, Flow, OneHolder, Presented, PresentedBy, Holds, Outside
<1>10. Kept'
  BY <1>1 DEF IInv, Flow, Kept, Known, Holds, Cause, CausedBy, Outside
<1> QED BY <1>2, <1>3, <1>4, <1>5, <1>7, <1>8, <1>9, <1>10 DEF IInv, Shape, Flow

LEMMA expireIInv ==
  ASSUME IInv, expire PROVE IInv'
<1> TypeOK /\ Flow
  BY DEF IInv, Shape
<1>1. Outside /\ UNCHANGED <<wire, inbox, recent>>
  BY DEF expire, tab, Outside
<1>2. /\ opened' \subseteq opened /\ live' \subseteq live
      /\ excused \subseteq excused' /\ live \ excused' \subseteq live'
      /\ excused' \subseteq excused \union live
  BY DEF expire
<1>3. TypeOK'
  BY <1>1, <1>2 DEF TypeOK, Outside
<1>4. Places' /\ OneRequest' /\ Requests'
  BY <1>1 DEF IInv, Shape, Places, OneRequest, Requests, KindOK, TimeOK, Outside
<1>5. Inbox'
  BY <1>1 DEF IInv, Shape, Inbox, AnswerOK, Outside
<1>6. Fresh' /\ NotYet'
  BY <1>1 DEF Flow, Fresh, NotYet, Pending, Seen, Holds, Outside
<1>7. OneHolder' /\ Presented'
  BY <1>1, <1>2 DEF Flow, OneHolder, Presented, PresentedBy, Holds, Outside
<1>8. Kept'
  BY <1>1, <1>2 DEF Flow, Kept, Known, Holds, Cause, CausedBy, Outside
<1> QED BY <1>3, <1>4, <1>5, <1>6, <1>7, <1>8 DEF IInv, Shape, Flow

LEMMA secondPassesIInv ==
  ASSUME IInv, secondPasses PROVE IInv'
<1>1. /\ Outside /\ UNCHANGED <<wire, inbox, opened, live, excused>> /\ recent' = {}
  BY DEF secondPasses, tab, Outside
<1>2. TypeOK' /\ Places' /\ OneRequest'
  BY <1>1 DEF IInv, Shape, TypeOK, Places, OneRequest, Outside
<1>3. Requests' /\ Inbox'
  BY <1>1 DEF IInv, Shape, Requests, KindOK, TimeOK, Inbox, AnswerOK, Outside
<1>4. Fresh' /\ NotYet'
  <2>1. \A t : Seen(t)' => Seen(t)
    BY <1>1 DEF Seen, Holds, Outside
  <2> QED BY <1>1, <2>1 DEF IInv, Flow, Fresh, NotYet, Pending, Outside
<1>5. OneHolder' /\ Presented'
  BY <1>1 DEF IInv, Flow, OneHolder, Presented, PresentedBy, Holds, Outside
<1>6. Kept'
  BY <1>1 DEF IInv, Flow, Kept, Known, Holds, Cause, CausedBy, Outside
<1> QED BY <1>2, <1>3, <1>4, <1>5, <1>6 DEF IInv, Shape, Flow

LEMMA serveInitiateIInv ==
  ASSUME IInv, NEW m \in wire, serveInitiate(m) PROVE IInv'
<1> TypeOK /\ m \in Messages /\ KindOK(m)
  BY DEF IInv, Shape, TypeOK, Requests
<1>1. m.op = "initiate" /\ Outside /\ UNCHANGED <<live, recent, excused>>
  BY DEF serveInitiate, tab, Outside
<1>2. PICK result \in Results : answer(m, result, NoToken)
  BY DEF serveInitiate, Results
<1>3. TypedBff'
  <2>1. <<m.call, m.n>> \in SignIns \X Attempts
    BY <1>1 DEF KindOK, Messages
  <2>2. opened' \subseteq opened \union {<<m.call, m.n>>}
    BY DEF serveInitiate
  <2> QED BY <1>1, <2>1, <2>2 DEF TypeOK, TypedBff
<1>4. Revokes(m, result)
  BY <1>1 DEF Revokes
<1> QED BY <1>1, <1>2, <1>3, <1>4, NothingMinted, AnswerIInv

LEMMA serveLogoutIInv ==
  ASSUME IInv, NEW m \in wire, serveLogout(m) PROVE IInv'
<1> TypeOK /\ m \in Messages /\ KindOK(m)
  BY DEF IInv, Shape, TypeOK, Requests
<1>1. m.op = "logout" /\ Outside /\ UNCHANGED <<opened, recent, excused>>
  BY DEF serveLogout, tab, Outside
<1>2. live' \in {live, live \ {used[m.call]}}
  BY DEF serveLogout
<1>3. PICK result \in {"ok", "broken"} : answer(m, result, NoToken)
  BY DEF serveLogout
<1>4. m.call \in Presenters /\ result \in Results
  BY <1>1, KindOf DEF Presenters, Results
<1>5. TypedBff'
  BY <1>1, <1>2 DEF TypeOK, TypedBff
<1>6. Revokes(m, result)
  BY <1>1, <1>2, <1>3, <1>4 DEF Revokes
<1> QED BY <1>1, <1>3, <1>4, <1>5, <1>6, NothingMinted, AnswerIInv

\* A token is stored and handed out, or the answer is lost in the BFF.
LEMMA StoreIInv ==
  ASSUME IInv, NEW m \in wire, NEW t \in Tokens, NEW rest, Outside,
         m.call \in Minters, m.n \in Attempts, m.op \in {"exchange", "refresh"},
         opened' \subseteq opened, rest \subseteq Tokens,
         \A u \in live : u \in rest \/ (m.call \in Presenters /\ used[m.call] = u),
         storeToken(m.call, m.n, t, rest),
         answer(m, "ok", t) \/ answer(m, "broken", NoToken)
  PROVE  IInv'
<1>1. /\ t \in {<<m.call, m.n>>} \union recent
      /\ live' = rest \union {t} /\ recent' = recent \union {t}
      /\ excused' = IF t \in recent THEN excused \union {t} ELSE excused
  BY DEF storeToken
<1>2. TypedBff'
  BY <1>1 DEF IInv, Shape, TypeOK, TypedBff
<1>3. \A result \in {"ok", "broken"} : Revokes(m, result)
  BY <1>1 DEF Revokes
<1>4. \A u \in recent' \ recent :
        u = <<m.call, m.n>> /\ m.op \in {"exchange", "refresh"}
  BY <1>1
<1>5. CASE answer(m, "ok", t)
  <2>1. Mints(m, t)
    BY <1>1, <1>4 DEF Mints, Seen
  <2>2. Brings(m, "ok", t) /\ "ok" \in Results
    BY DEF Brings, Results
  <2> QED BY <1>2, <1>3, <1>5, <2>1, <2>2, AnswerIInv
<1>6. CASE answer(m, "broken", NoToken)
  <2>1. "broken" \in Results
    BY DEF Results
  <2> QED BY <1>2, <1>3, <1>4, <1>6, <2>1, NothingMinted, AnswerIInv
<1> QED BY <1>5, <1>6

LEMMA serveExchangeIInv ==
  ASSUME IInv, NEW m \in wire, serveExchange(m) PROVE IInv'
<1> TypeOK /\ m \in Messages /\ KindOK(m)
  BY DEF IInv, Shape, TypeOK, Requests
<1>1. m.op = "exchange" /\ Outside /\ opened' \subseteq opened
  BY DEF serveExchange, tab, Outside
<1>2. /\ m.call \in Minters /\ m.n \in Attempts
      /\ m.op \in {"exchange", "refresh"} /\ live \subseteq Tokens
      /\ \A u \in live : u \in live \/ (m.call \in Presenters /\ used[m.call] = u)
  BY <1>1 DEF KindOK, Messages, Minters, TypeOK
<1>3. ASSUME NEW t \in Tokens, storeToken(m.call, m.n, t, live),
             answer(m, "ok", t) \/ answer(m, "broken", NoToken)
      PROVE  IInv'
  BY <1>1, <1>2, <1>3, StoreIInv
<1>4. CASE /\ \E result \in {"rejected", "broken"} : answer(m, result, NoToken)
           /\ UNCHANGED <<live, recent, excused>>
  <2>1. PICK result \in {"rejected", "broken"} : answer(m, result, NoToken)
    BY <1>4
  <2>2. result \in Results /\ result # "ok"
    BY DEF Results
  <2>3. TypedBff' /\ Revokes(m, result)
    BY <1>1, <1>4 DEF TypeOK, TypedBff, Revokes
  <2> QED BY <1>1, <1>4, <2>1, <2>2, <2>3, NothingMinted, AnswerIInv
<1> QED BY <1>3, <1>4 DEF serveExchange

LEMMA serveRefreshIInv ==
  ASSUME IInv, NEW m \in wire, serveRefresh(m) PROVE IInv'
<1> /\ TypeOK /\ Presented /\ Places /\ m \in Messages /\ KindOK(m) /\ TimeOK(m)
  BY DEF IInv, Shape, Flow, TypeOK, Requests
<1>1. m.op = "refresh" /\ Outside /\ opened' = opened
  BY DEF serveRefresh, tab, Outside
<1>2. m.call \in Refreshes /\ m.call \in Presenters /\ m.n = 0 /\ m.call \in Calls
  BY <1>1 DEF KindOK, Presenters, Calls
<1>3. used[m.call] \in Tokens
  <2>1. CASE pc[m.call] = "refresh"
    BY <1>2, <2>1 DEF Places, Presented, PresentedBy, TypeOK
  <2>2. CASE outcome[m.call] \in {"unreachable", "reloaded"}
    <3>1. pc[m.call] # "idle"
      BY DEF TimeOK
    <3> QED BY <1>2, <2>2, <3>1 DEF Presented, PresentedBy, TypeOK
  <2> QED BY <1>1, <1>2, <2>1, <2>2 DEF TimeOK
<1> DEFINE rest == live \ {used[m.call]}
<1>4. /\ m.call \in Minters /\ m.n \in Attempts
      /\ m.op \in {"exchange", "refresh"}
      /\ \A u \in live : u \in rest \/ (m.call \in Presenters /\ used[m.call] = u)
      /\ rest \subseteq Tokens
  BY <1>1, <1>2, <1>3 DEF Messages, Minters, TypeOK
<1>5. ASSUME NEW t \in Tokens, storeToken(m.call, m.n, t, rest),
             answer(m, "ok", t) \/ answer(m, "broken", NoToken)
      PROVE  IInv'
  <2> opened' \subseteq opened
    BY <1>1
  <2> HIDE DEF rest
  <2> QED BY <1>1, <1>4, <1>5, StoreIInv
<1>6. CASE /\ live' \in {live, rest} /\ UNCHANGED <<recent, excused>>
           /\ answer(m, "broken", NoToken)
  <2>1. "broken" \in Results
    BY DEF Results
  <2>2. TypedBff' /\ Revokes(m, "broken")
    BY <1>1, <1>2, <1>6 DEF TypeOK, TypedBff, Revokes
  <2> QED BY <1>1, <1>6, <2>1, <2>2, NothingMinted, AnswerIInv
<1> QED BY <1>5, <1>6 DEF serveRefresh

LEMMA serveReadIInv ==
  ASSUME IInv, NEW m \in wire, serveRead(m) PROVE IInv'
<1> /\ Shape /\ Flow /\ TypeOK /\ Places /\ Requests /\ OneRequest /\ Inbox
    /\ m \in Messages
  BY DEF IInv, Shape, TypeOK
<1> DEFINE k == [m EXCEPT !.read = TRUE]
<1>1. /\ m.op \in {"exchange", "refresh"} /\ Outside
      /\ UNCHANGED <<opened, live, recent, excused>>
  BY DEF serveRead, tab, bff, Outside
<1>2. CASE \E result \in {"rejected", "broken"} : answer(m, result, NoToken)
  <2>1. PICK result \in {"rejected", "broken"} : answer(m, result, NoToken)
    BY <1>2
  <2>2. result \in Results /\ result # "ok"
    BY DEF Results
  <2>3. TypedBff' /\ Revokes(m, result)
    BY <1>1 DEF TypeOK, TypedBff, Revokes
  <2> QED BY <1>1, <2>1, <2>2, <2>3, NothingMinted, AnswerIInv
<1>3. CASE wire' = (wire \ {m}) \union {k} /\ UNCHANGED inbox
  <2>1. k.call = m.call /\ k.op = m.op /\ k.n = m.n /\ k \in Messages
    BY DEF Messages
  <2>2. KindOK(m) /\ TimeOK(m)
    BY DEF Requests
  <2> HIDE DEF k
  <2>3. \A j \in wire' : \E i \in wire : i.call = j.call /\ i.op = j.op /\ i.n = j.n
    BY <1>3, <2>1
  <2>4. TypeOK' /\ Places'
    BY <1>1, <1>3, <2>1 DEF TypeOK, Places, Outside
  <2>5. Requests'
    <3> SUFFICES ASSUME NEW j \in wire' PROVE KindOK(j)' /\ TimeOK(j)'
      BY DEF Requests
    <3>1. PICK i \in wire : i.call = j.call /\ i.op = j.op /\ i.n = j.n
      BY <2>3
    <3>2. KindOK(i) /\ TimeOK(i)
      BY DEF Requests
    <3>3. KindOK(j)' /\ TimeOK(j)
      BY <3>1, <3>2 DEF KindOK, TimeOK
    <3>4. TimeOK(j)'
      BY <1>1, <1>3, <3>3 DEF TimeOK, Outside
    <3> QED BY <3>3, <3>4
  <2>6. OneRequest'
    BY <1>3, <2>1 DEF OneRequest
  <2>7. Inbox'
    <3> SUFFICES ASSUME NEW c \in Calls, inbox[c] # NoAnswer PROVE AnswerOK(c)'
      BY <1>3 DEF Inbox, AnswerOK
    <3>1. AnswerOK(c)
      BY DEF Inbox
    <3>2. \A j \in wire' : ~(j.call = c /\ j.op = pc[c] /\ j.n = attempt[c])
      BY <2>3, <3>1 DEF AnswerOK
    <3> QED BY <1>1, <1>3, <3>1, <3>2 DEF AnswerOK, Outside
  <2>8. Fresh'
    BY <1>1, <1>3, <2>3 DEF Flow, Fresh, Seen, Holds, Outside
  <2>9. NotYet'
    BY <1>1, <1>3 DEF Flow, NotYet, Pending, Seen, Holds, Outside
  <2>10. OneHolder' /\ Presented'
    BY <1>1, <1>3 DEF Flow, OneHolder, Presented, PresentedBy, Holds, Outside
  <2>11. Kept'
    BY <1>1, <1>3 DEF Flow, Kept, Known, Holds, Cause, CausedBy, Outside
  <2> QED BY <2>4, <2>5, <2>6, <2>7, <2>8, <2>9, <2>10, <2>11 DEF IInv, Shape, Flow
<1> QED BY <1>2, <1>3 DEF serveRead
---------------------------------------------------------------------------
LEMMA StutterIInv == IInv /\ UNCHANGED vars => IInv'
<1> SUFFICES ASSUME IInv, UNCHANGED vars PROVE IInv'
  OBVIOUS
<1>1. Outside /\ UNCHANGED <<wire, inbox, opened, live, recent, excused>>
  BY DEF vars, tab, bff, Outside
<1>2. TypeOK' /\ Places' /\ OneRequest'
  BY <1>1 DEF IInv, Shape, TypeOK, Places, OneRequest, Outside
<1>3. Requests' /\ Inbox'
  BY <1>1 DEF IInv, Shape, Requests, KindOK, TimeOK, Inbox, AnswerOK, Outside
<1>4. Fresh' /\ NotYet'
  BY <1>1 DEF IInv, Flow, Fresh, NotYet, Pending, Seen, Holds, Outside
<1>5. OneHolder' /\ Presented'
  BY <1>1 DEF IInv, Flow, OneHolder, Presented, PresentedBy, Holds, Outside
<1>6. Kept'
  BY <1>1 DEF IInv, Flow, Kept, Known, Holds, Cause, CausedBy, Outside
<1> QED BY <1>2, <1>3, <1>4, <1>5, <1>6 DEF IInv, Shape, Flow

LEMMA StepIInv == IInv /\ [Next]_vars => IInv'
<1> SUFFICES ASSUME IInv, [Next]_vars PROVE IInv'
  OBVIOUS
<1>1. CASE Start
  BY <1>1, signInIInv, refreshTokensIInv, logoutIInv DEF Start
<1>2. ASSUME NEW c \in SignIns, SignInStep(c) PROVE IInv'
  BY <1>2, backoffIInv, retryIInv, giveUpIInv, signInFailsIInv, savePkceSessionIInv,
     signedInIInv DEF SignInStep
<1>3. ASSUME NEW f \in Refreshes, RefreshStep(f) PROVE IInv'
  BY <1>3, refreshedIInv, requestFailsIInv DEF RefreshStep, Presenters
<1>4. ASSUME NEW l \in Logouts, LogoutStep(l) PROVE IInv'
  BY <1>4, loggedOutIInv, requestFailsIInv DEF LogoutStep, Presenters
<1>5. CASE Serve
  BY <1>5, lostIInv, serveInitiateIInv, serveReadIInv, serveExchangeIInv,
     serveRefreshIInv, serveLogoutIInv DEF Serve
<1> QED BY <1>1, <1>2, <1>3, <1>4, <1>5, reloadIInv, expireIInv, secondPassesIInv,
           StutterIInv DEF Next

LEMMA Inductive == Spec => []IInv
BY InitIInv, StepIInv, PTL DEF Spec

\* Every variable keeps its type; the inboxes, of which an answer to an earlier
\* attempt must never be taken for one to the present, are the part that needs
\* the invariant.
THEOREM TypeCorrect == Spec => []TypeOK
<1>1. IInv => TypeOK
  BY DEF IInv, Shape
<1> QED BY <1>1, Inductive, PTL

\* The refresh token the tab keeps is accepted, or a refresh or logout that
\* presented it has not heard how it ended: for any number of sign-ins,
\* refreshes and logouts of bff-client.ts and usePkceLogin.ts that overlap.
THEOREM SessionIsUsable == Spec => []SessionUsable
<1>1. IInv => SessionUsable
  <2> SUFFICES ASSUME IInv, session # NoToken, session \notin excused,
                      ~Spent(session), session \notin live
               PROVE  FALSE
    BY DEF SessionUsable
  <2>1. session \in Tokens \ excused
    BY DEF IInv, Shape, TypeOK
  <2>2. PICK g \in Presenters : CausedBy(g, session)
    BY <2>1 DEF IInv, Flow, Kept, Known, Cause
  <2>3. outcome[g] \notin {"ok", "rejected", "no session"}
    <3>1. CASE outcome[g] \in Unheard
      BY <3>1 DEF Unheard
    <3>2. CASE inbox[g] # NoAnswer
      <4>1. pc[g] # "done"
        BY <3>2 DEF IInv, Shape, Inbox, AnswerOK, Awaits, Presenters, Calls
      <4> QED BY <4>1 DEF IInv, Shape, Places, Presenters, Calls
    <3> QED BY <2>2, <3>1, <3>2 DEF CausedBy
  <2> QED BY <2>2, <2>3 DEF Spent, CausedBy, Presenters
<1> QED BY <1>1, Inductive, PTL
---------------------------------------------------------------------------
LEMMA StepSpinner == TypeOK /\ SpinnerStops /\ [Next]_vars => SpinnerStops'
<1> DEFINE Busy(c) == pc[c] \notin {"idle", "done"}
<1> SUFFICES ASSUME TypeOK, SpinnerStops, [Next]_vars, loading'
             PROVE  \E c \in SignIns : Busy(c)'
  BY DEF SpinnerStops
<1>1. ASSUME loading' = loading, \A c \in SignIns : pc'[c] = pc[c]
      PROVE  \E c \in SignIns : Busy(c)'
  BY <1>1 DEF SpinnerStops
<1>2. ASSUME NEW c \in SignIns, NEW p \in Awaits \union Backoffs, pc' = [pc EXCEPT ![c] = p]
      PROVE  \E d \in SignIns : Busy(d)'
  BY <1>2 DEF TypeOK, Calls, Awaits, Backoffs
<1>3. ASSUME NEW g \in Presenters, NEW p, pc' = [pc EXCEPT ![g] = p], loading' = loading
      PROVE  \E c \in SignIns : Busy(c)'
  <2>1. \A c \in SignIns : pc'[c] = pc[c]
    BY <1>3, CallsAreDisjoint DEF TypeOK, Presenters, Calls
  <2> QED BY <1>1, <1>3, <2>1
<1>4. CASE Start
  <2>1. ASSUME NEW c \in SignIns, signIn(c) PROVE \E d \in SignIns : Busy(d)'
    BY <1>2, <2>1 DEF signIn, send, Awaits
  <2>2. ASSUME NEW f \in Refreshes, refreshTokens(f) PROVE \E d \in SignIns : Busy(d)'
    BY <1>3, <2>2 DEF refreshTokens, send, settle, Presenters
  <2>3. ASSUME NEW l \in Logouts, logout(l) PROVE \E d \in SignIns : Busy(d)'
    BY <1>3, <2>3 DEF logout, send, settle, Presenters
  <2> QED BY <1>4, <2>1, <2>2, <2>3 DEF Start
<1>5. ASSUME NEW c \in SignIns, SignInStep(c) PROVE \E d \in SignIns : Busy(d)'
  <2>1. \A result : ~signInEnds(c, result)
    BY DEF signInEnds
  <2>2. ASSUME NEW op \in {"initiate", "exchange"}, backoff(c, op)
        PROVE  \E d \in SignIns : Busy(d)'
    BY <1>2, <2>2 DEF backoff, Backoff, Backoffs
  <2>3. ASSUME NEW op \in {"initiate", "exchange"}, retry(c, op)
        PROVE  \E d \in SignIns : Busy(d)'
    BY <1>2, <2>3 DEF retry, send, Awaits
  <2>4. ASSUME savePkceSession(c) PROVE \E d \in SignIns : Busy(d)'
    BY <1>2, <2>1, <2>4 DEF savePkceSession, send, Awaits
  <2>5. \A op : ~giveUp(c, op) /\ ~signInFails(c, op)
    BY <2>1 DEF giveUp, signInFails
  <2>6. ~signedIn(c)
    BY <2>1 DEF signedIn
  <2> QED BY <1>5, <2>2, <2>3, <2>4, <2>5, <2>6 DEF SignInStep
<1>6. ASSUME NEW g \in Presenters, NEW op, requestFails(g, op)
      PROVE  \E d \in SignIns : Busy(d)'
  BY <1>3, <1>6 DEF requestFails, settle
<1>7. ASSUME NEW f \in Refreshes, RefreshStep(f) PROVE \E d \in SignIns : Busy(d)'
  BY <1>3, <1>6, <1>7 DEF RefreshStep, refreshed, settle, Presenters
<1>8. ASSUME NEW l \in Logouts, LogoutStep(l) PROVE \E d \in SignIns : Busy(d)'
  BY <1>3, <1>6, <1>8 DEF LogoutStep, loggedOut, settle, Presenters
<1>9. CASE reload
  BY <1>9 DEF reload
<1>10. CASE Serve
  <2>1. UNCHANGED <<loading, pc>>
    BY <1>10 DEF Serve, lost, serveInitiate, serveRead, serveExchange, serveRefresh,
                 serveLogout, tab
  <2> QED BY <1>1, <2>1
<1>11. CASE expire \/ secondPasses \/ UNCHANGED vars
  <2>1. UNCHANGED <<loading, pc>>
    BY <1>11 DEF expire, secondPasses, vars, tab
  <2> QED BY <1>1, <2>1
<1> QED BY <1>4, <1>5, <1>7, <1>8, <1>9, <1>10, <1>11 DEF Next

\* The spinner never turns for nobody: whichever of several sign-ins starts,
\* backs off or ends last, loading is only on while one is in flight.
THEOREM SpinnerIsHonest == Spec => []SpinnerStops
<1>1. Init => SpinnerStops
  BY DEF Init, SpinnerStops
<1> QED BY <1>1, StepSpinner, TypeCorrect, PTL DEF Spec

Busy(c) == pc[c] \notin {"idle", "done"}

\* One sign-in at a time, which is what a form disabled by loading gives.
OneSignIn == \A c, d \in SignIns : Busy(c) /\ Busy(d) => c = d

SpinnerTurns == \A c \in SignIns : Busy(c) => loading

\* A sign-in that ends switches the spinner off for all of them.
LEMMA EndTurns ==
  ASSUME TypeOK, OneSignIn, NEW c \in SignIns, Busy(c), NEW result, signInEnds(c, result)
  PROVE  SpinnerTurns'
<1> SUFFICES ASSUME NEW d \in SignIns, Busy(d)' PROVE FALSE
  BY DEF SpinnerTurns
<1>1. pc'[c] = "done" /\ (d # c => pc'[d] = pc[d])
  BY DEF signInEnds, settle, TypeOK, Calls, Busy
<1> QED BY <1>1 DEF OneSignIn, Busy

LEMMA StepTurns == TypeOK /\ OneSignIn /\ SpinnerTurns /\ [Next]_vars => SpinnerTurns'
<1> SUFFICES ASSUME TypeOK, OneSignIn, SpinnerTurns, [Next]_vars PROVE SpinnerTurns'
  OBVIOUS
<1>1. ASSUME loading' = loading, \A c \in SignIns : pc'[c] = pc[c]
      PROVE  SpinnerTurns'
  BY <1>1 DEF SpinnerTurns, Busy
<1>2. ASSUME NEW c \in SignIns, Busy(c), NEW p, pc' = [pc EXCEPT ![c] = p], loading' = loading
      PROVE  SpinnerTurns'
  BY <1>2 DEF SpinnerTurns, Busy, TypeOK
<1>3. ASSUME NEW g \in Presenters, NEW p, pc' = [pc EXCEPT ![g] = p], loading' = loading
      PROVE  SpinnerTurns'
  <2>1. \A c \in SignIns : pc'[c] = pc[c]
    BY <1>3, CallsAreDisjoint DEF TypeOK, Presenters, Calls
  <2> QED BY <1>1, <1>3, <2>1
<1>4. CASE Start
  <2>1. ASSUME NEW c \in SignIns, signIn(c) PROVE SpinnerTurns'
    BY <2>1 DEF signIn, SpinnerTurns
  <2>2. ASSUME NEW f \in Refreshes, refreshTokens(f) PROVE SpinnerTurns'
    BY <1>3, <2>2 DEF refreshTokens, send, settle, Presenters
  <2>3. ASSUME NEW l \in Logouts, logout(l) PROVE SpinnerTurns'
    BY <1>3, <2>3 DEF logout, send, settle, Presenters
  <2> QED BY <1>4, <2>1, <2>2, <2>3 DEF Start
<1>5. ASSUME NEW c \in SignIns, SignInStep(c) PROVE SpinnerTurns'
  <2>1. \A op \in {"initiate", "exchange"} :
          op \notin {"idle", "done"} /\ Backoff(op) \notin {"idle", "done"}
    BY DEF Backoff
  <2>2. ASSUME NEW op \in {"initiate", "exchange"}, backoff(c, op) PROVE SpinnerTurns'
    BY <1>2, <2>1, <2>2 DEF backoff, Busy
  <2>3. ASSUME NEW op \in {"initiate", "exchange"}, retry(c, op) PROVE SpinnerTurns'
    BY <1>2, <2>1, <2>3 DEF retry, send, Busy
  <2>4. ASSUME NEW op \in {"initiate", "exchange"}, giveUp(c, op) \/ signInFails(c, op)
        PROVE  SpinnerTurns'
    BY <2>1, <2>4, EndTurns DEF giveUp, signInFails, Answered, Refused, Succeeded, Busy
  <2>5. ASSUME savePkceSession(c) PROVE SpinnerTurns'
    BY <1>2, <2>5, EndTurns DEF savePkceSession, send, Succeeded, Answered, Busy
  <2>6. ASSUME signedIn(c) PROVE SpinnerTurns'
    BY <2>6, EndTurns DEF signedIn, Succeeded, Answered, Busy
  <2> QED BY <1>5, <2>2, <2>3, <2>4, <2>5, <2>6 DEF SignInStep
<1>6. ASSUME NEW g \in Presenters, NEW op, requestFails(g, op) PROVE SpinnerTurns'
  BY <1>3, <1>6 DEF requestFails, settle
<1>7. ASSUME NEW f \in Refreshes, RefreshStep(f) PROVE SpinnerTurns'
  BY <1>3, <1>6, <1>7 DEF RefreshStep, refreshed, settle, Presenters
<1>8. ASSUME NEW l \in Logouts, LogoutStep(l) PROVE SpinnerTurns'
  BY <1>3, <1>6, <1>8 DEF LogoutStep, loggedOut, settle, Presenters
<1>9. CASE reload
  BY <1>9 DEF reload, SpinnerTurns, Busy, Calls
<1>10. CASE Serve
  <2>1. UNCHANGED <<loading, pc>>
    BY <1>10 DEF Serve, lost, serveInitiate, serveRead, serveExchange, serveRefresh,
                 serveLogout, tab
  <2> QED BY <1>1, <2>1
<1>11. CASE expire \/ secondPasses \/ UNCHANGED vars
  <2>1. UNCHANGED <<loading, pc>>
    BY <1>11 DEF expire, secondPasses, vars, tab
  <2> QED BY <1>1, <2>1
<1> QED BY <1>4, <1>5, <1>7, <1>8, <1>9, <1>10, <1>11 DEF Next

\* With one sign-in at a time the spinner turns exactly while it is under way,
\* through its back-offs and repeated requests (setLoading and the finally of
\* usePkceLogin). Two that overlap share the flag: the first to end clears it.
THEOREM SpinnerIsExact ==
  Spec /\ []OneSignIn => [](loading <=> \E c \in SignIns : Busy(c))
<1>1. Init => SpinnerTurns
  BY DEF Init, SpinnerTurns, Busy, Calls
<1>2. SpinnerStops /\ SpinnerTurns => (loading <=> \E c \in SignIns : Busy(c))
  BY DEF SpinnerStops, SpinnerTurns, Busy
<1> QED BY <1>1, <1>2, StepTurns, SpinnerIsHonest, TypeCorrect, PTL DEF Spec
---------------------------------------------------------------------------
(* What a refused sign-in has left behind.                                 *)

\* The token of attempt n of the sign-in exists neither in the BFF nor in the tab.
Clean(c, n) == <<c, n>> \notin live /\ ~Seen(<<c, n>>)
Exchanging(c, n) == \E m \in wire : m.call = c /\ m.op = "exchange" /\ m.n = n
RefusedNow(c) == inbox[c] # NoAnswer /\ inbox[c].result = "rejected"
Turned(c, n) == outcome[c] = "rejected" /\ n >= attempt[c]

\* Attempt n of its exchange is not sent, not carried out, or was refused.
Untouched(c, n) ==
  \/ Pending(c, n)
  \/ pc[c] = "exchange" /\ attempt[c] = n /\ (Exchanging(c, n) \/ RefusedNow(c))
  \/ Turned(c, n)

RefusalInv ==
  \A c \in SignIns, n \in Attempts :
    /\ Untouched(c, n) => Clean(c, n)
    /\ Turned(c, n) => ~Exchanging(c, n)

LEMMA InitRefusalInv == Init => RefusalInv
<1> SUFFICES ASSUME Init PROVE RefusalInv
  OBVIOUS
<1>1. \A t \in Tokens : ~Seen(t) /\ t \notin live
  BY NullValues DEF Init, Seen, Holds, Presenters, Calls
<1>2. \A c \in SignIns, n \in Attempts : <<c, n>> \in Tokens
  BY DEF Tokens
<1>3. \A c \in SignIns, n \in Attempts : ~Exchanging(c, n)
  BY DEF Init, Exchanging
<1> QED BY <1>1, <1>2, <1>3 DEF RefusalInv, Clean

LEMMA RefusalKept ==
  ASSUME RefusalInv,
         \A c \in SignIns, n \in Attempts : Untouched(c, n)' => Untouched(c, n),
         \A c \in SignIns, n \in Attempts :
           Untouched(c, n)' /\ Clean(c, n) => Clean(c, n)',
         \A c \in SignIns, n \in Attempts : Turned(c, n)' => ~Exchanging(c, n)'
  PROVE  RefusalInv'
BY DEF RefusalInv

\* Where the exchange requests of a sign-in can be.
LEMMA ExchangeRequests ==
  ASSUME IInv, NEW m \in wire, m.op = "exchange"
  PROVE  /\ m.call \in SignIns /\ m.n \in Attempts
         /\ pc[m.call] \in {"exchange", "retry exchange", "done"}
         /\ pc[m.call] \in {"exchange", "retry exchange"} => m.n <= attempt[m.call]
         /\ pc[m.call] = "exchange" /\ attempt[m.call] = m.n => inbox[m.call] = NoAnswer
         /\ \A k \in wire :
              k.call = m.call /\ k.op = "exchange" /\ k.n = m.n => k = m
<1> USE DEF IInv, Shape
<1>1. m \in Messages /\ KindOK(m) /\ TimeOK(m)
  BY DEF TypeOK, Requests
<1>2. /\ m.call \in SignIns /\ m.n \in Attempts
      /\ pc[m.call] \in {"exchange", "retry exchange", "done"}
  BY <1>1 DEF KindOK, TimeOK, Messages
<1>3. pc[m.call] \in {"exchange", "retry exchange"} => m.n <= attempt[m.call]
  BY <1>1 DEF TimeOK, Backoff
<1>4. AnswerOK(m.call)
  BY <1>2 DEF Inbox, Calls
<1>5. \A k \in wire : k.call = m.call /\ k.op = "exchange" /\ k.n = m.n => k = m
  BY DEF OneRequest
<1>6. pc[m.call] = "exchange" /\ attempt[m.call] = m.n => inbox[m.call] = NoAnswer
  BY <1>4 DEF AnswerOK
<1> QED BY <1>2, <1>3, <1>5, <1>6

\* A step of the tab in call c. A sign-in goes on, to an exchange only of an
\* attempt not sent before; or it ends, as rejected only on an answer that says so.
Follows(c) ==
  \/ /\ outcome'[c] # "rejected"
     /\ \A n \in Attempts : Pending(c, n)' => Pending(c, n)
     /\ pc'[c] = "exchange" => Pending(c, attempt'[c])
  \/ /\ pc'[c] = "done" /\ attempt'[c] = attempt[c] /\ wire' = wire
     /\ RefusedNow(c) /\ pc[c] \in {"initiate", "exchange"}
TabMove(c) ==
  /\ \A d \in Calls \ {c} : Same(d)
  /\ inbox'[c] \in {inbox[c], NoAnswer}
  /\ live' = live /\ recent' = recent
  /\ session' \in {session, NoToken} \/ Holds(c, session')
  /\ \A g \in Presenters : used'[g] \in {used[g], session}
  /\ \A m \in wire' : m \in wire \/ m.call = c
  /\ c \in SignIns => Follows(c)

LEMMA TabSees ==
  ASSUME NEW c \in Calls, TabMove(c), NEW t \in Tokens, Seen(t)'
  PROVE  Seen(t)
<1>1. ASSUME NEW d \in Calls, Holds(d, t)' PROVE Holds(d, t)
  <2>1. CASE d = c
    BY <1>1, <2>1 DEF TabMove, Holds
  <2>2. CASE d # c
    BY <1>1, <2>2 DEF TabMove, Same, Holds
  <2> QED BY <2>1, <2>2
<1>2. CASE session' = t
  BY <1>2, NullValues DEF TabMove, Seen
<1>3. CASE \E g \in Presenters : used'[g] = t
  BY <1>3 DEF TabMove, Seen
<1>4. CASE \E d \in Calls : Holds(d, t)'
  BY <1>1, <1>4 DEF Seen
<1>5. CASE t \in recent'
  BY <1>5 DEF TabMove, Seen
<1> QED BY <1>2, <1>3, <1>4, <1>5 DEF Seen

LEMMA AtLeast == \A i, j \in Attempts : i >= j => i > j \/ i = j
BY Retries DEF Attempts

LEMMA AtMost == \A i, j \in Attempts : i >= j /\ i <= j => i = j
BY Retries DEF Attempts

LEMMA TabRefusal ==
  ASSUME IInv, RefusalInv, NEW c \in Calls, TabMove(c)
  PROVE  RefusalInv'
<1>1. ASSUME NEW d \in SignIns, NEW n \in Attempts, Clean(d, n) PROVE Clean(d, n)'
  <2>1. <<d, n>> \in Tokens
    BY DEF Tokens
  <2> QED BY <1>1, <2>1, TabSees DEF Clean, TabMove
<1>2. ASSUME NEW d \in SignIns, NEW n \in Attempts, d # c
      PROVE  /\ Exchanging(d, n)' => Exchanging(d, n)
             /\ Turned(d, n)' => Turned(d, n)
             /\ Untouched(d, n)' => Untouched(d, n)
  <2>1. Same(d)
    BY <1>2 DEF TabMove, Calls
  <2>2. Exchanging(d, n)' => Exchanging(d, n)
    BY <1>2 DEF TabMove, Exchanging
  <2>3. (Turned(d, n)' => Turned(d, n)) /\ (RefusedNow(d)' => RefusedNow(d))
    BY <2>1 DEF Same, Turned, RefusedNow
  <2>4. Pending(d, n)' => Pending(d, n)
    BY <2>1 DEF Same, Pending
  <2> QED BY <2>1, <2>2, <2>3, <2>4 DEF Same, Untouched
<1>3. ASSUME c \in SignIns, NEW n \in Attempts, Untouched(c, n)' PROVE Untouched(c, n)
  <2>1. Follows(c) /\ attempt[c] \in Attempts
    BY <1>3 DEF TabMove, IInv, Shape, TypeOK
  <2>2. CASE /\ outcome'[c] # "rejected"
             /\ \A k \in Attempts : Pending(c, k)' => Pending(c, k)
             /\ pc'[c] = "exchange" => Pending(c, attempt'[c])
    BY <1>3, <2>2 DEF Untouched, Turned
  <2>3. CASE /\ pc'[c] = "done" /\ attempt'[c] = attempt[c]
             /\ RefusedNow(c) /\ pc[c] \in {"initiate", "exchange"}
    <3>1. n >= attempt[c]
      BY <1>3, <2>3 DEF Untouched, Turned, Pending
    <3>2. n > attempt[c] \/ n = attempt[c]
      BY <2>1, <3>1, AtLeast
    <3> QED BY <2>3, <3>2 DEF Untouched, Pending
  <2> QED BY <2>1, <2>2, <2>3 DEF Follows
<1>4. ASSUME c \in SignIns, NEW n \in Attempts, Turned(c, n)', Exchanging(c, n)'
      PROVE  FALSE
  <2>1. /\ n >= attempt[c] /\ wire' = wire /\ RefusedNow(c)
        /\ pc[c] \in {"initiate", "exchange"}
    BY <1>4 DEF TabMove, Follows, Turned
  <2>2. PICK m \in wire : m.call = c /\ m.op = "exchange" /\ m.n = n
    BY <1>4, <2>1 DEF Exchanging
  <2>3. pc[c] = "exchange" /\ n <= attempt[c]
    BY <2>1, <2>2, ExchangeRequests
  <2>4. n = attempt[c]
    BY <2>1, <2>3, <1>4, AtMost DEF IInv, Shape, TypeOK
  <2>5. inbox[c] = NoAnswer
    BY <2>2, <2>3, <2>4, ExchangeRequests
  <2> QED BY <2>1, <2>5 DEF RefusedNow
<1>5. \A d \in SignIns, n \in Attempts : Untouched(d, n)' => Untouched(d, n)
  BY <1>2, <1>3
<1>6. \A d \in SignIns, n \in Attempts : Turned(d, n)' => ~Exchanging(d, n)'
  BY <1>2, <1>4 DEF RefusalInv
<1> QED BY <1>1, <1>5, <1>6, RefusalKept

LEMMA GreaterYet == \A i, j, k \in Attempts : i > j /\ j > k => i > k
BY Retries DEF Attempts

\* send, from a state in which the call has not ended.
LEMMA SendMove ==
  ASSUME TypeOK, NEW c \in Calls, NEW op \in Awaits, NEW n \in Attempts, send(c, op, n),
         session' = session, live' = live, recent' = recent,
         \A g \in Presenters : used'[g] \in {used[g], session},
         outcome' = outcome, outcome[c] = "none",
         c \in SignIns =>
           \/ op = "initiate" /\ pc[c] \in {"idle", "retry initiate"}
           \/ /\ op = "exchange"
              /\ pc[c] = "initiate" \/ (pc[c] = "retry exchange" /\ n > attempt[c])
  PROVE  TabMove(c)
<1>1. /\ pc'[c] = op /\ attempt'[c] = n /\ inbox'[c] = NoAnswer
      /\ \A d \in Calls \ {c} : Same(d)
  BY DEF TypeOK, send, Same
<1> DEFINE new == [call |-> c, op |-> op, n |-> n, read |-> FALSE]
<1>2. \A m \in wire' : m \in wire \/ m.call = c
  <2>1. wire' = wire \union {new} /\ new.call = c
    BY DEF send
  <2> HIDE DEF new
  <2> QED BY <2>1
<1>3. ASSUME c \in SignIns PROVE Follows(c)
  <2>1. CASE pc[c] \in {"idle", "retry initiate", "initiate"}
    BY <1>1, <2>1 DEF Follows, Pending
  <2>2. CASE op = "exchange" /\ pc[c] = "retry exchange" /\ n > attempt[c]
    <3>1. Pending(c, n) /\ attempt[c] \in Attempts
      BY <2>2 DEF Pending, TypeOK
    <3>2. ASSUME NEW k \in Attempts, Pending(c, k)' PROVE Pending(c, k)
      <4>1. k > n
        BY <1>1, <2>2, <3>2 DEF Pending
      <4>2. k > attempt[c]
        BY <2>2, <3>1, <4>1, GreaterYet
      <4> QED BY <2>2, <4>2 DEF Pending
    <3> QED BY <1>1, <3>1, <3>2 DEF Follows
  <2> QED BY <1>3, <2>1, <2>2
<1> QED BY <1>1, <1>2, <1>3 DEF TabMove

LEMMA SettleMove ==
  ASSUME TypeOK, NEW c \in Calls, NEW result, settle(c, result),
         live' = live, recent' = recent,
         session' \in {session, NoToken} \/ Holds(c, session'),
         \A g \in Presenters : used'[g] \in {used[g], session},
         c \in SignIns /\ result = "rejected" =>
           RefusedNow(c) /\ pc[c] \in {"initiate", "exchange"}
  PROVE  TabMove(c)
<1>1. /\ pc'[c] = "done" /\ attempt' = attempt /\ inbox'[c] = NoAnswer
      /\ outcome'[c] = result /\ wire' = wire
      /\ \A d \in Calls \ {c} : Same(d)
  BY DEF TypeOK, settle, Same
<1>2. c \in SignIns => Follows(c)
  BY <1>1 DEF Follows, Pending
<1> QED BY <1>1, <1>2 DEF TabMove

LEMMA SignInMoves ==
  ASSUME IInv, NEW c \in SignIns, signIn(c) \/ SignInStep(c)
  PROVE  TabMove(c)
<1>a. TypeOK /\ c \in Calls /\ (pc[c] # "done" => outcome[c] = "none")
  BY DEF IInv, Shape, Places, Calls
<1>b. 0 \in Attempts
  BY Retries DEF Attempts
<1>0. /\ TypeOK /\ c \in Calls /\ 0 \in Attempts
      /\ pc[c] # "done" => outcome[c] = "none"
  BY <1>a, <1>b
<1>1. CASE signIn(c)
  <2>1. /\ pc[c] = "idle" /\ send(c, "initiate", 0)
        /\ UNCHANGED <<session, used, outcome, live, recent>>
    BY <1>1 DEF signIn, bff
  <2> QED BY <1>0, <2>1, SendMove DEF Awaits
<1>2. ASSUME NEW op \in {"initiate", "exchange"}, backoff(c, op) PROVE TabMove(c)
  <2>1. /\ pc[c] = op /\ pc' = [pc EXCEPT ![c] = Backoff(op)]
        /\ UNCHANGED <<session, attempt, used, outcome, wire, inbox, live, recent>>
    BY <1>2 DEF backoff, bff
  <2>2. /\ pc'[c] = Backoff(op) /\ pc'[c] # "exchange"
        /\ \A d \in Calls \ {c} : Same(d)
    BY <1>0, <2>1 DEF TypeOK, Same, Backoff
  <2>3. \A n \in Attempts : Pending(c, n)' => Pending(c, n)
    <3>1. CASE op = "initiate"
      BY <2>1, <3>1 DEF Pending
    <3>2. CASE op = "exchange"
      <4>1. pc[c] = "exchange" /\ pc'[c] = "retry exchange" /\ attempt' = attempt
        BY <2>1, <2>2, <3>2 DEF Backoff
      <4> QED BY <4>1 DEF Pending
    <3> QED BY <3>1, <3>2
  <2>4. Follows(c)
    BY <1>0, <2>1, <2>2, <2>3 DEF Follows
  <2> QED BY <2>1, <2>2, <2>4 DEF TabMove
<1>3. ASSUME NEW op \in {"initiate", "exchange"}, retry(c, op) PROVE TabMove(c)
  <2>1. /\ pc[c] = Backoff(op) /\ send(c, op, attempt[c] + 1)
        /\ UNCHANGED <<session, used, outcome, live, recent>>
    BY <1>3 DEF retry, bff
  <2>2. attempt[c] + 1 \in Attempts /\ attempt[c] + 1 > attempt[c]
    <3>1. attempt[c] < maxRetries
      BY <2>1 DEF IInv, Shape, Places, Backoff
    <3>2. attempt[c] \in Attempts
      BY <1>0 DEF TypeOK
    <3> QED BY <3>1, <3>2, Retries DEF Attempts
  <2>3. /\ pc[c] # "done" /\ (op = "initiate" => pc[c] = "retry initiate")
        /\ op = "exchange" => pc[c] = "retry exchange"
    BY <2>1 DEF Backoff
  <2> QED BY <1>0, <2>1, <2>2, <2>3, SendMove DEF Awaits
<1>4. ASSUME NEW op \in {"initiate", "exchange"}, giveUp(c, op) PROVE TabMove(c)
  <2>1. /\ settle(c, "unreachable")
        /\ UNCHANGED <<session, used, live, recent>>
    BY <1>4 DEF giveUp, signInEnds, bff
  <2> QED BY <1>0, <2>1, SettleMove
<1>5. ASSUME NEW op \in {"initiate", "exchange"}, signInFails(c, op) PROVE TabMove(c)
  <2>1. /\ pc[c] = op /\ UNCHANGED <<session, used, live, recent>>
        /\ \/ inbox[c] # NoAnswer /\ settle(c, inbox[c].result)
           \/ settle(c, "unreachable")
    BY <1>5 DEF signInFails, signInEnds, Refused, Succeeded, Answered, bff
  <2> QED BY <1>0, <2>1, SettleMove DEF RefusedNow
<1>6. CASE savePkceSession(c)
  <2>1. pc[c] = "initiate" /\ UNCHANGED <<session, used, live, recent>>
    BY <1>6 DEF savePkceSession, Succeeded, Answered, bff
  <2>2. CASE settle(c, "external")
    BY <1>0, <2>1, <2>2, SettleMove
  <2>3. CASE send(c, "exchange", 0) /\ UNCHANGED outcome
    BY <1>0, <2>1, <2>3, SendMove DEF Awaits
  <2> QED BY <1>6, <2>2, <2>3 DEF savePkceSession, signInEnds
<1>7. CASE signedIn(c)
  <2>1. PICK result \in {"ok", "listener threw"} : signInEnds(c, result)
    BY <1>7 DEF signedIn
  <2>2. /\ settle(c, result) /\ UNCHANGED <<used, live, recent>>
        /\ Holds(c, session')
    BY <1>7, <2>1
       DEF signedIn, signInEnds, persistAuthSession, Succeeded, Answered, Holds, bff
  <2> QED BY <1>0, <2>2, SettleMove
<1> QED BY <1>1, <1>2, <1>3, <1>4, <1>5, <1>6, <1>7 DEF SignInStep

LEMMA PresenterMoves ==
  ASSUME IInv, NEW g \in Presenters,
         \/ g \in Refreshes /\ (refreshTokens(g) \/ RefreshStep(g))
         \/ g \in Logouts /\ (logout(g) \/ LogoutStep(g))
  PROVE  TabMove(g)
<1>a. g \in Calls /\ g \notin SignIns
  BY CallsAreDisjoint DEF Calls, Presenters
<1>b. TypeOK /\ (pc[g] # "done" => outcome[g] = "none")
  BY <1>a DEF IInv, Shape, Places
<1>c. 0 \in Attempts
  BY Retries DEF Attempts
<1>0. /\ TypeOK /\ g \in Calls /\ g \notin SignIns /\ 0 \in Attempts
      /\ pc[g] # "done" => outcome[g] = "none"
  BY <1>a, <1>b, <1>c
<1>1. CASE refreshTokens(g) \/ logout(g)
  <2>1. /\ pc[g] = "idle" /\ used' = [used EXCEPT ![g] = session]
        /\ live' = live /\ recent' = recent
        /\ \/ /\ \E op \in {"refresh", "logout"} : send(g, op, 0)
              /\ UNCHANGED <<session, outcome>>
           \/ /\ \E result \in {"no session", "ok"} : settle(g, result)
              /\ session' \in {session, NoToken}
    BY <1>1 DEF refreshTokens, logout, clearAuthSession, bff
  <2>2. \A h \in Presenters : used'[h] \in {used[h], session}
    BY <1>0, <2>1 DEF TypeOK, Presenters
  <2>3. CASE /\ \E result \in {"no session", "ok"} : settle(g, result)
             /\ session' \in {session, NoToken}
    BY <1>0, <2>1, <2>2, <2>3, SettleMove
  <2>4. CASE /\ \E op \in {"refresh", "logout"} : send(g, op, 0)
             /\ UNCHANGED <<session, outcome>>
    BY <1>0, <2>1, <2>2, <2>4, SendMove DEF Awaits
  <2> QED BY <2>1, <2>3, <2>4
<1>2. CASE refreshed(g) \/ loggedOut(g)
  <2>1. /\ settle(g, "ok") /\ UNCHANGED <<used, live, recent>>
        /\ session' = NoToken \/ Holds(g, session')
    BY <1>2 DEF refreshed, loggedOut, clearAuthSession, persistAuthSession,
                Succeeded, Answered, Holds, bff
  <2> QED BY <1>0, <2>1, SettleMove
<1>3. ASSUME NEW op \in {"refresh", "logout"}, requestFails(g, op) PROVE TabMove(g)
  <2>1. /\ UNCHANGED <<session, used, live, recent>>
        /\ \E result : settle(g, result)
    BY <1>3 DEF requestFails, bff
  <2> QED BY <1>0, <2>1, SettleMove
<1> QED BY <1>1, <1>2, <1>3 DEF RefreshStep, LogoutStep

LEMMA ReloadRefusal ==
  ASSUME IInv, RefusalInv, reload
  PROVE  RefusalInv'
<1>1. /\ UNCHANGED <<session, attempt, used, wire, live, recent>>
      /\ \A c \in Calls :
           /\ inbox'[c] = NoAnswer
           /\ \/ pc'[c] = pc[c] /\ outcome'[c] = outcome[c]
                 /\ pc[c] \in {"idle", "done"}
              \/ pc'[c] = "done" /\ outcome'[c] = "reloaded"
  BY DEF reload, bff
<1>2. ASSUME NEW t, Seen(t)' PROVE Seen(t)
  BY <1>1, <1>2 DEF Seen, Holds
<1>3. \A c \in SignIns, n \in Attempts : Turned(c, n)' => Turned(c, n)
  BY <1>1 DEF Turned, Calls
<1>4. \A c \in SignIns, n \in Attempts : Untouched(c, n)' => Untouched(c, n)
  BY <1>1, <1>3 DEF Untouched, Pending, Calls
<1>5. \A c \in SignIns, n \in Attempts : Clean(c, n) => Clean(c, n)'
  BY <1>1, <1>2 DEF Clean
<1>6. \A c \in SignIns, n \in Attempts : Turned(c, n)' => ~Exchanging(c, n)'
  BY <1>1, <1>3 DEF RefusalInv, Exchanging
<1> QED BY <1>4, <1>5, <1>6, RefusalKept

(* The BFF and the network. *)

\* A step that takes m from the wire, leaves it there as read, or leaves the
\* wire alone, and may answer it.
WireMove(m) ==
  /\ UNCHANGED <<session, pc, attempt, used, outcome>>
  /\ \A k \in wire' : \E j \in wire : j.call = k.call /\ j.op = k.op /\ j.n = k.n
  /\ \A d \in Calls :
       inbox'[d] = inbox[d] \/ (d = m.call /\ pc[d] = m.op /\ attempt[d] = m.n)

LEMMA WireUntouched ==
  ASSUME IInv, NEW m \in wire, WireMove(m), NEW c \in SignIns, NEW n \in Attempts
  PROVE  /\ Untouched(c, n)' => Untouched(c, n)
         /\ Turned(c, n)' => Turned(c, n)
         /\ Exchanging(c, n)' => Exchanging(c, n)
<1>1. Exchanging(c, n)' => Exchanging(c, n)
  BY DEF WireMove, Exchanging
<1>2. Turned(c, n)' => Turned(c, n)
  BY DEF WireMove, Turned
<1>3. Pending(c, n)' => Pending(c, n)
  BY DEF WireMove, Pending
<1>4. CASE inbox'[c] = inbox[c]
  BY <1>1, <1>2, <1>3, <1>4 DEF WireMove, Untouched, RefusedNow
<1>5. CASE c = m.call /\ pc[c] = m.op /\ attempt[c] = m.n
  BY <1>1, <1>2, <1>3, <1>5 DEF WireMove, Untouched, Exchanging
<1> QED BY <1>1, <1>2, <1>4, <1>5 DEF WireMove, Calls

\* If nothing was minted for a sign-in it stays clean.
LEMMA WireRefusal ==
  ASSUME IInv, RefusalInv, NEW m \in wire, WireMove(m),
         \A c \in SignIns, n \in Attempts :
           Untouched(c, n)' /\ Clean(c, n) => Clean(c, n)'
  PROVE  RefusalInv'
<1>1. \A c \in SignIns, n \in Attempts : Untouched(c, n)' => Untouched(c, n)
  BY WireUntouched
<1>2. \A c \in SignIns, n \in Attempts : Turned(c, n)' => ~Exchanging(c, n)'
  BY WireUntouched DEF RefusalInv
<1> QED BY <1>1, <1>2, RefusalKept

LEMMA AnswerMove ==
  ASSUME IInv, NEW m \in wire, NEW result, NEW t, answer(m, result, t), UNCHANGED tab
  PROVE  /\ WireMove(m)
         /\ UNCHANGED <<session, used>>
         /\ \A d \in Calls :
              inbox'[d] \in {inbox[d], [result |-> result, token |-> t]}
<1>1. m.call \in Calls /\ TypeOK
  BY DEF IInv, Shape, TypeOK, Messages
<1>2. \A d \in Calls :
        \/ inbox'[d] = inbox[d]
        \/ /\ d = m.call /\ pc[d] = m.op /\ attempt[d] = m.n
           /\ inbox'[d] = [result |-> result, token |-> t]
  BY <1>1 DEF answer, TypeOK
<1> QED BY <1>2 DEF WireMove, answer, tab

\* Answering with a token that is none of a clean attempt's, and storing none
\* of it, keeps it clean.
LEMMA AnswerClean ==
  ASSUME IInv, NEW m \in wire, NEW result, NEW t,
         answer(m, result, t), UNCHANGED tab,
         NEW c \in SignIns, NEW n \in Attempts, Clean(c, n),
         <<c, n>> \in live' => <<c, n>> \in live,
         <<c, n>> \in recent' => <<c, n>> \in recent,
         <<c, n>> # t
  PROVE  Clean(c, n)'
<1>1. /\ UNCHANGED <<session, used>>
      /\ \A d \in Calls :
           inbox'[d] \in {inbox[d], [result |-> result, token |-> t]}
  BY AnswerMove
<1>2. <<c, n>> \notin live' /\ <<c, n>> \notin recent'
  BY DEF Clean, Seen
<1>4. ~Seen(<<c, n>>)
  BY DEF Clean
<1> DEFINE given == [result |-> result, token |-> t]
<1>3. ASSUME NEW d \in Calls PROVE ~Holds(d, <<c, n>>)'
  <2>1. given.token # <<c, n>>
    OBVIOUS
  <2>2. ~Holds(d, <<c, n>>) /\ inbox'[d] \in {inbox[d], given}
    BY <1>1, <1>4 DEF Seen
  <2> HIDE DEF given
  <2> QED BY <2>1, <2>2 DEF Holds
<1> QED BY <1>1, <1>2, <1>3, <1>4 DEF Seen, Clean

\* Nothing is stored and the answer, if there is one, has no token.
LEMMA EmptyAnswerRefusal ==
  ASSUME IInv, RefusalInv, NEW m \in wire, NEW result,
         answer(m, result, NoToken), UNCHANGED tab,
         live' \subseteq live, recent' = recent
  PROVE  RefusalInv'
<1>1. \A c \in SignIns, n \in Attempts : <<c, n>> # NoToken
  BY NullValues DEF Tokens
<1>2. \A c \in SignIns, n \in Attempts : Clean(c, n) => Clean(c, n)'
  BY <1>1, AnswerClean
<1> QED BY <1>2, AnswerMove, WireRefusal

LEMMA SilentRefusal ==
  ASSUME RefusalInv,
         UNCHANGED <<session, pc, attempt, used, outcome, inbox>>,
         live' \subseteq live, recent' \subseteq recent,
         \A k \in wire' : \E j \in wire : j.call = k.call /\ j.op = k.op /\ j.n = k.n
  PROVE  RefusalInv'
<1>1. \A c \in SignIns, n \in Attempts : Exchanging(c, n)' => Exchanging(c, n)
  BY DEF Exchanging
<1>2. \A c \in SignIns, n \in Attempts : Turned(c, n)' <=> Turned(c, n)
  BY DEF Turned
<1>3. \A c \in SignIns, n \in Attempts : Untouched(c, n)' => Untouched(c, n)
  BY <1>1, <1>2 DEF Untouched, RefusedNow, Pending
<1>4. \A c \in SignIns, n \in Attempts : Clean(c, n) => Clean(c, n)'
  BY DEF Clean, Seen, Holds
<1>5. \A c \in SignIns, n \in Attempts : Turned(c, n)' => ~Exchanging(c, n)'
  BY <1>1, <1>2 DEF RefusalInv
<1> QED BY <1>3, <1>4, <1>5, RefusalKept

LEMMA ReadRefusal ==
  ASSUME IInv, RefusalInv, NEW m \in wire, serveRead(m)
  PROVE  RefusalInv'
<1>1. UNCHANGED tab /\ live' = live /\ recent' = recent
  BY DEF serveRead, bff
<1>2. CASE /\ wire' = (wire \ {m}) \union {[m EXCEPT !.read = TRUE]}
           /\ UNCHANGED inbox
  <2>1. m \in Messages
    BY DEF IInv, Shape, TypeOK
  <2>2. LET k == [m EXCEPT !.read = TRUE] IN
          k.call = m.call /\ k.op = m.op /\ k.n = m.n
    BY <2>1 DEF Messages
  <2>3. \A k \in wire' : \E j \in wire : j.call = k.call /\ j.op = k.op /\ j.n = k.n
    BY <1>2, <2>2
  <2> QED BY <1>1, <1>2, <2>3, SilentRefusal DEF tab
<1>3. CASE \E result \in Results : answer(m, result, NoToken)
  BY <1>1, <1>3, EmptyAnswerRefusal
<1> QED BY <1>2, <1>3 DEF serveRead, Results

\* A text stored for one attempt is not the name of another that is clean: it
\* is its own, or that of a call that was given it in this second.
LEMMA StoreClean ==
  ASSUME IInv, NEW m \in wire, NEW t \in Tokens, NEW rest, UNCHANGED tab,
         storeToken(m.call, m.n, t, rest), rest \subseteq live,
         answer(m, "ok", t) \/ answer(m, "broken", NoToken),
         NEW c \in SignIns, NEW n \in Attempts, <<c, n>> # <<m.call, m.n>>, Clean(c, n)
  PROVE  Clean(c, n)'
<1>1. <<c, n>> # t
  BY DEF storeToken, Clean, Seen
<1>2. /\ <<c, n>> \in live' => <<c, n>> \in live
      /\ <<c, n>> \in recent' => <<c, n>> \in recent
  BY <1>1 DEF storeToken
<1>3. <<c, n>> # NoToken
  BY NullValues DEF Tokens
<1> QED BY <1>1, <1>2, <1>3, AnswerClean

\* The one step that mints for a sign-in: its exchange was on the wire and is
\* not any more, and no answer that could make a refusal of it is on its way.
LEMMA ExchangeRefusal ==
  ASSUME IInv, RefusalInv, NEW m \in wire, serveExchange(m)
  PROVE  RefusalInv'
<1>0. /\ UNCHANGED tab /\ m.op = "exchange"
      /\ TypeOK /\ m.call \in SignIns /\ m.n \in Attempts
  BY ExchangeRequests DEF serveExchange, IInv, Shape
<1>1. CASE /\ UNCHANGED <<live, recent, excused>>
           /\ \E result \in {"rejected", "broken"} : answer(m, result, NoToken)
  BY <1>0, <1>1, EmptyAnswerRefusal
<1>2. ASSUME NEW t \in Tokens, storeToken(m.call, m.n, t, live),
             answer(m, "ok", t) \/ answer(m, "broken", NoToken)
      PROVE  RefusalInv'
  <2>0. PICK result \in {"ok", "broken"}, u \in {t, NoToken} : answer(m, result, u)
    BY <1>2
  <2>1. ~Untouched(m.call, m.n)'
    <3> DEFINE c == m.call
    <3>1. /\ UNCHANGED <<pc, attempt, outcome>> /\ wire' = wire \ {m}
      BY <1>0, <2>0 DEF tab, answer
    <3>2. ~Pending(c, m.n)'
      <4>1. \A i, j \in Attempts : i <= j => ~(i > j)
        BY Retries DEF Attempts
      <4>2. /\ pc[c] \in {"exchange", "retry exchange", "done"}
            /\ pc[c] \in {"exchange", "retry exchange"} => m.n <= attempt[c]
        BY <1>0, ExchangeRequests
      <4>3. attempt[c] \in Attempts
        BY <1>0 DEF TypeOK, Calls
      <4> QED BY <1>0, <3>1, <4>1, <4>2, <4>3 DEF Pending
    <3>3. ~Turned(c, m.n)'
      <4>1. ~Turned(c, m.n)
        BY <1>0 DEF RefusalInv, Exchanging
      <4> QED BY <3>1, <4>1 DEF Turned
    <3>4. ASSUME pc[c] = "exchange", attempt[c] = m.n
          PROVE  ~Exchanging(c, m.n)' /\ ~RefusedNow(c)'
      <4>1. ~Exchanging(c, m.n)'
        BY <1>0, <3>1, ExchangeRequests DEF Exchanging
      <4>2. inbox[c] = NoAnswer
        BY <1>0, <3>4, ExchangeRequests
      <4>3. inbox'[c] \in {inbox[c], [result |-> result, token |-> u]}
        BY <1>0, <2>0, AnswerMove DEF Calls
      <4>4. ~RefusedNow(c)'
        BY <4>2, <4>3 DEF RefusedNow
      <4> QED BY <4>1, <4>4
    <3> QED BY <3>1, <3>2, <3>3, <3>4 DEF Untouched
  <2>2. ASSUME NEW c \in SignIns, NEW n \in Attempts, Untouched(c, n)', Clean(c, n)
        PROVE  Clean(c, n)'
    <3>1. <<c, n>> # <<m.call, m.n>>
      BY <2>1, <2>2
    <3> QED BY <1>0, <1>2, <2>2, <3>1, StoreClean
  <2> QED BY <1>0, <2>0, <2>2, AnswerMove, WireRefusal
<1> QED BY <1>1, <1>2 DEF serveExchange

\* A refresh mints for itself, or a text that nobody has of a clean sign-in.
LEMMA RefreshRefusal ==
  ASSUME IInv, RefusalInv, NEW m \in wire, serveRefresh(m)
  PROVE  RefusalInv'
<1>0. UNCHANGED tab /\ m.call \notin SignIns
  BY CallsAreDisjoint
     DEF serveRefresh, IInv, Shape, Requests, KindOK, Presenters
<1> DEFINE rest == live \ {used[m.call]}
<1>1. ASSUME NEW t \in Tokens, storeToken(m.call, m.n, t, rest),
             answer(m, "ok", t) \/ answer(m, "broken", NoToken)
      PROVE  RefusalInv'
  <2>0. PICK result \in {"ok", "broken"}, u \in {t, NoToken} : answer(m, result, u)
    BY <1>1
  <2>1. \A c \in SignIns, n \in Attempts : <<c, n>> # <<m.call, m.n>>
    BY <1>0
  <2>2. rest \subseteq live
    OBVIOUS
  <2> HIDE DEF rest
  <2>3. \A c \in SignIns, n \in Attempts : Clean(c, n) => Clean(c, n)'
    BY <1>0, <1>1, <2>1, <2>2, StoreClean
  <2> QED BY <1>0, <2>0, <2>3, AnswerMove, WireRefusal
<1>2. CASE /\ live' \in {live, rest} /\ UNCHANGED <<recent, excused>>
           /\ answer(m, "broken", NoToken)
  BY <1>0, <1>2, EmptyAnswerRefusal
<1> QED BY <1>1, <1>2 DEF serveRefresh

LEMMA ServeRefusal ==
  ASSUME IInv, RefusalInv, Serve
  PROVE  RefusalInv'
<1>1. PICK m \in wire :
        \/ lost(m) \/ serveInitiate(m) \/ serveRead(m) \/ serveExchange(m)
        \/ serveRefresh(m) \/ serveLogout(m)
  BY DEF Serve
<1>2. CASE lost(m)
  <2>1. UNCHANGED <<session, pc, attempt, used, outcome, inbox, live, recent>>
    BY <1>2 DEF lost, tab, bff
  <2>2. wire' \subseteq wire
    BY <1>2 DEF lost
  <2> QED BY <2>1, <2>2, SilentRefusal
<1>3. CASE serveInitiate(m) \/ serveLogout(m)
  <2>1. /\ UNCHANGED tab /\ live' \subseteq live /\ recent' = recent
        /\ \E result \in Results : answer(m, result, NoToken)
    BY <1>3 DEF serveInitiate, serveLogout, Results
  <2> QED BY <2>1, EmptyAnswerRefusal
<1> QED BY <1>1, <1>2, <1>3, ReadRefusal, ExchangeRefusal, RefreshRefusal

LEMMA StepRefusal == IInv /\ RefusalInv /\ [Next]_vars => RefusalInv'
<1> SUFFICES ASSUME IInv, RefusalInv, [Next]_vars PROVE RefusalInv'
  OBVIOUS
<1>1. ASSUME NEW c \in SignIns, signIn(c) \/ SignInStep(c) PROVE RefusalInv'
  BY <1>1, SignInMoves, TabRefusal DEF Calls
<1>2. ASSUME NEW f \in Refreshes, refreshTokens(f) \/ RefreshStep(f) PROVE RefusalInv'
  BY <1>2, PresenterMoves, TabRefusal DEF Calls, Presenters
<1>3. ASSUME NEW l \in Logouts, logout(l) \/ LogoutStep(l) PROVE RefusalInv'
  BY <1>3, PresenterMoves, TabRefusal DEF Calls, Presenters
<1>4. CASE expire \/ secondPasses \/ UNCHANGED vars
  <2>1. /\ UNCHANGED <<session, pc, attempt, used, outcome, inbox, wire>>
        /\ live' \subseteq live /\ recent' \subseteq recent
    BY <1>4 DEF expire, secondPasses, vars, tab, bff
  <2> QED BY <2>1, SilentRefusal
<1> QED BY <1>1, <1>2, <1>3, <1>4, ReloadRefusal, ServeRefusal DEF Next, Start

\* A sign-in that ends refused has no token stored by the attempt that was
\* refused or a later one: for any number of calls that overlap, any requests
\* and answers the network loses and any texts that calls of one second share
\* (withRetry repeats the exchange only after a fetch that failed, and counts).
THEOREM RefusalIsFinal == Spec => []RefusalLeavesNothing
<1>1. RefusalInv => RefusalLeavesNothing
  BY DEF RefusalInv, RefusalLeavesNothing, Untouched, Turned, Clean
<1> QED BY Inductive, InitRefusalInv, StepRefusal, <1>1, PTL DEF Spec
=============================================================================
