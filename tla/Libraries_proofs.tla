------------------------- MODULE Libraries_proofs -------------------------
(* Two libraries of the front end, which share nothing: the breaker for any *)
(* number of callers, any thresholds >= 1 and any timeout, and the event    *)
(* bridge for any windows, frames and events.                               *)
EXTENDS CircuitBreaker, EventBridge, SequenceTheorems, TLAPS

\* The invariant: the counters are below their thresholds, the time the code
\* keeps is the time since any failure, and a probing breaker has counted
\* exactly the successes of this half-open period.
IInv ==
  /\ BreakerTypeOK
  /\ CountersBelowThreshold
  /\ sinceFailure = quiet
  /\ state = "HALF_OPEN" => successCount = probes

LEMMA InitIInv == BreakerInit => IInv
<1>1. timeout + 1 \in Elapsed /\ 0 \in 0..failureThreshold /\ 0 \in 0..successThreshold
  BY Config DEF Elapsed
<1>2. 0 < failureThreshold
  BY Config
<1> SUFFICES ASSUME BreakerInit PROVE IInv
  OBVIOUS
<1>3. BreakerTypeOK
  BY <1>1 DEF BreakerInit, BreakerTypeOK
<1>4. CountersBelowThreshold
  <2>1. state = "CLOSED" /\ failureCount = 0
    BY DEF BreakerInit
  <2> QED BY <1>2, <2>1 DEF CountersBelowThreshold
<1> QED BY <1>3, <1>4 DEF BreakerInit, IInv

LEMMA LaterInElapsed == ASSUME NEW n \in Elapsed PROVE later(n) \in Elapsed
BY Config DEF Elapsed, later

LEMMA StartTypes ==
  ASSUME BreakerTypeOK, NEW c \in Callers, start(c)
  PROVE  /\ inFlight' \in [Callers -> {"idle", "exposed", "safe"}]
         /\ UNCHANGED <<outcome, up, quiet>>
BY DEF BreakerTypeOK, start

LEMMA SettleTypes ==
  ASSUME BreakerTypeOK, NEW c \in Callers, NEW r \in {"ok", "failed"}, settle(c, r)
  PROVE  /\ inFlight' \in [Callers -> {"idle", "exposed", "safe"}]
         /\ outcome' \in [Callers -> {"none", "ok", "failed", "refused"}]
         /\ up' = up
BY DEF BreakerTypeOK, settle

LEMMA StepIInv == IInv /\ [BreakerNext]_breakerVars => IInv'
<1> SUFFICES ASSUME IInv, [BreakerNext]_breakerVars PROVE IInv'
  OBVIOUS
<1> USE DEF IInv, CountersBelowThreshold
<1>1. ASSUME NEW c \in Callers, admit(c) PROVE IInv'
  BY <1>1, StartTypes DEF BreakerTypeOK, admit, bvars
<1>2. ASSUME NEW c \in Callers, probe(c) PROVE IInv'
  BY <1>2, Config, StartTypes DEF BreakerTypeOK, probe, enterHalfOpen
<1>3. ASSUME NEW c \in Callers, refuse(c) PROVE IInv'
  BY <1>3 DEF BreakerTypeOK, refuse, bvars
<1>4. ASSUME NEW c \in Callers, succeed(c) PROVE IInv'
  <2>1. CASE state = "HALF_OPEN"
    BY <1>4, <2>1, Config, SettleTypes DEF BreakerTypeOK, succeed, onSuccess
  <2>2. CASE state # "HALF_OPEN"
    BY <1>4, <2>2, Config, SettleTypes DEF BreakerTypeOK, succeed, onSuccess
  <2> QED BY <2>1, <2>2
<1>5. ASSUME NEW c \in Callers, fail(c) PROVE IInv'
  <2>1. sinceFailure' = 0 /\ quiet' = 0 /\ 0 \in Elapsed
    BY <1>5, Config DEF fail, onFailure, stampFailure, Elapsed
  <2>2. CASE state = "HALF_OPEN"
    BY <1>5, <2>1, <2>2, Config, SettleTypes DEF BreakerTypeOK, fail, onFailure
  <2>3. CASE state # "HALF_OPEN"
    BY <1>5, <2>1, <2>3, Config, SettleTypes DEF BreakerTypeOK, fail, onFailure, tripped
  <2> QED BY <2>2, <2>3
<1>6. CASE Tick
  BY <1>6, LaterInElapsed DEF BreakerTypeOK, Tick
<1>7. CASE Recover
  BY <1>7 DEF BreakerTypeOK, Recover, bvars
<1>8. CASE UNCHANGED breakerVars
  BY <1>8 DEF BreakerTypeOK, breakerVars, bvars
<1> QED BY <1>1, <1>2, <1>3, <1>4, <1>5, <1>6, <1>7, <1>8 DEF BreakerNext, execution, result

\* Neither counter passes its threshold unnoticed (CountersBelowThreshold).
THEOREM CountersStayBelow == BreakerSpec => [](BreakerTypeOK /\ CountersBelowThreshold)
<1>1. IInv => BreakerTypeOK /\ CountersBelowThreshold
  BY DEF IInv
<1> QED BY InitIInv, StepIInv, <1>1, PTL DEF BreakerSpec

\* The breaker closes only on the successes of one uninterrupted half-open
\* period (ClosesAfterProbes).
THEOREM ClosingIsEarned == BreakerSpec => ClosesAfterProbes
<1> DEFINE Earned == state # "CLOSED" /\ state' = "CLOSED" =>
                       state = "HALF_OPEN" /\ probes' >= successThreshold
<1>1. ASSUME IInv, [BreakerNext]_breakerVars PROVE [Earned]_breakerVars
  <2>1. ASSUME NEW c \in Callers, execution(c) PROVE Earned
    BY <2>1 DEF execution, admit, probe, refuse, enterHalfOpen, bvars
  <2>2. ASSUME NEW c \in Callers, succeed(c) PROVE Earned
    <3>1. CASE state = "HALF_OPEN"
      BY <1>1, <2>2, <3>1, Config
         DEF IInv, BreakerTypeOK, CountersBelowThreshold, succeed, onSuccess
    <3>2. CASE state # "HALF_OPEN"
      BY <2>2, <3>2 DEF succeed, onSuccess
    <3> QED BY <3>1, <3>2
  <2>3. ASSUME NEW c \in Callers, fail(c) PROVE Earned
    BY <2>3 DEF fail, onFailure
  <2>4. ASSUME Tick \/ Recover PROVE Earned
    BY <2>4 DEF Tick, Recover, bvars
  <2> QED BY <1>1, <2>1, <2>2, <2>3, <2>4 DEF BreakerNext, result
<1>2. IInv /\ [BreakerNext]_breakerVars => [Earned]_breakerVars
  BY <1>1
<1> QED BY InitIInv, StepIInv, <1>2, PTL DEF BreakerSpec, ClosesAfterProbes

\* A refusal proves a recent failure and half-opening proves there was none
\* (RefusesExactlyWhileHurt).
THEOREM RefusalMeansHurt == BreakerSpec => RefusesExactlyWhileHurt
<1> DEFINE Hurt ==
      /\ \A c \in Callers :
           outcome'[c] = "refused" /\ outcome[c] # "refused" => quiet <= timeout
      /\ state = "OPEN" /\ state' # "OPEN" => quiet > timeout
<1>1. ASSUME IInv, [BreakerNext]_breakerVars PROVE [Hurt]_breakerVars
  <2>1. ASSUME NEW c \in Callers, admit(c) PROVE Hurt
    BY <2>1 DEF admit, start, bvars
  <2>2. ASSUME NEW c \in Callers, probe(c) PROVE Hurt
    BY <1>1, <2>2 DEF IInv, probe, start
  <2>3. ASSUME NEW c \in Callers, refuse(c) PROVE Hurt
    BY <1>1, <2>3 DEF IInv, BreakerTypeOK, refuse, bvars
  <2>4. ASSUME NEW c \in Callers, succeed(c) PROVE Hurt
    BY <1>1, <2>4 DEF IInv, BreakerTypeOK, succeed, onSuccess, settle
  <2>5. ASSUME NEW c \in Callers, fail(c) PROVE Hurt
    BY <1>1, <2>5 DEF IInv, BreakerTypeOK, fail, onFailure, settle
  <2>6. ASSUME Tick \/ Recover PROVE Hurt
    BY <2>6 DEF Tick, Recover, bvars
  <2> QED BY <1>1, <2>1, <2>2, <2>3, <2>4, <2>5, <2>6 DEF BreakerNext, execution, result
<1>2. IInv /\ [BreakerNext]_breakerVars => [Hurt]_breakerVars
  BY <1>1
<1> QED BY InitIInv, StepIInv, <1>2, PTL DEF BreakerSpec, RefusesExactlyWhileHurt

-----------------------------------------------------------------------------
(***************************************************************************)
(* EventBridge. A window nobody frames gets messages from itself only, and *)
(* those only on the analytics channel, where it is its own parent.        *)
(***************************************************************************)
Relays(w) == channel = "analytics" /\ Parent(w) = w

Silent == \A w \in Windows : ~ Framing(w) /\ ~ Relays(w) => messages[w] = <<>>

\* What a window heard last is in localStorage, or is the last of the
\* messages with which its shell will store it again.
Settled(w) ==
  IF messages[w] # <<>> /\ w \in Shells
  THEN messages[w][Len(messages[w])] = last[w]
  ELSE last[w] = storage

Settling ==
  \A w \in current : inbox[w] = <<>> /\ ~ Framing(w) => Settled(w)

BridgeIInv == BridgeTypeOK /\ Silent /\ Settling

\* What a queue's steps do to it.
LEMMA Queues ==
  ASSUME NEW S, NEW q \in Seq(S)
  PROVE  /\ \A e \in S : /\ Append(q, e) \in Seq(S)
                         /\ Append(q, e) # <<>>
                         /\ Append(q, e)[Len(Append(q, e))] = e
         /\ q # <<>> => /\ Head(q) \in S
                        /\ Tail(q) \in Seq(S)
                        /\ Tail(q) = <<>> => q[Len(q)] = Head(q)
                        /\ Tail(q) # <<>> => Tail(q)[Len(Tail(q))] = q[Len(q)]
<1>1. ASSUME NEW e \in S
      PROVE  /\ Append(q, e) \in Seq(S)
             /\ Append(q, e) # <<>>
             /\ Append(q, e)[Len(Append(q, e))] = e
  <2>1. Len(q) \in Nat
    BY LenProperties
  <2> QED BY <2>1, AppendProperties, EmptySeq
<1>2. ASSUME q # <<>>
      PROVE  /\ Head(q) \in S /\ Tail(q) \in Seq(S)
             /\ Tail(q) = <<>> => q[Len(q)] = Head(q)
             /\ Tail(q) # <<>> => Tail(q)[Len(Tail(q))] = q[Len(q)]
  <2>1. /\ Len(q) \in Nat /\ Len(q) # 0
        /\ Head(q) \in S /\ Head(q) = q[1]
        /\ Tail(q) \in Seq(S) /\ Len(Tail(q)) = Len(q) - 1
        /\ \A i \in 1 .. Len(Tail(q)) : Tail(q)[i] = q[i + 1]
    BY <1>2, LenProperties, HeadTailProperties, EmptySeq, ElementOfSeq
  <2>2. Tail(q) = <<>> => Len(q) = 1
    BY <2>1, EmptySeq
  <2>3. Tail(q) # <<>> => Len(Tail(q)) \in 1 .. Len(Tail(q))
    BY <2>1, LenProperties, EmptySeq
  <2> QED BY <2>1, <2>2, <2>3
<1> QED BY <1>1, <1>2

\* Only the window itself sends messages to a window nobody frames.
LEMMA NoSender ==
  ASSUME BridgeTypeOK, NEW w \in Windows, NEW v \in Windows,
         ~ Framing(v), v \in targets(w)
  PROVE  w = v /\ Relays(v)
<1>1. setting.channel \in {"auth", "analytics"}
  BY BridgeAssumption DEF BridgeTypeOK
<1> QED BY <1>1 DEF targets, Framing, Relays, channel

LEMMA InitBridgeIInv == BridgeInit => BridgeIInv
<1> SUFFICES ASSUME BridgeInit PROVE BridgeIInv
  OBVIOUS
<1>1. <<>> \in Seq(Events)
  BY EmptySeq
<1>2. BridgeTypeOK
  BY <1>1, BridgeAssumption DEF BridgeInit, BridgeTypeOK, NoEvent
<1>3. Silent /\ Settling
  BY DEF BridgeInit, Silent, Settling
<1> QED BY <1>2, <1>3 DEF BridgeIInv

\* What setItem leaves the other windows with: news, or the same storage.
LEMMA SetItemTells ==
  ASSUME NEW w \in Windows, NEW e \in Events, NEW box \in [Windows -> Seq(Events)],
         setItem(w, e, box)
  PROVE  /\ storage' = e
         /\ inbox' \in [Windows -> Seq(Events)]
         /\ inbox'[w] = box[w]
         /\ \A v \in Windows \ {w} :
              inbox'[v] # <<>> \/ (inbox'[v] = box[v] /\ storage' = storage)
<1>1. \A v \in Windows : /\ Append(box[v], e) \in Seq(Events)
                         /\ Append(box[v], e) # <<>>
  BY Queues
<1> QED BY <1>1 DEF setItem

\* A window nobody frames, other than the one that stores: it has news to
\* hear, or nothing changed for it.
LEMMA OthersSettle ==
  ASSUME BridgeIInv, NEW w \in Windows, NEW e \in Events,
         NEW box \in [Windows -> Seq(Events)], setItem(w, e, box),
         NEW v \in Windows \ {w}, v \in current, ~ Framing(v), box[v] = inbox[v],
         messages'[v] = messages[v], last'[v] = last[v],
         inbox'[v] = <<>>
  PROVE  Settled(v)'
<1>1. inbox[v] = <<>> /\ storage' = storage
  BY SetItemTells
<1>2. Settled(v)
  BY <1>1 DEF BridgeIInv, Settling
<1> QED BY <1>1, <1>2 DEF Settled

\* What handle leaves behind.
LEMMA HandleTypes ==
  ASSUME BridgeTypeOK, NEW w \in Windows, NEW e \in Events, handle(w, e)
  PROVE  /\ last' \in [Windows -> 0 .. MaxCaused]
         /\ current' \subseteq subscribed \intersect bridged
         /\ \A v \in Windows \ {w} : last'[v] = last[v] /\ (v \in current' => v \in current)
         /\ w \in current' => last'[w] = e
<1>1. e \in 0 .. MaxCaused
  BY BridgeAssumption DEF Events
<1>2. CASE w \in subscribed
  BY <1>1, <1>2 DEF handle, BridgeTypeOK
<1>3. CASE w \notin subscribed
  BY <1>3 DEF handle, BridgeTypeOK
<1> QED BY <1>2, <1>3

\* One publication, of an event caused just now or heard from the storage.
LEMMA PublishKeeps ==
  ASSUME BridgeIInv, NEW w \in Windows, NEW e \in Events,
         NEW box \in [Windows -> Seq(Events)], publishFrom(w, e, box),
         \A v \in Windows \ {w} : box[v] = inbox[v],
         caused' \in 0 .. MaxCaused, UNCHANGED <<setting, subscribed, bridged>>
  PROVE  BridgeIInv'
<1>0. handle(w, e) /\ postMessage(w, e) /\ setItem(w, e, box)
  BY DEF publishFrom
<1>1. /\ storage' = e
      /\ inbox' \in [Windows -> Seq(Events)]
  BY <1>0, SetItemTells
<1>2. /\ last' \in [Windows -> 0 .. MaxCaused]
      /\ current' \subseteq subscribed \intersect bridged
      /\ \A v \in Windows \ {w} : last'[v] = last[v] /\ (v \in current' => v \in current)
      /\ w \in current' => last'[w] = e
  BY <1>0, HandleTypes DEF BridgeIInv
<1>3. messages \in [Windows -> Seq(Events)]
  BY DEF BridgeIInv, BridgeTypeOK
<1>4. \A v \in Windows : /\ Append(messages[v], e) \in Seq(Events)
                         /\ Append(messages[v], e) # <<>>
                         /\ Append(messages[v], e)[Len(Append(messages[v], e))] = e
  <2> SUFFICES ASSUME NEW v \in Windows
               PROVE  /\ Append(messages[v], e) \in Seq(Events)
                      /\ Append(messages[v], e) # <<>>
                      /\ Append(messages[v], e)[Len(Append(messages[v], e))] = e
    OBVIOUS
  <2>1. messages[v] \in Seq(Events)
    BY <1>3
  <2> DEFINE q == messages[v]
  <2>2. q \in Seq(Events)
    BY <2>1
  <2> HIDE DEF q
  <2>3. \A d \in Events : /\ Append(q, d) \in Seq(Events)
                         /\ Append(q, d) # <<>>
                         /\ Append(q, d)[Len(Append(q, d))] = d
    BY <2>2, Queues
  <2> QED BY <2>3 DEF q
<1>5. messages' \in [Windows -> Seq(Events)]
  BY <1>0, <1>3, <1>4 DEF postMessage
<1>6. e \in 0 .. MaxCaused
  BY BridgeAssumption DEF Events
<1>7. BridgeTypeOK'
  BY <1>1, <1>2, <1>5, <1>6 DEF BridgeIInv, BridgeTypeOK
<1>8. ASSUME NEW v \in Windows, ~ Framing(v), v \notin targets(w)
      PROVE  messages'[v] = messages[v]
  BY <1>0, <1>3, <1>8 DEF postMessage
<1>9. \A v \in Windows : Framing(v)' = Framing(v) /\ Relays(v)' = Relays(v)
  BY DEF Framing, Relays, Parent, channel
<1>10. Silent'
  <2> SUFFICES ASSUME NEW v \in Windows, ~ Framing(v)', ~ Relays(v)'
               PROVE  messages'[v] = <<>>
    BY DEF Silent
  <2>1. v \notin targets(w)
    BY <1>9, NoSender DEF BridgeIInv
  <2> QED BY <1>8, <1>9, <2>1 DEF BridgeIInv, Silent
<1>11. Settling'
  <2> SUFFICES ASSUME NEW v \in current', inbox'[v] = <<>>, ~ Framing(v)'
               PROVE  Settled(v)'
    BY DEF Settling
  <2>1. v \in Windows /\ ~ Framing(v)
    BY <1>2, <1>9 DEF BridgeIInv, BridgeTypeOK
  <2>2. CASE v # w
    <3>1. v \in Windows \ {w} /\ v \in current /\ last'[v] = last[v] /\ box[v] = inbox[v]
      BY <1>2, <2>1, <2>2
    <3>2. messages'[v] = messages[v]
      BY <1>8, <2>1, <2>2, NoSender DEF BridgeIInv
    <3> QED BY <1>0, <2>1, <3>1, <3>2, OthersSettle
  <2>3. CASE v = w
    <3>1. last'[v] = e /\ storage' = e
      BY <1>1, <1>2, <2>3
    <3>2. CASE v \in targets(w)
      BY <1>0, <1>3, <1>4, <2>1, <3>1, <3>2 DEF Settled, postMessage
    <3>3. CASE v \notin targets(w)
      <4>1. messages'[v] = messages[v]
        BY <1>8, <2>1, <3>3
      <4>2. messages[v] # <<>> => Relays(v)
        BY <2>1 DEF BridgeIInv, Silent
      <4>3. Relays(v) => v \in targets(w)
        BY <2>3 DEF Relays, targets
      <4> QED BY <3>1, <3>3, <4>1, <4>2, <4>3 DEF Settled
    <3> QED BY <3>2, <3>3
  <2> QED BY <2>2, <2>3
<1> QED BY <1>7, <1>10, <1>11 DEF BridgeIInv

LEMMA PublishEventKeeps ==
  ASSUME BridgeIInv, NEW w \in Windows, publishEvent(w)
  PROVE  BridgeIInv'
<1>1. caused + 1 \in Events /\ caused' \in 0 .. MaxCaused
  BY BridgeAssumption DEF publishEvent, BridgeIInv, BridgeTypeOK, Events
<1>2. inbox \in [Windows -> Seq(Events)]
  BY DEF BridgeIInv, BridgeTypeOK
<1>3. publishFrom(w, caused + 1, inbox) /\ UNCHANGED <<setting, subscribed, bridged>>
  BY DEF publishEvent
<1> QED BY <1>1, <1>2, <1>3, PublishKeeps

\* A window whose inbox is read without a bridge is not in current.
LEMMA HandleStorageKeeps ==
  ASSUME BridgeIInv, NEW w \in Windows, handleStorage(w)
  PROVE  BridgeIInv'
<1> DEFINE rest == [inbox EXCEPT ![w] = Tail(@)]
<1>1. inbox \in [Windows -> Seq(Events)] /\ inbox[w] # <<>>
  BY DEF BridgeIInv, BridgeTypeOK, handleStorage
<1>2. Head(inbox[w]) \in Events /\ Tail(inbox[w]) \in Seq(Events)
  BY <1>1, Queues
<1>3. rest \in [Windows -> Seq(Events)] /\ \A v \in Windows \ {w} : rest[v] = inbox[v]
  BY <1>1, <1>2
<1>4. UNCHANGED <<setting, caused, subscribed, bridged>>
  BY DEF handleStorage
<1>5. CASE w \in bridged
  <2>1. publishFrom(w, Head(inbox[w]), rest)
    BY <1>5 DEF handleStorage
  <2>2. caused' \in 0 .. MaxCaused
    BY <1>4 DEF BridgeIInv, BridgeTypeOK
  <2> HIDE DEF rest
  <2> QED BY <1>2, <1>3, <1>4, <2>1, <2>2, PublishKeeps
<1>6. CASE w \notin bridged
  <2>1. inbox' = rest /\ UNCHANGED <<storage, messages, last, current>>
    BY <1>6 DEF handleStorage
  <2>2. BridgeTypeOK'
    BY <1>3, <1>4, <2>1 DEF BridgeIInv, BridgeTypeOK
  <2>3. Silent'
    BY <1>4, <2>1 DEF BridgeIInv, Silent, Framing, Relays, Parent, channel
  <2>4. w \notin current /\ current \subseteq Windows
    BY <1>6 DEF BridgeIInv, BridgeTypeOK
  <2>5. \A v \in current : Settled(v)' = Settled(v) /\ Framing(v)' = Framing(v)
    BY <1>4, <2>1 DEF Settled, Framing, Parent
  <2>6. \A v \in current : inbox'[v] = inbox[v]
    BY <1>3, <2>1, <2>4
  <2>7. Settling'
    BY <2>1, <2>5, <2>6 DEF BridgeIInv, Settling
  <2> QED BY <2>2, <2>3, <2>7 DEF BridgeIInv
<1> QED BY <1>5, <1>6

\* On the auth channel a message only goes to a frame's parent. On the
\* analytics channel the shell stores it again.
LEMMA HandleMessageKeeps ==
  ASSUME BridgeIInv, NEW w \in Windows, handleMessage(w)
  PROVE  BridgeIInv'
<1> DEFINE e == Head(messages[w])
<1>1. /\ messages \in [Windows -> Seq(Events)] /\ messages[w] # <<>>
      /\ inbox \in [Windows -> Seq(Events)]
  BY DEF BridgeIInv, BridgeTypeOK, handleMessage
<1>2. /\ e \in Events /\ Tail(messages[w]) \in Seq(Events)
      /\ Tail(messages[w]) = <<>> => messages[w][Len(messages[w])] = e
      /\ Tail(messages[w]) # <<>> =>
           Tail(messages[w])[Len(Tail(messages[w]))] = messages[w][Len(messages[w])]
  BY <1>1, Queues
<1>3. /\ messages' = [messages EXCEPT ![w] = Tail(@)]
      /\ UNCHANGED <<setting, caused, subscribed, bridged>>
  BY DEF handleMessage
<1>4. messages' \in [Windows -> Seq(Events)]
  BY <1>1, <1>2, <1>3
<1>5. \A v \in Windows : Framing(v)' = Framing(v) /\ Relays(v)' = Relays(v)
  BY <1>3 DEF Framing, Relays, Parent, channel
<1>6. \A v \in Windows \ {w} : messages'[v] = messages[v]
  BY <1>1, <1>3
<1>7. Framing(w) \/ Relays(w)
  BY <1>1 DEF BridgeIInv, Silent
<1>8. Silent'
  BY <1>5, <1>6, <1>7 DEF BridgeIInv, Silent
<1>9. e \in 0 .. MaxCaused
  BY <1>2, BridgeAssumption DEF Events
<1>10. CASE channel = "auth"
  <2>1. handle(w, e) /\ UNCHANGED <<storage, inbox>>
    BY <1>10 DEF handleMessage
  <2>2. /\ last' \in [Windows -> 0 .. MaxCaused]
        /\ current' \subseteq subscribed \intersect bridged
        /\ \A v \in Windows \ {w} : last'[v] = last[v] /\ (v \in current' => v \in current)
    BY <1>2, <2>1, HandleTypes DEF BridgeIInv
  <2>3. BridgeTypeOK'
    BY <1>3, <1>4, <2>1, <2>2 DEF BridgeIInv, BridgeTypeOK
  <2>4. Framing(w)
    BY <1>7, <1>10 DEF Relays
  <2>5. Settling'
    <3> SUFFICES ASSUME NEW v \in current', inbox'[v] = <<>>, ~ Framing(v)'
                 PROVE  Settled(v)'
      BY DEF Settling
    <3>1. v \in Windows /\ ~ Framing(v)
      BY <1>5, <2>2 DEF BridgeIInv, BridgeTypeOK
    <3>2. v \in current /\ last'[v] = last[v] /\ messages'[v] = messages[v]
      BY <1>6, <2>2, <2>4, <3>1
    <3>3. Settled(v)
      BY <2>1, <3>1, <3>2 DEF BridgeIInv, Settling
    <3> QED BY <2>1, <3>2, <3>3 DEF Settled
  <2> QED BY <1>8, <2>3, <2>5 DEF BridgeIInv
<1>11. CASE channel # "auth"
  <2>1. handleMfeMessage(w, e) /\ UNCHANGED <<last, current>>
    BY <1>11 DEF handleMessage, handleMfeMessage
  <2>2. current \subseteq Windows
    BY DEF BridgeIInv, BridgeTypeOK
  <2>3. CASE w \in Shells
    <3>1. setItem(w, e, inbox)
      BY <2>1, <2>3 DEF handleMfeMessage
    <3>2. storage' = e /\ inbox' \in [Windows -> Seq(Events)] /\ inbox'[w] = inbox[w]
      BY <1>1, <1>2, <3>1, SetItemTells
    <3>3. BridgeTypeOK'
      BY <1>3, <1>4, <1>9, <2>1, <3>2 DEF BridgeIInv, BridgeTypeOK
    <3>4. Settling'
      <4> SUFFICES ASSUME NEW v \in current', inbox'[v] = <<>>, ~ Framing(v)'
                   PROVE  Settled(v)'
        BY DEF Settling
      <4>1. v \in Windows /\ v \in current /\ ~ Framing(v) /\ last'[v] = last[v]
        BY <1>5, <2>1, <2>2
      <4> HIDE DEF e
      <4>2. CASE v # w
        <5>1. v \in Windows \ {w} /\ messages'[v] = messages[v]
          BY <1>6, <4>1, <4>2
        <5> QED BY <1>1, <1>2, <3>1, <4>1, <5>1, OthersSettle
      <4>3. CASE v = w
        <5>1. Settled(w)
          BY <3>2, <4>1, <4>3 DEF BridgeIInv, Settling
        <5>2. messages[w][Len(messages[w])] = last[w]
          BY <1>1, <2>3, <5>1 DEF Settled
        <5>3. messages'[w] = Tail(messages[w])
          BY <1>1, <1>3
        <5> QED BY <1>2, <2>3, <3>2, <4>1, <4>3, <5>2, <5>3 DEF Settled
      <4> QED BY <4>2, <4>3
    <3> QED BY <1>8, <3>3, <3>4 DEF BridgeIInv
  <2>4. CASE w \notin Shells
    <3>1. UNCHANGED <<storage, inbox, last, current>>
      BY <2>1, <2>4 DEF handleMfeMessage
    <3>2. BridgeTypeOK'
      BY <1>3, <1>4, <3>1 DEF BridgeIInv, BridgeTypeOK
    <3>3. Settling'
      <4> SUFFICES ASSUME NEW v \in current', inbox'[v] = <<>>, ~ Framing(v)'
                   PROVE  Settled(v)'
        BY DEF Settling
      <4>1. v \in Windows /\ Settled(v)
        BY <1>5, <2>2, <3>1 DEF BridgeIInv, Settling
      <4>2. CASE v # w
        BY <1>6, <3>1, <4>1, <4>2 DEF Settled
      <4>3. CASE v = w
        BY <2>4, <3>1, <4>1, <4>3 DEF Settled
      <4> QED BY <4>2, <4>3
    <3> QED BY <1>8, <3>2, <3>3 DEF BridgeIInv
  <2> QED BY <2>3, <2>4
<1> QED BY <1>10, <1>11

\* Windows that come and go; and nothing at all.
LEMMA ListenersKeep ==
  ASSUME BridgeIInv,
         UNCHANGED <<setting, caused, storage, inbox, messages, last>>,
         subscribed' \subseteq Windows, bridged' \subseteq Windows,
         current' \subseteq current, current' \subseteq subscribed' \intersect bridged'
  PROVE  BridgeIInv'
<1>1. BridgeTypeOK'
  BY DEF BridgeIInv, BridgeTypeOK
<1>2. Silent'
  BY DEF BridgeIInv, Silent, Framing, Relays, Parent, channel
<1>3. Settling'
  BY DEF BridgeIInv, Settling, Settled, Framing, Parent
<1> QED BY <1>1, <1>2, <1>3 DEF BridgeIInv

LEMMA StepBridgeIInv == BridgeIInv /\ [BridgeNext]_bridgeVars => BridgeIInv'
<1> SUFFICES ASSUME BridgeIInv, [BridgeNext]_bridgeVars PROVE BridgeIInv'
  OBVIOUS
<1>1. /\ subscribed \subseteq Windows /\ bridged \subseteq Windows
      /\ current \subseteq subscribed \intersect bridged
  BY DEF BridgeIInv, BridgeTypeOK
<1>2. ASSUME NEW w \in Windows, publishEvent(w) PROVE BridgeIInv'
  BY <1>2, PublishEventKeeps
<1>3. ASSUME NEW w \in Windows, handleStorage(w) PROVE BridgeIInv'
  BY <1>3, HandleStorageKeeps
<1>4. ASSUME NEW w \in Windows, handleMessage(w) PROVE BridgeIInv'
  BY <1>4, HandleMessageKeeps
<1>5. ASSUME NEW w \in Windows, subscribeEvent(w) PROVE BridgeIInv'
  BY <1>1, <1>5, ListenersKeep DEF subscribeEvent
<1>6. ASSUME NEW w \in Windows, unsubscribeEvent(w) PROVE BridgeIInv'
  BY <1>1, <1>6, ListenersKeep DEF unsubscribeEvent
<1>7. ASSUME NEW w \in Windows, connectStorageBridge(w) PROVE BridgeIInv'
  BY <1>1, <1>7, ListenersKeep DEF connectStorageBridge
<1>8. ASSUME NEW w \in Windows, disconnectStorageBridge(w) PROVE BridgeIInv'
  BY <1>1, <1>8, ListenersKeep DEF disconnectStorageBridge
<1>9. CASE UNCHANGED bridgeVars
  BY <1>1, <1>9, ListenersKeep DEF bridgeVars
<1> QED BY <1>2, <1>3, <1>4, <1>5, <1>6, <1>7, <1>8, <1>9 DEF BridgeNext

(* However many windows, in whatever frames, publish, hear of each other's *)
(* events and store them again, one that bridges and has nothing left to   *)
(* hear has last heard what localStorage holds: the bridge of auth.ts and  *)
(* index.ts, which publishes again what it hears, and the shell's relay.   *)
THEOREM WindowsAgree == BridgeSpec => []BridgeInv
<1>1. BridgeIInv => BridgeInv
  <2>1. ASSUME BridgeTypeOK, Settling PROVE QuietWindowsAgree
    BY <2>1 DEF QuietWindowsAgree, Settling, Settled
  <2> QED BY <2>1 DEF BridgeIInv, BridgeInv
<1> QED BY <1>1, InitBridgeIInv, StepBridgeIInv, PTL DEF BridgeSpec
=============================================================================
