---------------------------- MODULE HostLibrary ----------------------------
(***************************************************************************)
(* Library code of the host shell that no screen of it uses yet: the two   *)
(* loaders of remote modules (remoteLoader, RemoteComponent), the event    *)
(* bus (EventBus, useEventBus) and ApiClient under useRetry. The three     *)
(* share no state, so a behaviour is about one of them, or about none (the *)
(* parts Frontend adds).                                                   *)
(*                                                                         *)
(* Containers, networks and handlers do what they like, in any order.      *)
(* Rendering, delays and the texts of errors are left out.                 *)
(***************************************************************************)
EXTENDS Naturals, Sequences

CONSTANTS
  Scopes, Modules,  \* remote containers, what they expose
  Handlers,         \* handlers of the event bus
  Calls,            \* calls of useRetry's execute, of a request of ApiClient
  maxRetries,
  MaxEvents,        \* bound on the events published
  MaxEntries,       \* bound on the subscriptions made
  Gone

ASSUME HostAssumption ==
  /\ maxRetries \in Nat /\ MaxEvents \in Nat /\ MaxEntries \in Nat
  /\ Gone \notin Handlers

Loaders == {"remoteLoader", "RemoteComponent"}
Loads == Loaders \X Scopes \X Modules
Parts == {"remote", "bus", "api", "screen", "breaker", "bridge"}

VARIABLES
  part,       \* what the behaviour is about
  present,    \* scopes window has
  promise,    \* load -> where its cached promise is
  fetched,    \* load -> times its module was asked of the container
  listeners,  \* the Set: handlers in order of insertion, Gone where deleted
  publishing, \* calls of publish under way, the innermost last
  published,  \* number of events so far
  call,       \* call -> its attempt, its timer and where it is
  requests,   \* call -> requests it made
  told        \* call -> times onError was called

remoteVars == <<present, promise, fetched>>
busVars == <<listeners, publishing, published>>
apiVars == <<call, requests, told>>
vars == <<part, remoteVars, busVars, apiVars>>

Ended == {"ok", "failed", "brokenOff"}

Init ==
  /\ part \in Parts
  /\ present \in SUBSET Scopes
  /\ promise = [l \in Loads |-> "none"]
  /\ fetched = [l \in Loads |-> 0]
  /\ listeners = <<>> /\ publishing = <<>> /\ published = 0
  /\ call = [c \in Calls |-> [pc |-> "idle", attempt |-> 0, timer |-> FALSE]]
  /\ requests = [c \in Calls |-> 0]
  /\ told = [c \in Calls |-> 0]

-----------------------------------------------------------------------------
(* Remote modules *)

\* The script of a remote sets window[scope].
appear(scope) ==
  /\ scope \notin present
  /\ present' = present \union {scope}
  /\ UNCHANGED <<promise, fetched>>

\* Nothing is cached for the key: a scope that is missing fails the load, now
\* and, as the promise is kept, later.
loadRemoteModule(l) ==
  /\ promise[l] = "none"
  /\ promise' = [promise EXCEPT ![l] = IF l[2] \in present THEN "init" ELSE "failed"]
  /\ UNCHANGED <<present, fetched>>

initDone(l, ok) ==
  /\ promise[l] = "init"
  /\ promise' = [promise EXCEPT ![l] = IF ok THEN "get" ELSE "failed"]
  /\ fetched' = [fetched EXCEPT ![l] = IF ok THEN @ + 1 ELSE @]
  /\ UNCHANGED present

\* scope.get, and the factory it answers with.
getDone(l, ok) ==
  /\ promise[l] = "get"
  /\ promise' = [promise EXCEPT ![l] = IF ok THEN "loaded" ELSE "failed"]
  /\ UNCHANGED <<present, fetched>>

\* What React renders for the load.
rendered(l) ==
  IF promise[l] \in {"init", "get"} THEN "fallback"
  ELSE IF promise[l] = "loaded" THEN "component"
  ELSE IF promise[l] = "none" THEN "nothing"
  ELSE IF l[1] = "remoteLoader" THEN "remote-error" ELSE "error boundary"

containerAnswers(l) == \E ok \in BOOLEAN : initDone(l, ok) \/ getDone(l, ok)

RemoteStep ==
  \/ \E scope \in Scopes : appear(scope)
  \/ \E l \in Loads : loadRemoteModule(l) \/ containerAnswers(l)

-----------------------------------------------------------------------------
(* The event bus *)

Subscribed == {listeners[i] : i \in DOMAIN listeners} \ {Gone}

inner == publishing[Len(publishing)]

setInner(p) == publishing' = [publishing EXCEPT ![Len(publishing)] = p]

\* Code runs outside of any publish, or in the handler the innermost is at.
HandlerRuns == IF publishing = <<>> THEN TRUE ELSE inner.running

subscribe(h) ==
  /\ HandlerRuns /\ h \notin Subscribed /\ Len(listeners) < MaxEntries
  /\ listeners' = Append(listeners, h)
  /\ UNCHANGED <<publishing, published>>

Mutant_remove(h) == SelectSeq(listeners, LAMBDA x : x # h)

remove(h) == [i \in DOMAIN listeners |-> IF listeners[i] = h THEN Gone ELSE listeners[i]]

unsubscribe(h) ==
  /\ HandlerRuns /\ h \in Subscribed
  /\ listeners' = remove(h)
  /\ publishing' = [k \in DOMAIN publishing |->
       [publishing[k] EXCEPT !.owed = @ \ {h}]]
  /\ UNCHANGED published

\* owed: handlers there when publish was called, still there and not called.
publish ==
  /\ HandlerRuns /\ published < MaxEvents
  /\ published' = published + 1
  /\ publishing' = Append(publishing, [at |-> 1, running |-> FALSE, owed |-> Subscribed])
  /\ UNCHANGED listeners

\* forEach reaches an entry of the Set.
callHandler ==
  /\ publishing # <<>> /\ ~ inner.running /\ inner.at \in DOMAIN listeners
  /\ setInner(IF listeners[inner.at] = Gone
              THEN [inner EXCEPT !.at = @ + 1]
              ELSE [at |-> inner.at, running |-> TRUE,
                    owed |-> inner.owed \ {listeners[inner.at]}])
  /\ UNCHANGED <<listeners, published>>

returns ==
  /\ publishing # <<>> /\ inner.running
  /\ setInner([at |-> inner.at + 1, running |-> FALSE, owed |-> inner.owed])
  /\ UNCHANGED <<listeners, published>>

\* A handler throws: publish throws at its caller, who may be a handler too.
throws ==
  /\ publishing # <<>> /\ inner.running
  /\ publishing' = SubSeq(publishing, 1, Len(publishing) - 1)
  /\ UNCHANGED <<listeners, published>>

publishEnds ==
  /\ publishing # <<>> /\ inner.at > Len(listeners)
  /\ publishing' = SubSeq(publishing, 1, Len(publishing) - 1)
  /\ UNCHANGED <<listeners, published>>

BusStep ==
  \/ \E h \in Handlers : subscribe(h) \/ unsubscribe(h)
  \/ publish \/ callHandler \/ returns \/ throws \/ publishEnds

-----------------------------------------------------------------------------
(* ApiClient under useRetry *)

\* request: the timer is armed and fetch called.
request(c, attempt) ==
  /\ call' = [call EXCEPT ![c] = [pc |-> "fetch", attempt |-> attempt, timer |-> TRUE]]
  /\ requests' = [requests EXCEPT ![c] = @ + 1]
  /\ UNCHANGED told

execute(c) == call[c].pc = "idle" /\ request(c, 0)

\* The call goes on without its timer, which request cleared.
goesTo(c, pc) ==
  call' = [call EXCEPT ![c] = [pc |-> pc, attempt |-> @.attempt, timer |-> FALSE]]

\* Where the catch of execute leads. onRetry is called in it: if that throws,
\* execute rejects at once.
caughtTo(c) ==
  IF call[c].attempt < maxRetries THEN {"delay", "brokenOff"} ELSE {"failed"}

Mutant_caught(c) ==
  \E pc \in caughtTo(c) :
    /\ goesTo(c, pc)
    /\ told' = [told EXCEPT ![c] = @ + 1]
    /\ UNCHANGED requests

caught(c) ==
  \E pc \in caughtTo(c) :
    /\ goesTo(c, pc)
    /\ told' = [told EXCEPT ![c] = IF pc = "failed" THEN @ + 1 ELSE @]
    /\ UNCHANGED requests

\* fetch rejects, or the timer aborts it.
fetchFails(c) == call[c].pc = "fetch" /\ caught(c)

\* Headers are in. The body of a good answer is read after the timer is gone.
response(c, ok) ==
  /\ call[c].pc = "fetch"
  /\ IF ok
     THEN /\ goesTo(c, "body")
          /\ UNCHANGED <<requests, told>>
     ELSE caught(c)

Mutant_abort(c) == call[c].timer /\ call[c].attempt < maxRetries /\ caught(c)

\* The timer fires.
abort(c) == call[c].timer /\ caught(c)

body(c, ok) ==
  /\ call[c].pc = "body"
  /\ IF ok
     THEN /\ goesTo(c, "ok")
          /\ UNCHANGED <<requests, told>>
     ELSE caught(c)

retry(c) == call[c].pc = "delay" /\ request(c, call[c].attempt + 1)

ApiStep ==
  \E c \in Calls :
    \/ execute(c) \/ fetchFails(c) \/ abort(c) \/ retry(c)
    \/ \E ok \in BOOLEAN : response(c, ok) \/ body(c, ok)

-----------------------------------------------------------------------------
Next ==
  /\ UNCHANGED part
  /\ \/ part = "remote" /\ RemoteStep /\ UNCHANGED <<busVars, apiVars>>
     \/ part = "bus" /\ BusStep /\ UNCHANGED <<remoteVars, apiVars>>
     \/ part = "api" /\ ApiStep /\ UNCHANGED <<remoteVars, busVars>>

Spec == Init /\ [][Next]_vars

TimerFires(c) == (abort(c) \/ retry(c)) /\ UNCHANGED <<part, remoteVars, busVars>>

-----------------------------------------------------------------------------
(* Every variable has its type. *)
TypeOK ==
  /\ part \in Parts
  /\ present \subseteq Scopes
  /\ promise \in [Loads -> {"none", "init", "get", "loaded", "failed"}]
  /\ fetched \in [Loads -> Nat]
  /\ listeners \in Seq(Handlers \union {Gone})
  /\ publishing \in Seq([at : 1 .. (MaxEntries + 1), running : BOOLEAN,
                         owed : SUBSET Handlers])
  /\ published \in 0 .. MaxEvents
  /\ call \in [Calls -> [pc : {"idle", "fetch", "body", "delay"} \union Ended,
                         attempt : 0 .. maxRetries, timer : BOOLEAN]]
  /\ requests \in [Calls -> Nat]
  /\ told \in [Calls -> Nat]

(* However many components ask for a module, each loader fetches it at     *)
(* most once, and shows a component only if it did.                        *)
FetchedOnce ==
  \A l \in Loads :
    fetched[l] <= 1 /\ (rendered(l) = "component" => fetched[l] = 1)

(* A publish that comes to its end has called every handler that was there *)
(* when it began and was not removed meanwhile, whatever handlers subscribe *)
(* and unsubscribe, and whatever they publish themselves.                  *)
NoneSkipped ==
  \A k \in DOMAIN publishing :
    publishing[k].at > Len(listeners) => publishing[k].owed = {}

(* A call gives up after one request more than maxRetries and tells onError *)
(* once, whatever ended its attempts; onError is told of nothing else, not *)
(* of a call that onRetry broke off, which made fewer requests.            *)
FailsAfterAll ==
  \A c \in Calls :
    /\ call[c].pc = "failed" => requests[c] = maxRetries + 1
    /\ call[c].pc = "brokenOff" => requests[c] \in 1 .. maxRetries
    /\ told[c] = IF call[c].pc = "failed" THEN 1 ELSE 0

(* The types, FetchedOnce and FailsAfterAll. *)
HostInv == TypeOK /\ FetchedOnce /\ FailsAfterAll

(* A call ends or waits for a body, which no timer bounds. *)
EndsOrReads ==
  \A c \in Calls : call[c].pc = "fetch" ~> call[c].pc \in Ended \union {"body"}
=============================================================================
