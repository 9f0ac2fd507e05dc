---------------------------- MODULE EventBridge ----------------------------
(***************************************************************************)
(* packages/shared-pubsub: events between the windows of one origin. The   *)
(* auth channel (auth.ts) and the analytics channel (index.ts) publish in  *)
(* the same way: handlers of the window, a message to the parent frame,    *)
(* localStorage. A window that connected the storage bridge publishes      *)
(* again what another window stored, so it stores it too.                  *)
(*                                                                         *)
(* Storage events and messages are tasks of the windows they go to: they   *)
(* queue, and the two queues of a window run in any order. An event has a  *)
(* correlation id and a time stamp: published twice it is two events.      *)
(***************************************************************************)
EXTENDS Naturals, Sequences

CONSTANTS
  Windows,
  Trusted,     \* windows whose origin is in allowedOrigins
  Shells,      \* windows that run the host shell
  Settings,    \* the channel, and window -> the window that frames it
  MaxCaused,   \* bound on what users cause to be published
  MaxQueue     \* bound on either queue of a window

ASSUME BridgeAssumption ==
  /\ Trusted \subseteq Windows /\ Shells \subseteq Windows
  /\ Settings \subseteq [channel : {"auth", "analytics"},
                          parent : [Windows -> Windows]]
  /\ MaxCaused \in Nat /\ MaxQueue \in Nat \ {0}

Events == 1 .. MaxCaused
NoEvent == 0

VARIABLES
  setting,               \* channel and frames this behaviour is about
  caused,                \* how many events users caused so far
  storage,               \* localStorage[storageKey]
  inbox, messages,       \* per window: its storage events, its messages
  subscribed, bridged,   \* windows with a handler; with the storage bridge
  last,                  \* the event the window's handler heard last
  current                \* heard one since both have been there

bridgeVars == <<setting, caused, storage, inbox, messages, subscribed, bridged,
                last, current>>

BridgeInit ==
  /\ setting \in Settings
  /\ caused = 0
  /\ storage = NoEvent
  /\ inbox = [w \in Windows |-> <<>>]
  /\ messages = [w \in Windows |-> <<>>]
  /\ subscribed = {} /\ bridged = {} /\ current = {}
  /\ last = [w \in Windows |-> NoEvent]

channel == setting.channel
Parent(w) == setting.parent[w]

-----------------------------------------------------------------------------
\* handlers.forEach and the custom event: what a window's handler hears.
handle(w, e) ==
  IF w \in subscribed
  THEN /\ last' = [last EXCEPT ![w] = e]
       /\ current' = IF w \in bridged THEN current \union {w} ELSE current
  ELSE UNCHANGED <<last, current>>

\* localStorage.setItem by w: the other windows hear of a change of value.
Mutant_setItem(w, e, box) ==
  /\ storage' = e
  /\ inbox' = [v \in Windows |->
       IF v # w /\ storage = NoEvent THEN Append(box[v], e) ELSE box[v]]

setItem(w, e, box) ==
  /\ storage' = e
  /\ inbox' = [v \in Windows |->
       IF v # w /\ storage # e THEN Append(box[v], e) ELSE box[v]]

\* auth: to a parent whose origin is allowed; analytics: to window.parent,
\* the window itself when nothing frames it.
targets(w) ==
  IF channel = "auth" THEN ({Parent(w)} \ {w}) \intersect Trusted ELSE {Parent(w)}

postMessage(w, e) ==
  messages' = [v \in Windows |->
    IF v \in targets(w) THEN Append(messages[v], e) ELSE messages[v]]

HasRoom(w) ==
  /\ \A v \in Windows \ {w} : Len(inbox[v]) < MaxQueue
  /\ \A v \in targets(w) : Len(messages[v]) < MaxQueue

publishFrom(w, e, box) ==
  /\ HasRoom(w)
  /\ handle(w, e)
  /\ postMessage(w, e)
  /\ setItem(w, e, box)

-----------------------------------------------------------------------------
\* publishAuthEvent, publishAnalyticsEvent called by the application.
publishEvent(w) ==
  /\ caused < MaxCaused
  /\ caused' = caused + 1
  /\ publishFrom(w, caused + 1, inbox)
  /\ UNCHANGED <<setting, subscribed, bridged>>

\* A storage event: the bridge publishes it again, a window without drops it.
Mutant_handleStorage(w) ==
  /\ inbox[w] # <<>>
  /\ IF w \in bridged THEN handle(w, Head(inbox[w])) ELSE UNCHANGED <<last, current>>
  /\ inbox' = [inbox EXCEPT ![w] = Tail(@)]
  /\ UNCHANGED <<setting, caused, storage, messages, subscribed, bridged>>

handleStorage(w) ==
  /\ inbox[w] # <<>>
  /\ LET rest == [inbox EXCEPT ![w] = Tail(@)] IN
       IF w \in bridged THEN publishFrom(w, Head(inbox[w]), rest)
       ELSE inbox' = rest /\ UNCHANGED <<storage, messages, last, current>>
  /\ UNCHANGED <<setting, caused, subscribed, bridged>>

\* A message with an auth event goes to the handler. One with an analytics
\* event only the shell hears: it stores it again (Shell.tsx, line 50). That it
\* posts the message on to its other frames is left out: no frame listens for
\* messages on that channel.
handleMfeMessage(w, e) ==
  /\ UNCHANGED <<last, current>>
  /\ IF w \in Shells
     THEN (\A v \in Windows \ {w} : Len(inbox[v]) < MaxQueue) /\ setItem(w, e, inbox)
     ELSE UNCHANGED <<storage, inbox>>

handleMessage(w) ==
  /\ messages[w] # <<>>
  /\ messages' = [messages EXCEPT ![w] = Tail(@)]
  /\ IF channel = "auth"
     THEN handle(w, Head(messages[w])) /\ UNCHANGED <<storage, inbox>>
     ELSE handleMfeMessage(w, Head(messages[w]))
  /\ UNCHANGED <<setting, caused, subscribed, bridged>>

subscribeEvent(w) ==
  /\ w \notin subscribed
  /\ subscribed' = subscribed \union {w}
  /\ UNCHANGED <<setting, caused, storage, inbox, messages, bridged, last, current>>

unsubscribeEvent(w) ==
  /\ w \in subscribed
  /\ subscribed' = subscribed \ {w} /\ current' = current \ {w}
  /\ UNCHANGED <<setting, caused, storage, inbox, messages, bridged, last>>

connectStorageBridge(w) ==
  /\ w \notin bridged
  /\ bridged' = bridged \union {w}
  /\ UNCHANGED <<setting, caused, storage, inbox, messages, subscribed, last, current>>

disconnectStorageBridge(w) ==
  /\ w \in bridged
  /\ bridged' = bridged \ {w} /\ current' = current \ {w}
  /\ UNCHANGED <<setting, caused, storage, inbox, messages, subscribed, last>>

BridgeNext ==
  \E w \in Windows :
    \/ publishEvent(w) \/ handleStorage(w) \/ handleMessage(w)
    \/ subscribeEvent(w) \/ unsubscribeEvent(w)
    \/ connectStorageBridge(w) \/ disconnectStorageBridge(w)

BridgeSpec == BridgeInit /\ [][BridgeNext]_bridgeVars

\* Browsers run the tasks they queue.
FairBridgeSpec ==
  BridgeSpec /\ \A w \in Windows : WF_bridgeVars(handleStorage(w)) /\ WF_bridgeVars(handleMessage(w))

-----------------------------------------------------------------------------
(* Every variable has its type. *)
BridgeTypeOK ==
  /\ setting \in Settings
  /\ caused \in 0 .. MaxCaused
  /\ storage \in 0 .. MaxCaused
  /\ inbox \in [Windows -> Seq(Events)]
  /\ messages \in [Windows -> Seq(Events)]
  /\ subscribed \subseteq Windows /\ bridged \subseteq Windows
  /\ last \in [Windows -> 0 .. MaxCaused]
  /\ current \subseteq subscribed \intersect bridged

Framing(w) == \E v \in Windows \ {w} : Parent(v) = w

(* A bridged window with nothing left in its queues has last heard the     *)
(* event localStorage holds, in whatever order windows published, heard of *)
(* each other's events and stored them again (the bridge publishes, and    *)
(* does not only hand over, what it hears). A window with frames is left   *)
(* out: their messages bypass the storage.                                 *)
QuietWindowsAgree ==
  \A w \in current :
    inbox[w] = <<>> /\ messages[w] = <<>> /\ ~ Framing(w) => last[w] = storage

(* The types, and QuietWindowsAgree. *)
BridgeInv == BridgeTypeOK /\ QuietWindowsAgree

(* A window that listens and bridges hears what localStorage holds, unless *)
(* it stops listening. On the analytics channel the shell's own relay can  *)
(* overtake a window, so this is about auth events.                        *)
EveryWindowHears ==
  \A w \in Windows, e \in Events :
    (channel = "auth" /\ storage = e /\ w \in current /\ ~ Framing(w))
      ~> (last[w] = e \/ w \notin current)
=============================================================================
