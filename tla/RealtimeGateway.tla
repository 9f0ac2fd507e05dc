-------------------------- MODULE RealtimeGateway --------------------------
(***************************************************************************)
(* The websocket gateway (modules/websocket): the map of connections, the  *)
(* rooms sockets join and the broadcasts other modules send to them.       *)
(*                                                                         *)
(* A socket is one connection; a client that connects again is another.    *)
(* Rooms are kept by the replica a socket is connected to (the gateway has *)
(* no adapter that shares them). socket.io delivers in order and takes a   *)
(* socket out of its rooms before it reports the disconnect. Nest listens  *)
(* for that report only once handleConnection has returned, so a socket    *)
(* handleConnection disconnects itself is not reported to handleDisconnect.*)
(* validateUserPermissions is always true and is left out.                 *)
(***************************************************************************)
EXTENDS Naturals, Sequences, SequencesExt

CONSTANTS
  Replicas,
  Sockets,
  home,           \* socket -> the replica it connects to
  UserIds, Dashboards, MetricTypes,
  Anonymous,      \* the user of a handshake without userId
  MaxBroadcasts   \* bound on the broadcasts

ASSUME GatewayAssumption ==
  /\ home \in [Sockets -> Replicas]
  /\ Anonymous \notin UserIds
  /\ MaxBroadcasts \in Nat

Rooms ==
  ({"analytics"} \X Dashboards) \union ({"metrics"} \X MetricTypes)
    \union ({"notifications"} \X (UserIds \union {Anonymous}))

VARIABLES
  link,         \* socket -> its state
  userId,       \* socket -> handshake.auth.userId
  connections,  \* replica -> sockets in the map
  joined,       \* socket -> rooms it is in
  wanted,       \* socket -> rooms it subscribed to, with the broadcasts before
  log,          \* the broadcasts: who sent them, to which room
  packets,      \* socket -> broadcasts on their way to it
  heard         \* socket -> broadcasts it got

gatewayVars == <<link, userId, connections, joined, wanted, log, packets, heard>>

GatewayInit ==
  /\ link = [s \in Sockets |-> "new"]
  /\ userId = [s \in Sockets |-> Anonymous]
  /\ connections = [r \in Replicas |-> {}]
  /\ joined = [s \in Sockets |-> {}]
  /\ wanted = [s \in Sockets |-> {}]
  /\ log = <<>>
  /\ packets = [s \in Sockets |-> <<>>]
  /\ heard = [s \in Sockets |-> {}]

-----------------------------------------------------------------------------
(* Connections *)

validateWebSocketConnection(token) == token

\* The socket is in the map before it is validated.
handleConnection(s, user, token) ==
  /\ link[s] = "new"
  /\ userId' = [userId EXCEPT ![s] = user]
  /\ connections' = [connections EXCEPT ![home[s]] = @ \union {s}]
  /\ link' = [link EXCEPT ![s] =
       IF validateWebSocketConnection(token) THEN "open" ELSE "rejected"]
  /\ UNCHANGED <<joined, wanted, log, packets, heard>>

\* The client is gone; the replica finds out later, at the latest when a
\* ping is not answered.
drop(s) ==
  /\ link[s] = "open"
  /\ link' = [link EXCEPT ![s] = "dropped"]
  /\ packets' = [packets EXCEPT ![s] = <<>>]
  /\ UNCHANGED <<userId, connections, joined, wanted, log, heard>>

Mutant_handleDisconnect(s) ==
  /\ link[s] = "dropped"
  /\ connections' = [connections EXCEPT ![home[s]] =
       {v \in @ : userId[v] # userId[s]}]
  /\ link' = [link EXCEPT ![s] = "closed"]
  /\ joined' = [joined EXCEPT ![s] = {}]
  /\ UNCHANGED <<userId, wanted, log, packets, heard>>

handleDisconnect(s) ==
  /\ link[s] = "dropped"
  /\ connections' = [connections EXCEPT ![home[s]] = @ \ {s}]
  /\ link' = [link EXCEPT ![s] = "closed"]
  /\ joined' = [joined EXCEPT ![s] = {}]
  /\ UNCHANGED <<userId, wanted, log, packets, heard>>

\* The process of a replica restarts: its sockets are closed, its map empty.
restart(r) ==
  LET mine == {s \in Sockets : home[s] = r /\ link[s] # "new"} IN
    /\ connections[r] # {}
    /\ connections' = [connections EXCEPT ![r] = {}]
    /\ link' = [s \in Sockets |-> IF s \in mine THEN "closed" ELSE link[s]]
    /\ joined' = [s \in Sockets |-> IF s \in mine THEN {} ELSE joined[s]]
    /\ packets' = [s \in Sockets |-> IF s \in mine THEN <<>> ELSE packets[s]]
    /\ UNCHANGED <<userId, wanted, log, heard>>

-----------------------------------------------------------------------------
(* Subscriptions *)

Mutant_join(s, room) ==
  /\ link[s] \in {"open", "dropped"}
  /\ joined' = [joined EXCEPT ![s] = {room}]
  /\ wanted' = [wanted EXCEPT ![s] =
       IF room \in joined[s] THEN @ ELSE @ \union {<<room, Len(log)>>}]
  /\ UNCHANGED <<link, userId, connections, log, packets, heard>>

\* socket.join, of a message of a client that may be gone by now.
join(s, room) ==
  /\ link[s] \in {"open", "dropped"}
  /\ joined' = [joined EXCEPT ![s] = @ \union {room}]
  /\ wanted' = [wanted EXCEPT ![s] =
       IF room \in joined[s] THEN @ ELSE @ \union {<<room, Len(log)>>}]
  /\ UNCHANGED <<link, userId, connections, log, packets, heard>>

handleAnalyticsSubscribe(s, dashboardId) == join(s, <<"analytics", dashboardId>>)

handleMetricsSubscribe(s, metricType) == join(s, <<"metrics", metricType>>)

handleNotificationsSubscribe(s) == join(s, <<"notifications", userId[s]>>)

-----------------------------------------------------------------------------
(* Broadcasts *)

\* Sockets server.to(room) reaches.
Mutant_inRoom(r, room) == {s \in connections[r] : link[s] = "open"}

inRoom(r, room) == {s \in Sockets : home[s] = r /\ room \in joined[s]}

broadcast(r, room) ==
  /\ Len(log) < MaxBroadcasts
  /\ log' = Append(log, [from |-> r, room |-> room])
  /\ packets' = [s \in Sockets |->
       IF s \in inRoom(r, room) /\ link[s] = "open"
       THEN Append(packets[s], Len(log) + 1) ELSE packets[s]]
  /\ UNCHANGED <<link, userId, connections, joined, wanted, heard>>

broadcastAnalyticsUpdate(r, dashboardId) == broadcast(r, <<"analytics", dashboardId>>)

broadcastMetricsUpdate(r, metricType) == broadcast(r, <<"metrics", metricType>>)

broadcastNotification(r, user) == broadcast(r, <<"notifications", user>>)

deliver(s) ==
  /\ packets[s] # <<>>
  /\ packets' = [packets EXCEPT ![s] = Tail(@)]
  /\ heard' = [heard EXCEPT ![s] = @ \union {Head(packets[s])}]
  /\ UNCHANGED <<link, userId, connections, joined, wanted, log>>

GatewayNext ==
  \/ \E s \in Sockets :
       \/ \E user \in UserIds \union {Anonymous}, token \in BOOLEAN :
            handleConnection(s, user, token)
       \/ drop(s) \/ handleDisconnect(s) \/ deliver(s)
       \/ \E d \in Dashboards : handleAnalyticsSubscribe(s, d)
       \/ \E m \in MetricTypes : handleMetricsSubscribe(s, m)
       \/ handleNotificationsSubscribe(s)
  \/ \E r \in Replicas :
       \/ restart(r)
       \/ \E d \in Dashboards : broadcastAnalyticsUpdate(r, d)
       \/ \E m \in MetricTypes : broadcastMetricsUpdate(r, m)
       \/ \E user \in UserIds : broadcastNotification(r, user)

GatewaySpec == GatewayInit /\ [][GatewayNext]_gatewayVars

-----------------------------------------------------------------------------
(* Every variable has its type. *)
GatewayTypeOK ==
  /\ link \in [Sockets -> {"new", "open", "rejected", "dropped", "closed"}]
  /\ userId \in [Sockets -> UserIds \union {Anonymous}]
  /\ connections \in [Replicas -> SUBSET Sockets]
  /\ joined \in [Sockets -> SUBSET Rooms]
  /\ wanted \in [Sockets -> SUBSET (Rooms \X (0 .. MaxBroadcasts))]
  /\ log \in Seq([from : Replicas, room : Rooms])
  /\ packets \in [Sockets -> Seq(1 .. MaxBroadcasts)]
  /\ heard \in [Sockets -> SUBSET (1 .. MaxBroadcasts)]

(* The map of a replica holds every connection it serves, and otherwise    *)
(* only the ones it rejected: handleConnection adds before it validates,   *)
(* and no handleDisconnect follows, so those stay until the process ends.  *)
MapIsLive ==
  \A s \in Sockets :
    /\ link[s] \in {"open", "dropped", "rejected"} <=> s \in connections[home[s]]
    /\ \A r \in Replicas \ {home[s]} : s \notin connections[r]

(* The types, and MapIsLive. *)
GatewayInv == GatewayTypeOK /\ MapIsLive

(* A socket only hears broadcasts to rooms it subscribed to before, and    *)
(* notifications for the user of its handshake.                            *)
HeardIsWanted ==
  \A s \in Sockets :
    \A n \in heard[s] \union ToSet(packets[s]) :
      /\ \E w \in wanted[s] : w[1] = log[n].room /\ w[2] < n
      /\ log[n].room[1] = "notifications" => log[n].room[2] = userId[s]

(* A socket that is open has heard, or will, every broadcast its replica   *)
(* sent to a room it had joined, whoever else came and went; of the ones   *)
(* other replicas sent it hears none.                                      *)
OwnReplicaDelivers ==
  \A s \in Sockets, n \in DOMAIN log :
    link[s] = "open" /\ (\E w \in wanted[s] : w[1] = log[n].room /\ w[2] < n) =>
      (n \in heard[s] \union ToSet(packets[s]) <=> log[n].from = home[s])
=============================================================================
