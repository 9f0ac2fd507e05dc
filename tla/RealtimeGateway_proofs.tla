----------------------- MODULE RealtimeGateway_proofs -----------------------
(* Safety of the websocket gateway, for any replicas, sockets, rooms and   *)
(* number of broadcasts.                                                   *)
EXTENDS Bff, SequenceTheorems, TLAPS

Broadcasts == [from : Replicas, room : Rooms]

\* What was sent to a socket, heard or on its way.
Got(s) == heard[s] \union ToSet(packets[s])

SubscribedBefore(want, room, n) == \E w \in want : w[1] = room /\ w[2] < n

\* What appending to a queue, or taking its head, does to what is in it.
LEMMA ToSetAppend ==
  ASSUME NEW S, NEW q \in Seq(S), NEW x \in S
  PROVE  ToSet(Append(q, x)) = ToSet(q) \union {x}
<1> DEFINE p == Append(q, x)
<1>1. /\ p \in Seq(S) /\ Len(p) = Len(q) + 1 /\ p[Len(q) + 1] = x
      /\ \A i \in 1 .. Len(q) : p[i] = q[i]
  BY AppendProperties
<1> HIDE DEF p
<1>2. /\ Len(q) \in Nat /\ DOMAIN q = 1 .. Len(q) /\ DOMAIN p = 1 .. Len(q) + 1
  BY <1>1, LenProperties
<1>3. ASSUME NEW i \in DOMAIN p PROVE p[i] \in ToSet(q) \union {x}
  <2>1. i \in DOMAIN q \/ i = Len(q) + 1
    BY <1>2
  <2>2. i \in DOMAIN q => p[i] = q[i]
    BY <1>1, <1>2
  <2> QED BY <1>1, <2>1, <2>2 DEF ToSet
<1>4. ASSUME NEW i \in DOMAIN q PROVE q[i] \in ToSet(p)
  <2>1. i \in DOMAIN p /\ p[i] = q[i]
    BY <1>1, <1>2
  <2> QED BY <2>1 DEF ToSet
<1>5. x \in ToSet(p)
  <2>1. Len(q) + 1 \in DOMAIN p
    BY <1>2
  <2> QED BY <1>1, <2>1 DEF ToSet
<1>6. ToSet(p) = ToSet(q) \union {x}
  BY <1>3, <1>4, <1>5 DEF ToSet
<1> QED BY <1>6 DEF p

LEMMA ToSetHeadTail ==
  ASSUME NEW S, NEW q \in Seq(S), q # <<>>
  PROVE  ToSet(q) = ToSet(Tail(q)) \union {Head(q)}
<1> DEFINE p == Tail(q)
<1>1. p \in Seq(S) /\ Len(p) = Len(q) - 1 /\ \A i \in 1 .. Len(p) : p[i] = q[i + 1]
  BY HeadTailProperties
<1> HIDE DEF p
<1>2. /\ Len(q) \in Nat \ {0} /\ DOMAIN q = 1 .. Len(q) /\ DOMAIN p = 1 .. Len(q) - 1
      /\ Head(q) = q[1]
  BY <1>1, LenProperties, EmptySeq
<1>3. ASSUME NEW i \in DOMAIN q PROVE q[i] \in ToSet(p) \union {Head(q)}
  <2>1. i = 1 \/ (i - 1 \in DOMAIN p /\ (i - 1) + 1 = i)
    BY <1>2
  <2>2. i - 1 \in DOMAIN p => p[i - 1] = q[(i - 1) + 1]
    BY <1>1, <1>2
  <2> QED BY <1>2, <2>1, <2>2 DEF ToSet
<1>4. ASSUME NEW i \in DOMAIN p PROVE p[i] \in ToSet(q)
  <2>1. i + 1 \in DOMAIN q /\ p[i] = q[i + 1]
    BY <1>1, <1>2
  <2> QED BY <2>1 DEF ToSet
<1>5. Head(q) \in ToSet(q)
  BY <1>2 DEF ToSet
<1>6. ToSet(q) = ToSet(p) \union {Head(q)}
  BY <1>3, <1>4, <1>5 DEF ToSet
<1> QED BY <1>6 DEF p

(***************************************************************************)
(* One socket, given its link, user, rooms, subscriptions and what it got, *)
(* its replica and the broadcasts so far.                                  *)
(***************************************************************************)
Bare(at, rooms, want, got) ==
  at = "new" => rooms = {} /\ want = {} /\ got = {}

Wanting(at, user, rooms, want, lg) ==
  /\ \A w \in want :
       /\ w[2] <= Len(lg)
       /\ w[1][1] = "notifications" => w[1][2] = user
       /\ at = "open" => w[1] \in rooms
  /\ \A room \in rooms : \E w \in want : w[1] = room /\ w[2] <= Len(lg)

Hearing(at, want, got, h, lg) ==
  /\ \A n \in got :
       /\ n \in 1 .. Len(lg) /\ lg[n].from = h
       /\ SubscribedBefore(want, lg[n].room, n)
  /\ at = "open" => \A n \in 1 .. Len(lg) :
       lg[n].from = h /\ SubscribedBefore(want, lg[n].room, n) => n \in got

SocketOK(s) ==
  /\ Bare(link[s], joined[s], wanted[s], Got(s))
  /\ Wanting(link[s], userId[s], joined[s], wanted[s], log)
  /\ Hearing(link[s], wanted[s], Got(s), home[s], log)

LogFits == Len(log) <= MaxBroadcasts

IInv == GatewayTypeOK /\ LogFits /\ MapIsLive /\ \A s \in Sockets : SocketOK(s)

LEMMA InitIInv == ASSUME GatewayInit PROVE IInv
<1>1. log = <<>> /\ Len(log) = 0 /\ log \in Seq(Broadcasts)
  BY EmptySeq DEF GatewayInit
<1>2. GatewayTypeOK
  BY <1>1, EmptySeq, GatewayAssumption DEF GatewayInit, GatewayTypeOK, Broadcasts
<1>3. LogFits
  BY <1>1, GatewayAssumption DEF LogFits
<1>4. MapIsLive
  BY GatewayAssumption DEF GatewayInit, MapIsLive
<1>5. ASSUME NEW s \in Sockets PROVE SocketOK(s)
  <2>1. link[s] = "new" /\ joined[s] = {} /\ wanted[s] = {} /\ Got(s) = {}
    BY DEF GatewayInit, Got, ToSet
  <2> QED BY <1>1, <2>1 DEF SocketOK, Bare, Wanting, Hearing, SubscribedBefore
<1> QED BY <1>2, <1>3, <1>4, <1>5 DEF IInv

-----------------------------------------------------------------------------
(* Steps of connections *)

\* A socket that is not open has only to keep less than it got.
LEMMA SocketShrinks ==
  ASSUME NEW s \in Sockets, SocketOK(s), link'[s] \in {"dropped", "closed"},
         wanted'[s] = wanted[s], userId'[s] = userId[s], log' = log,
         joined'[s] \subseteq joined[s], Got(s)' \subseteq Got(s)
  PROVE  SocketOK(s)'
<1>1. Bare(link[s], joined[s], wanted[s], Got(s))'
  BY DEF Bare
<1>2. Wanting(link[s], userId[s], joined[s], wanted[s], log)'
  BY DEF SocketOK, Wanting
<1>3. Hearing(link[s], wanted[s], Got(s), home[s], log)'
  BY DEF SocketOK, Hearing
<1> QED BY <1>1, <1>2, <1>3 DEF SocketOK

LEMMA SocketStays ==
  ASSUME NEW s \in Sockets, SocketOK(s), link'[s] = link[s], wanted'[s] = wanted[s],
         userId'[s] = userId[s], log' = log, joined'[s] = joined[s], Got(s)' = Got(s)
  PROVE  SocketOK(s)'
BY DEF SocketOK

LEMMA ConnectionKeeps ==
  ASSUME IInv, NEW s \in Sockets, NEW user \in UserIds \union {Anonymous},
         NEW token \in BOOLEAN, handleConnection(s, user, token)
  PROVE  IInv'
<1>1. home[s] \in Replicas /\ home \in [Sockets -> Replicas]
  BY GatewayAssumption
<1>2. PICK at \in {"open", "rejected"} : link' = [link EXCEPT ![s] = at]
  BY DEF handleConnection
<1>3. /\ link[s] = "new" /\ userId' = [userId EXCEPT ![s] = user]
      /\ connections' = [connections EXCEPT ![home[s]] = @ \union {s}]
      /\ UNCHANGED <<joined, wanted, log, packets, heard>>
  BY DEF handleConnection
<1>4. GatewayTypeOK'
  BY <1>1, <1>2, <1>3 DEF IInv, GatewayTypeOK
<1>5. MapIsLive'
  BY <1>1, <1>2, <1>3 DEF IInv, GatewayTypeOK, MapIsLive
<1>6. ASSUME NEW v \in Sockets PROVE SocketOK(v)'
  <2>1. SocketOK(v) /\ Got(v)' = Got(v)
    BY <1>3 DEF IInv, Got
  <2>2. CASE v = s
    <3>1. joined[v] = {} /\ wanted[v] = {} /\ Got(v) = {}
      BY <1>3, <2>1, <2>2 DEF SocketOK, Bare
    <3> QED BY <1>3, <2>1, <3>1 DEF SocketOK, Bare, Wanting, Hearing, SubscribedBefore
  <2>3. CASE v # s
    BY <1>2, <1>3, <2>1, <2>3, SocketStays DEF IInv, GatewayTypeOK
  <2> QED BY <2>2, <2>3
<1> QED BY <1>3, <1>4, <1>5, <1>6 DEF IInv, LogFits

LEMMA DropKeeps == ASSUME IInv, NEW s \in Sockets, drop(s) PROVE IInv'
<1>1. /\ link[s] = "open" /\ link' = [link EXCEPT ![s] = "dropped"]
      /\ packets' = [packets EXCEPT ![s] = <<>>]
      /\ UNCHANGED <<userId, connections, joined, wanted, log, heard>>
  BY DEF drop
<1>2. GatewayTypeOK'
  BY <1>1, EmptySeq DEF IInv, GatewayTypeOK
<1>3. MapIsLive'
  BY <1>1 DEF IInv, GatewayTypeOK, MapIsLive
<1>4. ASSUME NEW v \in Sockets PROVE SocketOK(v)'
  <2>1. SocketOK(v)
    BY DEF IInv
  <2>2. CASE v = s
    <3>1. packets'[v] = <<>> /\ heard' = heard
      BY <1>1, <2>2 DEF IInv, GatewayTypeOK
    <3>2. Got(v)' \subseteq Got(v)
      BY <3>1 DEF Got, ToSet
    <3> QED BY <1>1, <2>1, <2>2, <3>2, SocketShrinks DEF IInv, GatewayTypeOK
  <2>3. CASE v # s
    <3>1. link'[v] = link[v] /\ packets'[v] = packets[v]
      BY <1>1, <2>3 DEF IInv, GatewayTypeOK
    <3>2. Got(v)' = Got(v)
      BY <1>1, <3>1 DEF Got
    <3> QED BY <1>1, <2>1, <3>1, <3>2, SocketStays
  <2> QED BY <2>2, <2>3
<1> QED BY <1>1, <1>2, <1>3, <1>4 DEF IInv, LogFits

LEMMA DisconnectKeeps == ASSUME IInv, NEW s \in Sockets, handleDisconnect(s) PROVE IInv'
<1>1. /\ link[s] = "dropped" /\ link' = [link EXCEPT ![s] = "closed"]
      /\ connections' = [connections EXCEPT ![home[s]] = @ \ {s}]
      /\ joined' = [joined EXCEPT ![s] = {}]
      /\ UNCHANGED <<userId, wanted, log, packets, heard>>
  BY DEF handleDisconnect
<1>2. GatewayTypeOK'
  BY <1>1, GatewayAssumption DEF IInv, GatewayTypeOK
<1>3. MapIsLive'
  BY <1>1, GatewayAssumption DEF IInv, GatewayTypeOK, MapIsLive
<1>4. ASSUME NEW v \in Sockets PROVE SocketOK(v)'
  <2>1. SocketOK(v) /\ Got(v)' = Got(v)
    BY <1>1 DEF IInv, Got
  <2>2. CASE v = s
    BY <1>1, <2>1, <2>2, SocketShrinks DEF IInv, GatewayTypeOK
  <2>3. CASE v # s
    BY <1>1, <2>1, <2>3, SocketStays DEF IInv, GatewayTypeOK
  <2> QED BY <2>2, <2>3
<1> QED BY <1>1, <1>2, <1>3, <1>4 DEF IInv, LogFits

LEMMA RestartKeeps == ASSUME IInv, NEW r \in Replicas, restart(r) PROVE IInv'
<1> DEFINE mine == {s \in Sockets : home[s] = r /\ link[s] # "new"}
<1>1. /\ connections' = [connections EXCEPT ![r] = {}]
      /\ link' = [s \in Sockets |-> IF s \in mine THEN "closed" ELSE link[s]]
      /\ joined' = [s \in Sockets |-> IF s \in mine THEN {} ELSE joined[s]]
      /\ packets' = [s \in Sockets |-> IF s \in mine THEN <<>> ELSE packets[s]]
      /\ UNCHANGED <<userId, wanted, log, heard>>
  BY DEF restart
<1>2. GatewayTypeOK'
  <2>1. packets' \in [Sockets -> Seq(1 .. MaxBroadcasts)]
    BY <1>1, EmptySeq DEF IInv, GatewayTypeOK
  <2>2. joined' \in [Sockets -> SUBSET Rooms]
    BY <1>1 DEF IInv, GatewayTypeOK
  <2>3. link' \in [Sockets -> {"new", "open", "rejected", "dropped", "closed"}]
    BY <1>1 DEF IInv, GatewayTypeOK
  <2> QED BY <1>1, <2>1, <2>2, <2>3 DEF IInv, GatewayTypeOK
<1>3. MapIsLive'
  BY <1>1, GatewayAssumption DEF IInv, GatewayTypeOK, MapIsLive
<1>4. ASSUME NEW v \in Sockets PROVE SocketOK(v)'
  <2>1. SocketOK(v)
    BY DEF IInv
  <2>2. CASE v \in mine
    <3>1. packets'[v] = <<>> /\ joined'[v] = {} /\ link'[v] = "closed"
      BY <1>1, <2>2
    <3>2. Got(v)' \subseteq Got(v)
      BY <1>1, <3>1 DEF Got, ToSet
    <3> QED BY <1>1, <2>1, <3>1, <3>2, SocketShrinks
  <2>3. CASE v \notin mine
    <3>1. packets'[v] = packets[v] /\ joined'[v] = joined[v] /\ link'[v] = link[v]
      BY <1>1, <2>3
    <3>2. Got(v)' = Got(v)
      BY <1>1, <3>1 DEF Got
    <3> QED BY <1>1, <2>1, <3>1, <3>2, SocketStays
  <2> QED BY <2>2, <2>3
<1> QED BY <1>1, <1>2, <1>3, <1>4 DEF IInv, LogFits

-----------------------------------------------------------------------------
(* Subscriptions, broadcasts and their delivery *)

LEMMA JoinKeeps ==
  ASSUME IInv, NEW s \in Sockets, NEW room \in Rooms, join(s, room),
         room[1] = "notifications" => room[2] = userId[s]
  PROVE  IInv'
<1> DEFINE more == IF room \in joined[s] THEN wanted[s]
                   ELSE wanted[s] \union {<<room, Len(log)>>}
<1>1. /\ link[s] \in {"open", "dropped"}
      /\ joined' = [joined EXCEPT ![s] = joined[s] \union {room}]
      /\ wanted' = [wanted EXCEPT ![s] = more]
      /\ UNCHANGED <<link, userId, connections, log, packets, heard>>
  BY DEF join, IInv, GatewayTypeOK
<1>2. Len(log) \in 0 .. MaxBroadcasts
  BY LenProperties, GatewayAssumption DEF IInv, GatewayTypeOK, LogFits
<1>3. more \in SUBSET (Rooms \X (0 .. MaxBroadcasts))
  BY <1>2 DEF IInv, GatewayTypeOK
<1>4. /\ wanted[s] \subseteq more
      /\ \A w \in more : w \in wanted[s] \/ w = <<room, Len(log)>>
      /\ room \notin joined[s] => <<room, Len(log)>> \in more
  OBVIOUS
<1> HIDE DEF more
<1>5. GatewayTypeOK'
  BY <1>1, <1>3 DEF IInv, GatewayTypeOK
<1>6. MapIsLive'
  BY <1>1 DEF IInv, MapIsLive
<1>7. ASSUME NEW v \in Sockets PROVE SocketOK(v)'
  <2>1. SocketOK(v) /\ Got(v)' = Got(v)
    BY <1>1 DEF IInv, Got
  <2>2. CASE v = s
    <3>1. joined'[v] = joined[v] \union {room} /\ wanted'[v] = more
      BY <1>1, <2>2 DEF IInv, GatewayTypeOK
    <3>2. Bare(link[v], joined[v], wanted[v], Got(v))'
      BY <1>1, <2>2 DEF Bare
    <3>3. Wanting(link[v], userId[v], joined[v], wanted[v], log)'
      <4>1. Wanting(link[v], userId[v], joined[v], wanted[v], log)
        BY <2>1 DEF SocketOK
      <4>2. \A w \in more :
              /\ w[2] <= Len(log)
              /\ w[1][1] = "notifications" => w[1][2] = userId[v]
              /\ link[v] = "open" => w[1] \in joined[v] \union {room}
        BY <1>2, <1>4, <2>2, <4>1 DEF Wanting
      <4>3. \A x \in joined[v] \union {room} : \E w \in more : w[1] = x /\ w[2] <= Len(log)
        BY <1>2, <1>4, <2>2, <4>1 DEF Wanting
      <4> QED BY <1>1, <3>1, <4>2, <4>3 DEF Wanting
    <3>4. Hearing(link[v], wanted[v], Got(v), home[v], log)'
      <4>1. Hearing(link[v], wanted[v], Got(v), home[v], log)
        BY <2>1 DEF SocketOK
      <4>2. \A n \in 1 .. Len(log), x \in Rooms :
              SubscribedBefore(more, x, n) <=> SubscribedBefore(wanted[v], x, n)
        BY <1>2, <1>4, <2>2 DEF SubscribedBefore
      <4>3. \A n \in 1 .. Len(log) : log[n].room \in Rooms
        <5>1. log \in Seq(Broadcasts)
          BY DEF IInv, GatewayTypeOK, Broadcasts
        <5>2. \A n \in 1 .. Len(log) : log[n] \in Broadcasts
          BY <5>1, ElementOfSeq
        <5> QED BY <5>2 DEF Broadcasts
      <4> QED BY <1>1, <2>1, <3>1, <4>1, <4>2, <4>3 DEF Hearing
    <3> QED BY <3>2, <3>3, <3>4 DEF SocketOK
  <2>3. CASE v # s
    BY <1>1, <2>1, <2>3, SocketStays DEF IInv, GatewayTypeOK
  <2> QED BY <2>2, <2>3
<1> QED BY <1>1, <1>5, <1>6, <1>7 DEF IInv, LogFits

LEMMA BroadcastKeeps ==
  ASSUME IInv, NEW r \in Replicas, NEW room \in Rooms, broadcast(r, room)
  PROVE  IInv'
<1> DEFINE b == [from |-> r, room |-> room]
           reached == {s \in inRoom(r, room) : link[s] = "open"}
<1>1. /\ log \in Seq(Broadcasts) /\ Len(log) \in Nat /\ Len(log) + 1 <= MaxBroadcasts
      /\ b \in Broadcasts /\ b.from = r /\ b.room = room /\ log' = Append(log, b)
  BY LenProperties, GatewayAssumption DEF broadcast, IInv, GatewayTypeOK, Broadcasts
<1>2. /\ packets' = [s \in Sockets |-> IF s \in reached THEN Append(packets[s], Len(log) + 1)
                                       ELSE packets[s]]
      /\ UNCHANGED <<link, userId, connections, joined, wanted, heard>>
  BY DEF broadcast, inRoom
<1>3. \A s \in Sockets : s \in reached <=>
        home[s] = r /\ room \in joined[s] /\ link[s] = "open"
  BY DEF inRoom
<1> HIDE DEF b, reached
<1>4. /\ log' \in Seq(Broadcasts) /\ Len(log') = Len(log) + 1 /\ log'[Len(log) + 1] = b
      /\ \A n \in 1 .. Len(log) : log'[n] = log[n]
  BY <1>1, AppendProperties
<1>5. LogFits'
  BY <1>1, <1>4 DEF LogFits
<1>6. Len(log) + 1 \in 1 .. MaxBroadcasts
  BY <1>1, GatewayAssumption
<1>7. \A s \in Sockets : packets[s] \in Seq(1 .. MaxBroadcasts)
  BY DEF IInv, GatewayTypeOK
<1>8. packets' \in [Sockets -> Seq(1 .. MaxBroadcasts)]
  BY <1>2, <1>6, <1>7, AppendProperties
<1>9. GatewayTypeOK'
  BY <1>2, <1>4, <1>8 DEF IInv, GatewayTypeOK, Broadcasts
<1>10. MapIsLive'
  BY <1>2 DEF IInv, MapIsLive
<1>11. ASSUME NEW s \in Sockets PROVE SocketOK(s)'
  <2>1. SocketOK(s)
    BY DEF IInv
  <2>2. Got(s)' = Got(s) \union (IF s \in reached THEN {Len(log) + 1} ELSE {})
    <3>1. CASE s \in reached
      <4>1. packets'[s] = Append(packets[s], Len(log) + 1)
        BY <1>2, <3>1
      <4>2. ToSet(packets'[s]) = ToSet(packets[s]) \union {Len(log) + 1}
        <5> DEFINE S == 1 .. MaxBroadcasts
        <5>1. packets[s] \in Seq(S) /\ Len(log) + 1 \in S
          BY <1>6, <1>7
        <5> HIDE DEF S
        <5>2. ToSet(Append(packets[s], Len(log) + 1)) = ToSet(packets[s]) \union {Len(log) + 1}
          BY <5>1, ToSetAppend
        <5> QED BY <4>1, <5>2
      <4> QED BY <1>2, <3>1, <4>2 DEF Got
    <3>2. CASE s \notin reached
      BY <1>2, <3>2 DEF Got
    <3> QED BY <3>1, <3>2
  <2>3. Bare(link[s], joined[s], wanted[s], Got(s))'
    BY <1>2, <1>3, <2>1, <2>2 DEF SocketOK, Bare
  <2>4. wanted[s] \subseteq Rooms \X (0 .. MaxBroadcasts)
    BY DEF IInv, GatewayTypeOK
  <2>5. Wanting(link[s], userId[s], joined[s], wanted[s], log)
    BY <2>1 DEF SocketOK
  <2>6. Wanting(link[s], userId[s], joined[s], wanted[s], log)'
    BY <1>1, <1>2, <1>4, <2>4, <2>5 DEF Wanting
  <2>7. Hearing(link[s], wanted[s], Got(s), home[s], log)
    BY <2>1 DEF SocketOK
  <2>8. ASSUME NEW n \in Got(s)'
        PROVE  /\ n \in 1 .. Len(log') /\ log'[n].from = home[s]
               /\ SubscribedBefore(wanted[s], log'[n].room, n)
    <3>1. CASE n \in Got(s)
      BY <1>1, <1>4, <2>7, <3>1 DEF Hearing
    <3>2. CASE n \notin Got(s)
      <4>1. n = Len(log) + 1 /\ s \in reached
        BY <2>2, <3>2
      <4>2. PICK w \in wanted[s] : w[1] = room /\ w[2] <= Len(log)
        BY <1>3, <2>5, <4>1 DEF Wanting
      <4>3. w[2] < n
        BY <1>1, <2>4, <4>1, <4>2
      <4>4. log'[n] = b /\ n \in 1 .. Len(log')
        BY <1>1, <1>4, <4>1
      <4> QED BY <1>1, <1>3, <4>1, <4>2, <4>3, <4>4 DEF SubscribedBefore
    <3> QED BY <3>1, <3>2
  <2>9. ASSUME link[s] = "open", NEW n \in 1 .. Len(log'), log'[n].from = home[s],
               SubscribedBefore(wanted[s], log'[n].room, n)
        PROVE  n \in Got(s)'
    <3>1. CASE n \in 1 .. Len(log)
      BY <1>4, <2>2, <2>7, <2>9, <3>1 DEF Hearing
    <3>2. CASE n = Len(log) + 1
      <4>1. home[s] = r /\ SubscribedBefore(wanted[s], room, n)
        BY <1>1, <1>4, <2>9, <3>2
      <4>2. room \in joined[s]
        BY <2>5, <2>9, <4>1 DEF Wanting, SubscribedBefore
      <4>3. s \in reached
        BY <1>3, <2>9, <4>1, <4>2
      <4> QED BY <2>2, <3>2, <4>3
    <3> QED BY <1>1, <1>4, <3>1, <3>2
  <2>10. Hearing(link[s], wanted[s], Got(s), home[s], log)'
    BY <1>2, <2>8, <2>9 DEF Hearing
  <2> QED BY <2>3, <2>6, <2>10 DEF SocketOK
<1> QED BY <1>5, <1>9, <1>10, <1>11 DEF IInv

LEMMA DeliverKeeps == ASSUME IInv, NEW s \in Sockets, deliver(s) PROVE IInv'
<1>1. /\ packets[s] # <<>> /\ packets' = [packets EXCEPT ![s] = Tail(packets[s])]
      /\ heard' = [heard EXCEPT ![s] = heard[s] \union {Head(packets[s])}]
      /\ UNCHANGED <<link, userId, connections, joined, wanted, log>>
  BY DEF deliver, IInv, GatewayTypeOK
<1>2. packets[s] \in Seq(1 .. MaxBroadcasts)
  BY DEF IInv, GatewayTypeOK
<1>3. /\ Head(packets[s]) \in 1 .. MaxBroadcasts /\ Tail(packets[s]) \in Seq(1 .. MaxBroadcasts)
  BY <1>1, <1>2, HeadTailProperties
<1>4. GatewayTypeOK'
  BY <1>1, <1>3 DEF IInv, GatewayTypeOK
<1>5. MapIsLive'
  BY <1>1 DEF IInv, MapIsLive
<1>6. ToSet(packets[s]) = ToSet(Tail(packets[s])) \union {Head(packets[s])}
  BY <1>1, <1>2, ToSetHeadTail
<1>7. ASSUME NEW v \in Sockets PROVE SocketOK(v)'
  <2>1. SocketOK(v)
    BY DEF IInv
  <2>2. Got(v)' = Got(v)
    <3>1. CASE v = s
      <4>1. packets'[v] = Tail(packets[s]) /\ heard'[v] = heard[s] \union {Head(packets[s])}
        BY <1>1, <3>1 DEF IInv, GatewayTypeOK
      <4> QED BY <1>6, <3>1, <4>1 DEF Got
    <3>2. CASE v # s
      BY <1>1, <3>2 DEF Got, IInv, GatewayTypeOK
    <3> QED BY <3>1, <3>2
  <2> QED BY <1>1, <2>1, <2>2, SocketStays
<1> QED BY <1>1, <1>4, <1>5, <1>7 DEF IInv, LogFits

-----------------------------------------------------------------------------
LEMMA RoomsAre ==
  ASSUME GatewayTypeOK
  PROVE  /\ \A d \in Dashboards : <<"analytics", d>> \in Rooms
         /\ \A m \in MetricTypes : <<"metrics", m>> \in Rooms
         /\ \A u \in UserIds : <<"notifications", u>> \in Rooms
         /\ \A s \in Sockets : <<"notifications", userId[s]>> \in Rooms
BY DEF Rooms, GatewayTypeOK

LEMMA StepIInv == ASSUME IInv, [GatewayNext]_gatewayVars PROVE IInv'
<1>1. CASE UNCHANGED gatewayVars
  <2>1. GatewayTypeOK' /\ LogFits' /\ MapIsLive'
    BY <1>1 DEF IInv, GatewayTypeOK, LogFits, MapIsLive, gatewayVars
  <2>2. ASSUME NEW s \in Sockets PROVE SocketOK(s)'
    BY <1>1 DEF IInv, gatewayVars, SocketOK, Got
  <2> QED BY <2>1, <2>2 DEF IInv
<1>2. ASSUME NEW s \in Sockets, NEW d \in Dashboards, handleAnalyticsSubscribe(s, d)
      PROVE  IInv'
  <2>1. <<"analytics", d>> \in Rooms /\ <<"analytics", d>>[1] # "notifications"
    BY RoomsAre DEF IInv
  <2> QED BY <1>2, <2>1, JoinKeeps DEF handleAnalyticsSubscribe
<1>3. ASSUME NEW s \in Sockets, NEW m \in MetricTypes, handleMetricsSubscribe(s, m)
      PROVE  IInv'
  <2>1. <<"metrics", m>> \in Rooms /\ <<"metrics", m>>[1] # "notifications"
    BY RoomsAre DEF IInv
  <2> QED BY <1>3, <2>1, JoinKeeps DEF handleMetricsSubscribe
<1>4. ASSUME NEW s \in Sockets, handleNotificationsSubscribe(s) PROVE IInv'
  <2>1. <<"notifications", userId[s]>> \in Rooms /\ <<"notifications", userId[s]>>[2] = userId[s]
    BY RoomsAre DEF IInv
  <2> QED BY <1>4, <2>1, JoinKeeps DEF handleNotificationsSubscribe
<1>5. ASSUME NEW r \in Replicas, NEW room \in Rooms, broadcast(r, room) PROVE IInv'
  BY <1>5, BroadcastKeeps
<1>6. ASSUME NEW r \in Replicas,
             \/ \E d \in Dashboards : broadcastAnalyticsUpdate(r, d)
             \/ \E m \in MetricTypes : broadcastMetricsUpdate(r, m)
             \/ \E user \in UserIds : broadcastNotification(r, user)
      PROVE  IInv'
  BY <1>5, <1>6, RoomsAre
     DEF IInv, broadcastAnalyticsUpdate, broadcastMetricsUpdate, broadcastNotification
<1> QED BY <1>1, <1>2, <1>3, <1>4, <1>6, ConnectionKeeps, DropKeeps, DisconnectKeeps,
           RestartKeeps, DeliverKeeps DEF GatewayNext

\* The map of a replica is right about every connection that was accepted, and
\* keeps, besides, the refused ones.
THEOREM MapFollowsLinks == GatewaySpec => []GatewayInv
<1>1. IInv => GatewayInv
  BY DEF IInv, GatewayInv
<1> QED BY <1>1, InitIInv, StepIInv, PTL DEF GatewaySpec

\* Nobody hears of a room it did not subscribe to, or another user's
\* notifications.
THEOREM OnlyWantedIsHeard == GatewaySpec => []HeardIsWanted
<1>1. ASSUME IInv PROVE HeardIsWanted
  <2> SUFFICES ASSUME NEW s \in Sockets, NEW n \in Got(s)
               PROVE  /\ \E w \in wanted[s] : w[1] = log[n].room /\ w[2] < n
                      /\ log[n].room[1] = "notifications" => log[n].room[2] = userId[s]
    BY DEF HeardIsWanted, Got
  <2>1. /\ Wanting(link[s], userId[s], joined[s], wanted[s], log)
        /\ Hearing(link[s], wanted[s], Got(s), home[s], log)
    BY <1>1 DEF IInv, SocketOK
  <2>2. PICK w \in wanted[s] : w[1] = log[n].room /\ w[2] < n
    BY <2>1 DEF Hearing, SubscribedBefore
  <2> QED BY <2>1, <2>2 DEF Wanting
<1> QED BY <1>1, InitIInv, StepIInv, PTL DEF GatewaySpec

\* An open socket gets every broadcast of its own replica to its rooms, and
\* none of another's.
THEOREM ReplicaDelivers == GatewaySpec => []OwnReplicaDelivers
<1>1. ASSUME IInv PROVE OwnReplicaDelivers
  <2> SUFFICES ASSUME NEW s \in Sockets, NEW n \in DOMAIN log, link[s] = "open",
                      SubscribedBefore(wanted[s], log[n].room, n)
               PROVE  n \in Got(s) <=> log[n].from = home[s]
    BY DEF OwnReplicaDelivers, Got, SubscribedBefore
  <2>1. Hearing(link[s], wanted[s], Got(s), home[s], log)
    BY <1>1 DEF IInv, SocketOK
  <2>2. n \in 1 .. Len(log)
    BY <1>1, LenProperties DEF IInv, GatewayTypeOK
  <2> QED BY <2>1, <2>2 DEF Hearing
<1> QED BY <1>1, InitIInv, StepIInv, PTL DEF GatewaySpec

\* The two edges of a BFF stay what they are in one process: what is proved of
\* each (here and in BffHttp_proofs) holds of Bff.
THEOREM EdgesImplemented == BffSpec => HttpSpec /\ GatewaySpec
<1>1. BffInit => HttpInit /\ GatewayInit
  BY DEF BffInit
<1>2. [BffNext]_bffVars => [HttpNext]_httpVars
  BY DEF BffNext, bffVars
<1>3. [BffNext]_bffVars => [GatewayNext]_gatewayVars
  BY DEF BffNext, bffVars
<1> QED BY <1>1, <1>2, <1>3, PTL DEF BffSpec, HttpSpec, GatewaySpec
=============================================================================
