------------------------- MODULE ClientRegistryProofs -------------------------
(* Proofs about ClientRegistry, for any devices, threads, bounds and setups. *)
EXTENDS ClientRegistry, FiniteSetTheorems, TLAPS

-----------------------------------------------------------------------------
(* The invariant.                                                            *)

SockType == [dev : Device \union {None}, st : {"free", "open", "gone", "lost"}, unread : BOOLEAN]

\* the type invariant in two parts, and the setup
OutsideTypes ==
    /\ left \in Nat /\ retired \subseteq Device
    /\ link \in [Device -> 0..MaxFd] /\ sock \in [Fd -> SockType]
    /\ online \in [Device -> BOOLEAN] /\ pushing \in BOOLEAN

ServerTypes ==
    /\ node \in [Node -> NodeType] /\ hash \subseteq Node
    /\ pc \in [Thread -> {"idle", "register", "update", "close", "offline"}]
    /\ cur \in [Thread -> 0..MaxNode]
    /\ events \in [Thread -> SUBSET [fd : Fd, hup : BOOLEAN]]
    /\ key \in Thread \union {Free}

Types == OutsideTypes /\ ServerTypes /\ setup \in Setups

\* An open descriptor has its device, and a connected device its descriptor.
SocksInv ==
    /\ \A f \in Fd : sock[f] # NoSock => sock[f].dev \in Device
    /\ \A d \in Device : link[d] # 0 => sock[link[d]].dev = d

\* A node that is not closed has the open descriptor that falls to its thread, and an
\* open descriptor has one node.
NodesInv ==
    /\ \A n \in Node : Live(n) /\ node[n].fd # 0 =>
          sock[node[n].fd] # NoSock /\ node[n].thread = Owner(node[n].fd)
    /\ \A m, n \in Node : Live(m) /\ Live(n) /\ node[m].fd = node[n].fd /\ node[n].fd # 0 => m = n
    /\ \A f \in Fd : sock[f] # NoSock => \E n \in Node : Live(n) /\ node[n].fd = f

\* The nodes that are found by their serial: one for a serial, all that are not closed,
\* and all that still have to put their device offline.
HashInv ==
    /\ \A n \in hash : Live(n) /\ node[n].serial # None
    /\ \A m, n \in hash : node[m].serial = node[n].serial => m = n
    /\ \A n \in Node : Live(n) /\ node[n].serial # None =>
          /\ node[n].fd # 0 => node[n].serial = sock[node[n].fd].dev /\ n \in hash
          /\ ~node[n].no_update_db => n \in hash
    /\ \A n \in Node : Live(n) /\ node[n].serial = None => node[n].add_online_log

\* The node a thread works on is its own; who registers has an open descriptor and no
\* serial, and who puts a device offline holds the key mutex over its closed node.
WorkInv ==
    \A t \in Thread :
        /\ pc[t] # "idle" => cur[t] \in Node /\ Live(cur[t]) /\ node[cur[t]].thread = t
        /\ pc[t] = "register" => node[cur[t]].serial = None /\ node[cur[t]].fd # 0
        /\ pc[t] = "update" => node[cur[t]].serial # None
        /\ pc[t] = "offline" => cur[t] \in hash /\ node[cur[t]].fd = 0 /\ key = t

Inv == Types /\ SocksInv /\ NodesInv /\ HashInv /\ WorkInv /\ ConnectedIsOnline

\* The two parts make up the type invariant.
LEMMA TypeParts == OutsideTypes /\ ServerTypes <=> TypeOK
BY DEF OutsideTypes, ServerTypes, TypeOK, SockType

\* What a setup is.
LEMMA SetupParts ==
    ASSUME setup \in Setups
    PROVE  setup.fails \in Nat /\ setup.devs \subseteq Device
BY SetupsAreKnown

\* A descriptor falls to one of the threads.
LEMMA OwnerIsThread == \A f \in Fd : Owner(f) \in Thread
<1>1. ASSUME NEW f \in Fd PROVE f % ThreadNum \in 0..ThreadNum - 1
  <2>1. f \in Nat /\ ThreadNum \in Nat /\ ThreadNum > 0
    BY ThreadNumAssumption, BoundsAreNat DEF Fd
  <2>2. QED
    BY <2>1
<1>2. QED
  BY <1>1 DEF Owner, Thread

\* What is not a node, a connection or a thread is told apart from those that are.
LEMMA Nothings ==
    /\ NoNode \in NodeType /\ NoSock \in SockType
    /\ Free \notin Thread /\ Thread # {}
    /\ \A f \in Fd : FreshNode(f) \in NodeType /\ FreshNode(f) # NoNode /\ f # 0
<1>1. ThreadNum \in Nat /\ ThreadNum > 0 /\ MaxFd \in Nat
  BY ThreadNumAssumption, BoundsAreNat
<1>2. 0 \in Thread /\ Free \notin Thread
  BY <1>1 DEF Thread, Free
<1>3. NoNode \in NodeType /\ NoSock \in SockType
  BY <1>1, <1>2 DEF NoNode, NodeType, NoSock, SockType
<1>4. ASSUME NEW f \in Fd PROVE FreshNode(f) \in NodeType /\ FreshNode(f) # NoNode /\ f # 0
  <2>1. f # 0 /\ f \in 0..MaxFd
    BY <1>1 DEF Fd
  <2>2. FreshNode(f) \in NodeType
    BY <2>1, OwnerIsThread DEF FreshNode, NodeType
  <2>3. QED
    BY <2>1, <2>2 DEF FreshNode, NoNode
<1>5. QED
  BY <1>2, <1>3, <1>4

\* Nothing is connected at the start, and no thread works.
LEMMA InitInv == Init => Inv
<1>1. SUFFICES ASSUME Init PROVE Inv
  OBVIOUS
<1>2. setup \in Setups /\ setup.fails \in Nat
  BY <1>1, SetupParts DEF Init
<1>3. OutsideTypes
  <2>1. 0 \in 0..MaxFd
    BY BoundsAreNat
  <2>2. link \in [Device -> 0..MaxFd] /\ sock \in [Fd -> SockType]
    BY <1>1, <2>1, Nothings DEF Init
  <2>3. online \in [Device -> BOOLEAN] /\ pushing \in BOOLEAN
    BY <1>1 DEF Init
  <2>4. QED
    BY <1>1, <1>2, <2>2, <2>3 DEF Init, OutsideTypes
<1>4. ServerTypes
  BY <1>1, Nothings, BoundsAreNat DEF Init, ServerTypes
<1>5. SocksInv /\ NodesInv /\ HashInv /\ WorkInv /\ ConnectedIsOnline
  BY <1>1 DEF Init, SocksInv, NodesInv, HashInv, WorkInv, ConnectedIsOnline, Live
<1>6. QED
  BY <1>2, <1>3, <1>4, <1>5 DEF Inv, Types

-----------------------------------------------------------------------------
(* Steps that leave the nodes alone.                                         *)

\* Connections end and messages arrive on descriptors that stay what they are.
SocksStay ==
    /\ sock' \in [Fd -> SockType] /\ link' \in [Device -> 0..MaxFd]
    /\ \A f \in Fd : (sock'[f] = NoSock <=> sock[f] = NoSock) /\ sock'[f].dev = sock[f].dev
    /\ \A d \in Device : link'[d] = link[d] \/ link'[d] = 0

\* Then the invariant about them stays, if the nodes do.
LEMMA SocksStayInv ==
    ASSUME Inv, SocksStay, UNCHANGED <<node, hash>>
    PROVE  SocksInv' /\ NodesInv' /\ HashInv'
<1>1. link \in [Device -> 0..MaxFd] /\ node \in [Node -> NodeType]
  BY DEF Inv, Types, OutsideTypes, ServerTypes
<1>2. \A d \in Device : link[d] # 0 => link[d] \in Fd
  BY <1>1, BoundsAreNat DEF Fd
<1>3. \A n \in Node : node[n].fd # 0 => node[n].fd \in Fd
  BY <1>1, BoundsAreNat DEF Fd, NodeType
<1>4. SocksInv'
  BY <1>2 DEF SocksStay, Inv, SocksInv
<1>5. NodesInv'
  BY <1>3 DEF SocksStay, Inv, NodesInv, Live
<1>6. HashInv'
  BY <1>3 DEF SocksStay, Inv, HashInv, Live
<1>7. QED
  BY <1>4, <1>5, <1>6

\* Beat, Drop and Retire are such steps.
LEMMA DeviceSteps ==
    ASSUME Inv, NEW d \in Device, Beat(d) \/ Drop(d) \/ Retire(d)
    PROVE  /\ SocksStay /\ UNCHANGED <<node, hash, threads, key, pushing, online>>
           /\ left' \in Nat /\ retired' \subseteq Device
<1>1. /\ link \in [Device -> 0..MaxFd] /\ sock \in [Fd -> SockType]
      /\ left \in Nat /\ retired \subseteq Device
  BY DEF Inv, Types, OutsideTypes
<1>2. link[d] # 0 => link[d] \in Fd /\ sock[link[d]].dev = d /\ d # None
  BY <1>1, BoundsAreNat, NoneIsNoDevice DEF Fd, Inv, SocksInv
<1>3. ASSUME link[d] # 0, NEW st \in {"gone", "lost"}, End(d, st) PROVE SocksStay
  <2>1. sock' = [sock EXCEPT ![link[d]].st = st] /\ link' = [link EXCEPT ![d] = 0]
    BY <1>3 DEF End
  <2>2. link' \in [Device -> 0..MaxFd] /\ \A e \in Device : link'[e] = link[e] \/ link'[e] = 0
    BY <1>1, <2>1, BoundsAreNat
  <2>3. sock' \in [Fd -> SockType]
    BY <1>1, <1>2, <1>3, <2>1 DEF SockType
  <2>4. \A f \in Fd : f # link[d] => sock'[f] = sock[f]
    BY <1>1, <2>1
  <2>5. sock'[link[d]].dev = d
    BY <1>1, <1>2, <1>3, <2>1 DEF SockType
  <2>6. \A f \in Fd : (sock'[f] = NoSock <=> sock[f] = NoSock) /\ sock'[f].dev = sock[f].dev
    BY <1>2, <1>3, <2>4, <2>5 DEF NoSock
  <2>7. QED
    BY <2>2, <2>3, <2>6 DEF SocksStay
<1>4. ASSUME Beat(d) PROVE SocksStay
  <2>1. link' = link /\ sock' = [sock EXCEPT ![link[d]].unread = TRUE] /\ link[d] # 0
    BY <1>4 DEF Beat
  <2>2. sock' \in [Fd -> SockType]
    BY <1>1, <1>2, <2>1 DEF SockType
  <2>3. \A f \in Fd : f # link[d] => sock'[f] = sock[f]
    BY <1>1, <2>1
  <2>4. sock'[link[d]].dev = d
    BY <1>1, <1>2, <2>1 DEF SockType
  <2>5. \A f \in Fd : (sock'[f] = NoSock <=> sock[f] = NoSock) /\ sock'[f].dev = sock[f].dev
    BY <1>2, <2>1, <2>3, <2>4 DEF NoSock
  <2>6. QED
    BY <1>1, <2>1, <2>2, <2>5 DEF SocksStay
<1>5. ASSUME UNCHANGED <<sock, link>> PROVE SocksStay
  BY <1>1, <1>5 DEF SocksStay
<1>6. SocksStay
  BY <1>3, <1>4, <1>5 DEF Drop, Retire
<1>7. UNCHANGED <<node, hash, threads, key, pushing, online>>
  BY DEF Beat, Drop, Retire, OthersLeave
<1>8. left' \in Nat /\ retired' \subseteq Device
  BY <1>1 DEF Beat, Drop, Retire, outside
<1>9. QED
  BY <1>6, <1>7, <1>8

\* A step of the devices that ends or uses a connection keeps the invariant.
LEMMA DeviceInv ==
    ASSUME Inv, setup' = setup, NEW d \in Device, Beat(d) \/ Drop(d) \/ Retire(d)
    PROVE  Inv'
<1>1. /\ SocksStay /\ UNCHANGED <<node, hash, pc, cur, events, key, pushing, online>>
      /\ left' \in Nat /\ retired' \subseteq Device
  BY DeviceSteps DEF threads
<1>2. Types'
  BY <1>1 DEF Inv, Types, OutsideTypes, ServerTypes, SocksStay
<1>3. SocksInv' /\ NodesInv' /\ HashInv'
  BY <1>1, SocksStayInv
<1>4. WorkInv' /\ ConnectedIsOnline'
  BY <1>1 DEF Inv, WorkInv, ConnectedIsOnline, Live
<1>5. QED
  BY <1>2, <1>3, <1>4 DEF Inv

-----------------------------------------------------------------------------
(* A new connection.                                                         *)

\* The new node is found by its descriptor only.
LEMMA ConnectInv ==
    ASSUME Inv, setup' = setup, NEW d \in Device, Connect(d)
    PROVE  Inv'
<1>1. PICK f \in Fd, n \in Node :
          /\ sock[f] = NoSock /\ ~Live(n)
          /\ link' = [link EXCEPT ![d] = f]
          /\ sock' = [sock EXCEPT ![f] = [dev |-> d, st |-> "open", unread |-> FALSE]]
          /\ node' = [node EXCEPT ![n] = FreshNode(f)]
  BY DEF Connect
<1>2. UNCHANGED <<left, retired, hash, pc, cur, events, key, pushing, online>>
  BY DEF Connect, OthersLeave, outside, threads
<1>3. /\ link \in [Device -> 0..MaxFd] /\ sock \in [Fd -> SockType]
      /\ node \in [Node -> NodeType] /\ hash \subseteq Node
  BY DEF Inv, Types, OutsideTypes, ServerTypes
<1>4. \A g \in Fd : sock'[g] = IF g = f THEN [dev |-> d, st |-> "open", unread |-> FALSE] ELSE sock[g]
  BY <1>1, <1>3
<1>5. \A m \in Node : node'[m] = IF m = n THEN FreshNode(f) ELSE node[m]
  BY <1>1, <1>3
<1>6. \A e \in Device : link'[e] = IF e = d THEN f ELSE link[e]
  BY <1>1, <1>3
<1>7. d # None /\ NoSock.dev = None /\ sock'[f] # NoSock /\ sock'[f].dev = d
  BY <1>4, NoneIsNoDevice DEF NoSock
<1>8. /\ FreshNode(f).fd = f /\ FreshNode(f).thread = Owner(f) /\ FreshNode(f).serial = None
      /\ FreshNode(f).add_online_log /\ FreshNode(f) # NoNode /\ f # 0 /\ FreshNode(f) \in NodeType
  BY Nothings DEF FreshNode
<1>9. \A m \in Node : node[m].fd # 0 => node[m].fd \in Fd
  BY <1>3, BoundsAreNat DEF Fd, NodeType
<1>10. \A m \in Node : Live(m) => m # n /\ node[m].fd # f /\ Live(m)'
  BY <1>1, <1>5, <1>8 DEF Live, Inv, NodesInv
<1>11. \A m \in Node : Live(m)' => m = n \/ Live(m)
  BY <1>5 DEF Live
<1>12. Types'
  <2>1. link' \in [Device -> 0..MaxFd]
    BY <1>1, <1>3, BoundsAreNat DEF Fd
  <2>2. sock' \in [Fd -> SockType]
    BY <1>1, <1>3 DEF SockType
  <2>3. node' \in [Node -> NodeType]
    BY <1>1, <1>3, <1>8
  <2>4. QED
    BY <1>2, <2>1, <2>2, <2>3 DEF Inv, Types, OutsideTypes, ServerTypes
<1>13. SocksInv'
  <2>1. \A g \in Fd : sock'[g] # NoSock => sock'[g].dev \in Device
    BY <1>4, <1>7 DEF Inv, SocksInv
  <2>2. \A e \in Device : link[e] # 0 => link[e] \in Fd /\ link[e] # f
    BY <1>1, <1>3, <1>7, NoneIsNoDevice, BoundsAreNat DEF Fd, Inv, SocksInv
  <2>3. \A e \in Device : link'[e] # 0 => sock'[link'[e]].dev = e
    BY <1>4, <1>6, <1>7, <2>2 DEF Inv, SocksInv
  <2>4. QED
    BY <2>1, <2>3 DEF SocksInv
<1>14. NodesInv'
  <2>1. \A m \in Node : Live(m)' /\ node'[m].fd # 0 =>
          sock'[node'[m].fd] # NoSock /\ node'[m].thread = Owner(node'[m].fd)
    BY <1>4, <1>5, <1>7, <1>8, <1>9, <1>10, <1>11 DEF Inv, NodesInv
  <2>2. \A l, m \in Node : Live(l)' /\ Live(m)' /\ node'[l].fd = node'[m].fd /\ node'[m].fd # 0 => l = m
    BY <1>5, <1>8, <1>10, <1>11 DEF Inv, NodesInv
  <2>3. \A g \in Fd : sock'[g] # NoSock => \E m \in Node : Live(m)' /\ node'[m].fd = g
    <3>1. ASSUME NEW g \in Fd, sock'[g] # NoSock PROVE \E m \in Node : Live(m)' /\ node'[m].fd = g
      <4>1. CASE g = f
        BY <1>5, <1>8, <4>1 DEF Live
      <4>2. CASE g # f
        <5>1. PICK m \in Node : Live(m) /\ node[m].fd = g
          BY <1>4, <3>1, <4>2 DEF Inv, NodesInv
        <5>2. QED
          BY <1>5, <1>10, <5>1
      <4>3. QED
        BY <4>1, <4>2
    <3>2. QED
      BY <3>1
  <2>4. QED
    BY <2>1, <2>2, <2>3 DEF NodesInv, Live
<1>15. HashInv'
  <2>1. \A m \in hash : m \in Node /\ Live(m) /\ m # n /\ node'[m] = node[m]
    BY <1>3, <1>5, <1>10 DEF Inv, HashInv
  <2>2. /\ \A m \in hash : Live(m)' /\ node'[m].serial # None
        /\ \A l, m \in hash : node'[l].serial = node'[m].serial => l = m
    BY <1>10, <2>1 DEF Inv, HashInv
  <2>3. \A m \in Node : Live(m)' /\ node'[m].serial # None =>
          /\ node'[m].fd # 0 => node'[m].serial = sock'[node'[m].fd].dev /\ m \in hash
          /\ ~node'[m].no_update_db => m \in hash
    BY <1>4, <1>5, <1>8, <1>9, <1>10, <1>11 DEF Inv, HashInv
  <2>4. \A m \in Node : Live(m)' /\ node'[m].serial = None => node'[m].add_online_log
    BY <1>5, <1>8, <1>11 DEF Inv, HashInv
  <2>5. QED
    BY <1>2, <2>2, <2>3, <2>4 DEF HashInv, Live
<1>16. WorkInv' /\ ConnectedIsOnline'
  <2>1. \A t \in Thread : pc[t] # "idle" => node'[cur[t]] = node[cur[t]] /\ Live(cur[t])'
    BY <1>2, <1>5, <1>10 DEF Inv, WorkInv, Live
  <2>2. \A m \in hash : node'[m] = node[m]
    BY <1>3, <1>5, <1>10 DEF Inv, HashInv
  <2>3. QED
    BY <1>2, <2>1, <2>2 DEF Inv, WorkInv, ConnectedIsOnline, Live
<1>17. QED
  BY <1>12, <1>13, <1>14, <1>15, <1>16 DEF Inv

-----------------------------------------------------------------------------
(* A thread looks for something to do.                                       *)

\* A thread that was idle goes on with one of its own live nodes, in a step that is
\* right for the node.
TakesOn(t) ==
    \/ UNCHANGED <<pc, cur>>
    \/ \E n \in Of(t), p \in {"close", "register", "update"} :
          /\ pc[t] = "idle" /\ Go(t, p, n)
          /\ p = "register" => node[n].serial = None /\ node[n].fd # 0
          /\ p = "update" => node[n].serial # None

\* Whatever it takes on, the invariant stays.
LEMMA TakesOnInv ==
    ASSUME Inv, setup' = setup, NEW t \in Thread, TakesOn(t), SocksStay,
           events' \in [Thread -> SUBSET [fd : Fd, hup : BOOLEAN]],
           UNCHANGED <<left, retired, node, hash, key, pushing, online>>
    PROVE  Inv'
<1>1. /\ pc \in [Thread -> {"idle", "register", "update", "close", "offline"}]
      /\ cur \in [Thread -> 0..MaxNode]
  BY DEF Inv, Types, ServerTypes
<1>2. /\ pc' \in [Thread -> {"idle", "register", "update", "close", "offline"}]
      /\ cur' \in [Thread -> 0..MaxNode]
  <2>1. Node \subseteq 0..MaxNode
    BY BoundsAreNat DEF Node
  <2>2. QED
    BY <1>1, <2>1 DEF TakesOn, Go, Of
<1>3. Types'
  BY <1>2 DEF Inv, Types, OutsideTypes, ServerTypes, SocksStay
<1>4. SocksInv' /\ NodesInv' /\ HashInv'
  BY SocksStayInv
<1>5. WorkInv'
  <2>1. CASE UNCHANGED <<pc, cur>>
    BY <2>1 DEF Inv, WorkInv, Live
  <2>2. ASSUME NEW n \in Of(t), NEW p \in {"close", "register", "update"}, Go(t, p, n),
               p = "register" => node[n].serial = None /\ node[n].fd # 0,
               p = "update" => node[n].serial # None
        PROVE  WorkInv'
    <3>1. /\ pc'[t] = p /\ cur'[t] = n
          /\ \A u \in Thread : u # t => pc'[u] = pc[u] /\ cur'[u] = cur[u]
      BY <1>1, <2>2 DEF Go
    <3>2. n \in Node /\ Live(n) /\ node[n].thread = t
      BY DEF Of
    <3>3. QED
      BY <2>2, <3>1, <3>2 DEF Inv, WorkInv, Live
  <2>3. QED
    BY <2>1, <2>2 DEF TakesOn
<1>6. ConnectedIsOnline'
  BY DEF Inv, ConnectedIsOnline
<1>7. QED
  BY <1>3, <1>4, <1>5, <1>6 DEF Inv

\* A node whose connection expired, new events, and an event that is handled: the thread
\* takes something on.
LEMMA LookingSteps ==
    ASSUME Inv, NEW t \in Thread, Expire(t) \/ epoll_wait(t) \/ HandleEvent(t)
    PROVE  /\ TakesOn(t) /\ SocksStay
           /\ events' \in [Thread -> SUBSET [fd : Fd, hup : BOOLEAN]]
           /\ UNCHANGED <<left, retired, node, hash, key, pushing, online>>
<1>1. /\ link \in [Device -> 0..MaxFd] /\ sock \in [Fd -> SockType]
      /\ events \in [Thread -> SUBSET [fd : Fd, hup : BOOLEAN]]
  BY DEF Inv, Types, OutsideTypes, ServerTypes
<1>2. UNCHANGED <<left, retired, node, hash, key, pushing, online, link>>
  BY DEF Expire, epoll_wait, HandleEvent, ThreadsLeave, outside
<1>3. UNCHANGED sock => SocksStay
  BY <1>1, <1>2 DEF SocksStay
<1>4. CASE Expire(t)
  <2>1. UNCHANGED <<sock, events>> /\ \E n \in Of(t) : Go(t, "close", n)
    BY <1>4 DEF Expire
  <2>2. TakesOn(t)
    BY <1>4, <2>1 DEF TakesOn, Expire, AtTop
  <2>3. QED
    BY <1>1, <1>2, <1>3, <2>1, <2>2
<1>5. CASE epoll_wait(t)
  <2>1. UNCHANGED <<sock, pc, cur>>
    BY <1>5 DEF epoll_wait
  <2>2. PICK hup : events' = [events EXCEPT ![t] = {[fd |-> f, hup |-> f \in hup] : f \in Ready(t)}]
    BY <1>5 DEF epoll_wait
  <2>3. {[fd |-> f, hup |-> f \in hup] : f \in Ready(t)} \subseteq [fd : Fd, hup : BOOLEAN]
    <3>1. \A f \in Ready(t) : f \in Fd /\ (f \in hup) \in BOOLEAN
      BY DEF Ready
    <3>2. ASSUME NEW f \in Ready(t) PROVE [fd |-> f, hup |-> f \in hup] \in [fd : Fd, hup : BOOLEAN]
      BY <3>1, Zenon
    <3>3. QED
      BY <3>2
  <2>4. events' \in [Thread -> SUBSET [fd : Fd, hup : BOOLEAN]]
    BY <1>1, <2>2, <2>3
  <2>5. QED
    BY <1>2, <1>3, <2>1, <2>4 DEF TakesOn
<1>6. CASE HandleEvent(t)
  <2>1. PICK e \in events[t] :
          /\ events' = [events EXCEPT ![t] = @ \ {e}]
          /\ \/ UNCHANGED <<sock, pc, cur>>
             \/ \E n \in ByFd(t, e.fd) :
                   IF e.hup THEN Go(t, "close", n) /\ UNCHANGED sock ELSE Receive(t, n)
    BY <1>6 DEF HandleEvent
  <2>2. events' \in [Thread -> SUBSET [fd : Fd, hup : BOOLEAN]]
    <3>1. events[t] \subseteq [fd : Fd, hup : BOOLEAN]
      BY <1>1
    <3>2. events[t] \ {e} \in SUBSET [fd : Fd, hup : BOOLEAN]
      BY <3>1
    <3>3. QED
      BY <1>1, <2>1, <3>2
  <2>3. pc[t] = "idle"
    BY <1>6 DEF HandleEvent
  <2>4. ASSUME NEW n \in ByFd(t, e.fd),
               IF e.hup THEN Go(t, "close", n) /\ UNCHANGED sock ELSE Receive(t, n)
        PROVE  TakesOn(t) /\ SocksStay
    <3>1. n \in Of(t) /\ n \in Node /\ node[n].fd = e.fd /\ e.fd \in Fd
      BY <1>1 DEF ByFd, Of
    <3>2. e.fd # 0
      BY <3>1, BoundsAreNat DEF Fd
    <3>3. TakesOn(t)
      <4>1. ASSUME Go(t, "close", n) PROVE TakesOn(t)
        BY <2>3, <3>1, <4>1 DEF TakesOn
      <4>2. ASSUME Go(t, IF node[n].serial = None THEN "register" ELSE "update", n) PROVE TakesOn(t)
        <5>1. CASE node[n].serial = None
          BY <2>3, <3>1, <3>2, <4>2, <5>1 DEF TakesOn
        <5>2. CASE node[n].serial # None
          BY <2>3, <3>1, <4>2, <5>2 DEF TakesOn
        <5>3. QED
          BY <5>1, <5>2
      <4>3. QED
        BY <2>4, <4>1, <4>2 DEF Receive
    <3>4. SocksStay
      <4>1. ASSUME sock[e.fd].unread, sock' = [sock EXCEPT ![e.fd].unread = FALSE] PROVE SocksStay
        <5>1. sock[e.fd].dev \in Device /\ sock[e.fd].dev # None
          BY <3>1, <4>1, NoneIsNoDevice DEF Inv, SocksInv, NoSock
        <5>2. sock' \in [Fd -> SockType] /\ sock'[e.fd].dev = sock[e.fd].dev
          BY <1>1, <3>1, <4>1 DEF SockType
        <5>3. \A f \in Fd : f # e.fd => sock'[f] = sock[f]
          BY <1>1, <4>1
        <5>4. sock[e.fd] # NoSock /\ sock'[e.fd] # NoSock
          BY <5>1, <5>2 DEF NoSock
        <5>5. \A f \in Fd : (sock'[f] = NoSock <=> sock[f] = NoSock) /\ sock'[f].dev = sock[f].dev
          BY <5>2, <5>3, <5>4
        <5>6. QED
          BY <1>1, <1>2, <5>2, <5>5 DEF SocksStay
      <4>2. UNCHANGED sock \/ (sock[e.fd].unread /\ sock' = [sock EXCEPT ![e.fd].unread = FALSE])
        BY <2>4, <3>1 DEF Receive
      <4>3. QED
        BY <1>3, <4>1, <4>2
    <3>5. QED
      BY <3>3, <3>4
  <2>5. TakesOn(t) /\ SocksStay
    BY <1>3, <2>1, <2>4 DEF TakesOn
  <2>6. QED
    BY <1>2, <2>2, <2>5
<1>7. QED
  BY <1>4, <1>5, <1>6

-----------------------------------------------------------------------------
(* Nodes get their serial, and go.                                           *)

\* Descriptors that are closed are free, and known to no device.
LEMMA Closing ==
    ASSUME Inv, NEW fs, Close(fs)
    PROVE  /\ sock' \in [Fd -> SockType] /\ link' \in [Device -> 0..MaxFd] /\ SocksInv'
           /\ \A f \in Fd : sock'[f] = IF f \in fs THEN NoSock ELSE sock[f]
<1>1. link \in [Device -> 0..MaxFd] /\ sock \in [Fd -> SockType]
  BY DEF Inv, Types, OutsideTypes
<1>2. \A f \in Fd : sock'[f] = IF f \in fs THEN NoSock ELSE sock[f]
  BY DEF Close
<1>3. \A d \in Device : link'[d] = IF link[d] \in fs THEN 0 ELSE link[d]
  BY DEF Close
<1>4. sock' \in [Fd -> SockType]
  BY <1>1, Nothings DEF Close
<1>5. link' \in [Device -> 0..MaxFd]
  BY <1>1, BoundsAreNat DEF Close
<1>6. \A d \in Device : link[d] # 0 => link[d] \in Fd
  BY <1>1, BoundsAreNat DEF Fd
<1>7. SocksInv'
  BY <1>2, <1>3, <1>6 DEF Inv, SocksInv
<1>8. QED
  BY <1>2, <1>4, <1>5, <1>7

\* A device that registers takes the place of its older node in the hash, whose
\* descriptor is closed.
LEMMA RegisterInv ==
    ASSUME Inv, setup' = setup, NEW t \in Thread, handle_client_update_key(t)
    PROVE  Inv'
<1> DEFINE n == cur[t]
           d == sock[node[n].fd].dev
           fs == {node[m].fd : m \in ByKey(d)}
<1>1. /\ pc[t] = "register" /\ key = Free
      /\ hash' = (hash \ ByKey(d)) \union {n}
      /\ Close(fs)
      /\ node' = [m \in Node |-> IF m = n THEN [node[m] EXCEPT !.serial = d]
                                 ELSE IF m \in ByKey(d) THEN Replaced(m) ELSE node[m]]
      /\ Go(t, "update", n)
      /\ UNCHANGED <<left, retired, events, key, pushing, online>>
  BY DEF handle_client_update_key, EnterHash, ThreadsLeave, outside
<1>2. /\ node \in [Node -> NodeType] /\ hash \subseteq Node
      /\ pc \in [Thread -> {"idle", "register", "update", "close", "offline"}]
      /\ cur \in [Thread -> 0..MaxNode]
  BY DEF Inv, Types, ServerTypes
<1>3. n \in Node /\ Live(n) /\ node[n].thread = t /\ node[n].serial = None /\ node[n].fd # 0
  BY <1>1 DEF Inv, WorkInv
<1>4. \A m \in Node : node[m].fd # 0 => node[m].fd \in Fd
  BY <1>2, BoundsAreNat DEF Fd, NodeType
<1>5. d \in Device /\ d # None
  BY <1>3, <1>4, NoneIsNoDevice DEF Inv, NodesInv, SocksInv
<1>6. \A m \in ByKey(d) : m \in hash /\ m \in Node /\ m # n /\ Live(m) /\ node[m].serial = d
  BY <1>2, <1>3, <1>5 DEF ByKey, Inv, HashInv
<1> HIDE DEF n, d
<1>7. /\ \A m \in Node : m # n /\ m \notin ByKey(d) => node'[m] = node[m]
      /\ node'[n] = [node[n] EXCEPT !.serial = d]
      /\ \A m \in ByKey(d) : node'[m] = [node[m] EXCEPT !.fd = 0, !.no_update_db = TRUE]
  BY <1>1, <1>3, <1>6 DEF Replaced
<1>8. \A m \in Node : node[m] \in NodeType
  BY <1>2
<1>9. \A m \in ByKey(d) : /\ node'[m].fd = 0 /\ node'[m].no_update_db
                          /\ node'[m].serial = d /\ node'[m].thread = node[m].thread
                          /\ node'[m] \in NodeType
  <2>1. ASSUME NEW m \in ByKey(d)
        PROVE  /\ node'[m].fd = 0 /\ node'[m].no_update_db
               /\ node'[m].serial = node[m].serial /\ node'[m].thread = node[m].thread
               /\ node'[m] \in NodeType
    <3>1. 0 \in 0..MaxFd /\ node[m] \in NodeType
      BY <1>6, <1>8, BoundsAreNat
    <3>2. node'[m] = [node[m] EXCEPT !.fd = 0, !.no_update_db = TRUE]
      BY <1>7
    <3>3. QED
      BY <3>1, <3>2 DEF NodeType
  <2>2. QED
    BY <1>6, <2>1
<1>10. /\ node'[n].fd = node[n].fd /\ node'[n].serial = d /\ node'[n].thread = t
       /\ node'[n].add_online_log = node[n].add_online_log /\ node'[n] \in NodeType
       /\ node'[n].no_update_db = node[n].no_update_db
  BY <1>3, <1>5, <1>7, <1>8 DEF NodeType
<1>11. \A m \in Node : Live(m) <=> Live(m)'
  <2>1. \A m \in ByKey(d) : node'[m] # NoNode /\ Live(m)
    BY <1>5, <1>6, <1>9 DEF NoNode
  <2>2. node'[n] # NoNode
    BY <1>5, <1>10 DEF NoNode
  <2>3. QED
    BY <1>3, <1>7, <2>1, <2>2 DEF Live
<1>12. /\ sock' \in [Fd -> SockType] /\ link' \in [Device -> 0..MaxFd] /\ SocksInv'
       /\ \A f \in Fd : sock'[f] = IF f \in fs THEN NoSock ELSE sock[f]
  BY <1>1, Closing
<1>13. \A m \in Node : Live(m) /\ node[m].fd # 0 /\ m \notin ByKey(d) => node[m].fd \notin fs
  BY <1>6 DEF Inv, NodesInv
<1>14. Types'
  <2>1. node' \in [Node -> NodeType]
    <3>1. \A m \in Node : node'[m] \in NodeType
      BY <1>7, <1>8, <1>9, <1>10
    <3>2. QED
      BY <1>1, <3>1
  <2>2. hash' \subseteq Node
    BY <1>1, <1>2, <1>3
  <2>3. /\ pc' \in [Thread -> {"idle", "register", "update", "close", "offline"}]
        /\ cur' \in [Thread -> 0..MaxNode]
    <3>1. n \in 0..MaxNode
      BY <1>3, BoundsAreNat DEF Node
    <3>2. QED
      BY <1>1, <1>2, <3>1 DEF Go
  <2>4. QED
    BY <1>1, <1>12, <2>1, <2>2, <2>3 DEF Inv, Types, OutsideTypes, ServerTypes
<1>15. NodesInv'
  <2>1. \A m \in Node : Live(m)' /\ node'[m].fd # 0 =>
          m \notin ByKey(d) /\ Live(m) /\ node'[m].fd = node[m].fd /\ node'[m].thread = node[m].thread
    BY <1>3, <1>7, <1>9, <1>10, <1>11
  <2>2. \A m \in Node : Live(m)' /\ node'[m].fd # 0 => sock'[node'[m].fd] = sock[node[m].fd]
    BY <1>4, <1>12, <1>13, <2>1
  <2>3. ASSUME NEW f \in Fd, sock'[f] # NoSock PROVE \E m \in Node : Live(m)' /\ node'[m].fd = f
    <3>1. f \notin fs /\ sock[f] # NoSock
      BY <1>12, <2>3
    <3>2. PICK m \in Node : Live(m) /\ node[m].fd = f
      BY <3>1 DEF Inv, NodesInv
    <3>3. m \notin ByKey(d)
      BY <3>1, <3>2
    <3>4. QED
      BY <1>7, <1>10, <1>11, <3>2, <3>3
  <2>4. /\ \A m \in Node : Live(m)' /\ node'[m].fd # 0 =>
             sock'[node'[m].fd] # NoSock /\ node'[m].thread = Owner(node'[m].fd)
        /\ \A l, m \in Node : Live(l)' /\ Live(m)' /\ node'[l].fd = node'[m].fd /\ node'[m].fd # 0 => l = m
    BY <2>1, <2>2 DEF Inv, NodesInv
  <2>5. QED
    BY <2>3, <2>4 DEF NodesInv, Live
<1>16. HashInv'
  <2>1. \A m \in hash' : m = n \/ (m \in hash /\ m \in Node /\ m \notin ByKey(d) /\ m # n /\ node'[m] = node[m])
    BY <1>1, <1>2, <1>3, <1>7 DEF Inv, HashInv
  <2>2. \A m \in hash' : m # n => node[m].serial # d
    BY <2>1 DEF ByKey
  <2>3. \A m \in hash' : Live(m)' /\ node'[m].serial # None
    BY <1>3, <1>5, <1>10, <1>11, <2>1 DEF Inv, HashInv
  <2>4. \A l, m \in hash' : node'[l].serial = node'[m].serial => l = m
    BY <1>10, <2>1, <2>2 DEF Inv, HashInv
  <2>5. ASSUME NEW m \in Node, Live(m)', node'[m].serial # None
        PROVE  /\ node'[m].fd # 0 => node'[m].serial = sock'[node'[m].fd].dev /\ m \in hash'
               /\ ~node'[m].no_update_db => m \in hash'
    <3>1. CASE m = n
      <4>1. node[n].fd \in Fd /\ node[n].fd \notin fs
        BY <1>3, <1>4, <1>6, <1>13
      <4>2. sock'[node[n].fd].dev = d
        BY <1>12, <4>1 DEF d
      <4>3. QED
        BY <1>1, <1>10, <3>1, <4>2
    <3>2. CASE m \in ByKey(d)
      BY <1>9, <3>2
    <3>3. CASE m # n /\ m \notin ByKey(d)
      <4>1. node'[m] = node[m] /\ Live(m)
        BY <1>7, <1>11, <2>5, <3>3
      <4>2. node[m].fd # 0 => sock'[node[m].fd] = sock[node[m].fd]
        BY <1>4, <1>12, <1>13, <3>3, <4>1
      <4>3. m \in hash => m \in hash'
        BY <1>1, <3>3
      <4>4. QED
        BY <2>5, <4>1, <4>2, <4>3 DEF Inv, HashInv
    <3>4. QED
      BY <3>1, <3>2, <3>3
  <2>6. \A m \in Node : Live(m)' /\ node'[m].serial = None => node'[m].add_online_log
    BY <1>5, <1>7, <1>9, <1>10, <1>11 DEF Inv, HashInv
  <2>7. QED
    BY <2>3, <2>4, <2>5, <2>6 DEF HashInv, Live
<1>17. WorkInv'
  <2>1. pc'[t] = "update" /\ cur'[t] = n /\ \A u \in Thread : u # t => pc'[u] = pc[u] /\ cur'[u] = cur[u]
    BY <1>1, <1>2 DEF Go
  <2>2. ASSUME NEW u \in Thread, u # t
        PROVE  /\ pc[u] # "idle" => cur[u] \in Node /\ Live(cur[u]) /\ node[cur[u]].thread = u /\ cur[u] # n
               /\ pc[u] = "register" => node[cur[u]].serial = None /\ node[cur[u]].fd # 0
               /\ pc[u] = "update" => node[cur[u]].serial # None
               /\ pc[u] # "offline"
    <3>1. key # u
      BY <1>1, Nothings
    <3>2. /\ pc[u] # "idle" => cur[u] \in Node /\ Live(cur[u]) /\ node[cur[u]].thread = u
          /\ pc[u] = "register" => node[cur[u]].serial = None /\ node[cur[u]].fd # 0
          /\ pc[u] = "update" => node[cur[u]].serial # None
          /\ pc[u] = "offline" => key = u
      BY DEF Inv, WorkInv
    <3>3. node[cur[u]].thread = u => cur[u] # n
      BY <1>3, <2>2
    <3>4. QED
      BY <3>1, <3>2, <3>3
  <2>3. ASSUME NEW u \in Thread, u # t
        PROVE  /\ pc[u] # "idle" => Live(cur[u])' /\ node'[cur[u]].thread = u
               /\ pc[u] = "register" => node'[cur[u]].serial = None /\ node'[cur[u]].fd # 0
               /\ pc[u] = "update" => node'[cur[u]].serial # None
    <3>1. CASE cur[u] \in ByKey(d)
      BY <1>5, <1>6, <1>9, <1>11, <2>1, <2>2, <2>3, <3>1 DEF Live
    <3>2. CASE cur[u] \notin ByKey(d)
      <4>1. cur'[u] = cur[u]
        BY <2>1, <2>3
      <4>2. CASE pc[u] # "idle"
        <5>1. cur[u] \in Node /\ cur[u] # n
          BY <2>2, <2>3, <4>2
        <5>2. node'[cur[u]] = node[cur[u]]
          BY <1>7, <3>2, <5>1
        <5>3. QED
          BY <2>2, <2>3, <4>1, <4>2, <5>2 DEF Live
      <4>3. QED
        BY <4>2
    <3>3. QED
      BY <3>1, <3>2
  <2>4. QED
    BY <1>3, <1>5, <1>10, <1>11, <2>1, <2>2, <2>3 DEF WorkInv, Live
<1>18. ConnectedIsOnline'
  <2>1. \A m \in hash' : m = n \/ (m \in hash /\ node'[m] = node[m])
    BY <1>1, <1>2, <1>7
  <2>2. node'[n].add_online_log
    BY <1>3, <1>10 DEF Inv, HashInv
  <2>3. QED
    BY <1>1, <2>1, <2>2 DEF Inv, ConnectedIsOnline
<1>19. QED
  BY <1>12, <1>14, <1>15, <1>16, <1>17, <1>18 DEF Inv

\* The descriptor of node n is closed, or was before.
SockGone(n) ==
    /\ sock' \in [Fd -> SockType] /\ link' \in [Device -> 0..MaxFd] /\ SocksInv'
    /\ \A f \in Fd : sock'[f] = IF f = node[n].fd THEN NoSock ELSE sock[f]

\* A thread frees the node it works on while no other thread puts a device offline.
LEMMA UnlinkInv ==
    ASSUME Inv, setup' = setup, NEW t \in Thread, pc[t] # "idle", SockGone(cur[t]), Unlink(cur[t]),
           Go(t, "idle", 0), \A u \in Thread : u # t => pc[u] # "offline",
           key' \in Thread \union {Free}, online' \in [Device -> BOOLEAN],
           UNCHANGED <<left, retired, events, pushing>>
    PROVE  Types' /\ SocksInv' /\ NodesInv' /\ HashInv' /\ WorkInv'
<1> DEFINE n == cur[t]
<1>1. /\ node \in [Node -> NodeType] /\ hash \subseteq Node
      /\ pc \in [Thread -> {"idle", "register", "update", "close", "offline"}]
      /\ cur \in [Thread -> 0..MaxNode]
  BY DEF Inv, Types, ServerTypes
<1>2. n \in Node /\ Live(n) /\ node[n].thread = t
  BY DEF Inv, WorkInv
<1>3. hash' = hash \ {n} /\ node' = [node EXCEPT ![n] = NoNode]
  BY DEF Unlink
<1>4. \A m \in Node : node'[m] = IF m = n THEN NoNode ELSE node[m]
  BY <1>1, <1>3
<1>5. \A m \in Node : Live(m)' <=> Live(m) /\ m # n
  BY <1>4 DEF Live
<1>6. \A m \in Node : node[m].fd # 0 => node[m].fd \in Fd
  BY <1>1, BoundsAreNat DEF Fd, NodeType
<1>7. \A f \in Fd : sock'[f] = IF f = node[n].fd THEN NoSock ELSE sock[f]
  BY DEF SockGone
<1>8. \A m \in Node : Live(m)' /\ node[m].fd # 0 => sock'[node[m].fd] = sock[node[m].fd]
  BY <1>2, <1>5, <1>6, <1>7 DEF Inv, NodesInv
<1>9. pc'[t] = "idle" /\ \A u \in Thread : u # t => pc'[u] = pc[u] /\ cur'[u] = cur[u]
  BY <1>1 DEF Go
<1>10. Types'
  <2>1. node' \in [Node -> NodeType] /\ hash' \subseteq Node
    BY <1>1, <1>3, Nothings
  <2>2. /\ pc' \in [Thread -> {"idle", "register", "update", "close", "offline"}]
        /\ cur' \in [Thread -> 0..MaxNode]
    BY <1>1, BoundsAreNat DEF Go
  <2>3. QED
    BY <2>1, <2>2 DEF Inv, Types, OutsideTypes, ServerTypes, SockGone
<1> HIDE DEF n
<1>11. NodesInv'
  <2>1. /\ \A m \in Node : Live(m)' /\ node'[m].fd # 0 =>
             sock'[node'[m].fd] # NoSock /\ node'[m].thread = Owner(node'[m].fd)
        /\ \A l, m \in Node : Live(l)' /\ Live(m)' /\ node'[l].fd = node'[m].fd /\ node'[m].fd # 0 => l = m
    BY <1>4, <1>5, <1>8 DEF Inv, NodesInv
  <2>2. ASSUME NEW f \in Fd, sock'[f] # NoSock PROVE \E m \in Node : Live(m)' /\ node'[m].fd = f
    <3>1. f # node[n].fd /\ sock[f] # NoSock
      BY <1>7, <2>2
    <3>2. PICK m \in Node : Live(m) /\ node[m].fd = f
      BY <3>1 DEF Inv, NodesInv
    <3>3. QED
      BY <1>4, <1>5, <3>1, <3>2
  <2>3. QED
    BY <2>1, <2>2 DEF NodesInv, Live
<1>12. HashInv'
  <2>1. \A m \in hash' : m \in hash /\ m \in Node /\ m # n /\ node'[m] = node[m]
    BY <1>1, <1>3, <1>4
  <2>2. /\ \A m \in hash' : Live(m)' /\ node'[m].serial # None
        /\ \A l, m \in hash' : node'[l].serial = node'[m].serial => l = m
    BY <1>5, <2>1 DEF Inv, HashInv
  <2>3. \A m \in Node : Live(m)' /\ node'[m].serial # None =>
          /\ node'[m].fd # 0 => node'[m].serial = sock'[node'[m].fd].dev /\ m \in hash'
          /\ ~node'[m].no_update_db => m \in hash'
    BY <1>3, <1>4, <1>5, <1>8 DEF Inv, HashInv
  <2>4. \A m \in Node : Live(m)' /\ node'[m].serial = None => node'[m].add_online_log
    BY <1>4, <1>5 DEF Inv, HashInv
  <2>5. QED
    BY <2>2, <2>3, <2>4 DEF HashInv, Live
<1>13. WorkInv'
  <2>1. ASSUME NEW u \in Thread, u # t, pc[u] # "idle"
        PROVE  node'[cur[u]] = node[cur[u]] /\ cur[u] \in Node /\ Live(cur[u]) /\ node[cur[u]].thread = u
    BY <1>2, <1>4, <2>1 DEF Inv, WorkInv
  <2>2. QED
    BY <1>9, <2>1 DEF Inv, WorkInv, Live
<1>14. QED
  BY <1>10, <1>11, <1>12, <1>13 DEF SockGone

\* A thread that holds the key mutex is the only one that puts a device offline, and
\* nobody does when it is free.
LEMMA OneOffline ==
    ASSUME Inv, NEW t \in Thread, key = t \/ key = Free
    PROVE  \A u \in Thread : u # t => pc[u] # "offline"
BY Nothings DEF Inv, WorkInv

\* The thread that deletes a node closes its descriptor, and frees it at once or keeps
\* it for the database.
LEMMA DeleteInv ==
    ASSUME Inv, setup' = setup, NEW t \in Thread, _cnm_client_del(t)
    PROVE  Inv'
<1> DEFINE n == cur[t]
<1>1. /\ pc[t] = "close" /\ key = Free /\ Close({node[n].fd})
      /\ UNCHANGED <<left, retired, events, online, pushing>>
  BY DEF _cnm_client_del, ThreadsLeave, outside
<1>2. /\ node \in [Node -> NodeType] /\ hash \subseteq Node
      /\ pc \in [Thread -> {"idle", "register", "update", "close", "offline"}]
      /\ cur \in [Thread -> 0..MaxNode] /\ online \in [Device -> BOOLEAN]
  BY DEF Inv, Types, ServerTypes, OutsideTypes
<1>3. n \in Node /\ Live(n) /\ node[n].thread = t
  BY <1>1 DEF Inv, WorkInv
<1>4. SockGone(n)
  BY <1>1, Closing DEF SockGone
<1>5. \A u \in Thread : u # t => pc[u] # "offline"
  BY <1>1, OneOffline
<1>6. CASE ~node[n].no_update_db /\ node[n].serial # None
  <2>1. node' = [node EXCEPT ![n].fd = 0] /\ key' = t /\ Go(t, "offline", n) /\ hash' = hash
    BY <1>6 DEF _cnm_client_del
  <2>2. /\ \A m \in Node : m # n => node'[m] = node[m]
        /\ node'[n] \in NodeType /\ node'[n].fd = 0 /\ node'[n].serial = node[n].serial
        /\ node'[n].thread = t /\ node'[n].no_update_db = node[n].no_update_db
        /\ node'[n].add_online_log = node[n].add_online_log
    <3>1. 0 \in 0..MaxFd /\ node[n] \in NodeType
      BY <1>2, <1>3, BoundsAreNat
    <3>2. node'[n] = [node[n] EXCEPT !.fd = 0] /\ \A m \in Node : m # n => node'[m] = node[m]
      BY <1>2, <1>3, <2>1
    <3>3. ASSUME NEW r \in NodeType
          PROVE  LET c == [r EXCEPT !.fd = 0] IN
                 /\ c \in NodeType /\ c.fd = 0 /\ c.serial = r.serial /\ c.thread = r.thread
                 /\ c.no_update_db = r.no_update_db /\ c.add_online_log = r.add_online_log
      BY <3>1, <3>3 DEF NodeType
    <3> HIDE DEF n
    <3>4. QED
      BY <1>3, <3>1, <3>2, <3>3
  <2>3. \A m \in Node : Live(m)' <=> Live(m)
    BY <1>3, <1>6, <2>2 DEF Live, NoNode
  <2>4. n \in hash
    BY <1>3, <1>6 DEF Inv, HashInv
  <2>5. \A m \in Node : node[m].fd # 0 => node[m].fd \in Fd
    BY <1>2, BoundsAreNat DEF Fd, NodeType
  <2>6. \A f \in Fd : sock'[f] = IF f = node[n].fd THEN NoSock ELSE sock[f]
    BY <1>4 DEF SockGone
  <2>7. /\ pc'[t] = "offline" /\ cur'[t] = n
        /\ \A u \in Thread : u # t => pc'[u] = pc[u] /\ cur'[u] = cur[u]
    BY <1>2, <2>1 DEF Go
  <2>8. Types'
    <3>1. node' \in [Node -> NodeType]
      BY <1>2, <2>1, <2>2
    <3>2. n \in 0..MaxNode
      BY <1>2
    <3>3. /\ pc' \in [Thread -> {"idle", "register", "update", "close", "offline"}]
          /\ cur' \in [Thread -> 0..MaxNode]
      BY <1>2, <2>1, <3>2 DEF Go
    <3>4. QED
      BY <1>1, <1>4, <2>1, <3>1, <3>3 DEF Inv, Types, OutsideTypes, ServerTypes, SockGone
  <2> HIDE DEF n
  <2>9. \A m \in Node : Live(m) /\ m # n /\ node[m].fd # 0 => sock'[node[m].fd] = sock[node[m].fd]
    BY <1>3, <2>5, <2>6 DEF Inv, NodesInv
  <2>10. NodesInv'
    <3>1. /\ \A m \in Node : Live(m)' /\ node'[m].fd # 0 =>
               sock'[node'[m].fd] # NoSock /\ node'[m].thread = Owner(node'[m].fd)
          /\ \A l, m \in Node : Live(l)' /\ Live(m)' /\ node'[l].fd = node'[m].fd /\ node'[m].fd # 0 => l = m
      BY <2>2, <2>3, <2>9 DEF Inv, NodesInv
    <3>2. ASSUME NEW f \in Fd, sock'[f] # NoSock PROVE \E m \in Node : Live(m)' /\ node'[m].fd = f
      <4>1. f # node[n].fd /\ sock[f] # NoSock
        BY <2>6, <3>2
      <4>2. PICK m \in Node : Live(m) /\ node[m].fd = f
        BY <4>1 DEF Inv, NodesInv
      <4>3. QED
        BY <2>2, <2>3, <4>1, <4>2
    <3>3. QED
      BY <3>1, <3>2 DEF NodesInv, Live
  <2>11. HashInv'
    <3>1. \A m \in Node : node'[m].serial = node[m].serial /\ node'[m].no_update_db = node[m].no_update_db
                          /\ node'[m].add_online_log = node[m].add_online_log
      BY <2>2
    <3>2. /\ \A m \in hash : Live(m)' /\ node'[m].serial # None
          /\ \A l, m \in hash : node'[l].serial = node'[m].serial => l = m
      BY <1>2, <2>3, <3>1 DEF Inv, HashInv
    <3>3. \A m \in Node : Live(m)' /\ node'[m].serial # None =>
            /\ node'[m].fd # 0 => node'[m].serial = sock'[node'[m].fd].dev /\ m \in hash
            /\ ~node'[m].no_update_db => m \in hash
      BY <2>2, <2>3, <2>9, <3>1 DEF Inv, HashInv
    <3>4. \A m \in Node : Live(m)' /\ node'[m].serial = None => node'[m].add_online_log
      BY <2>3, <3>1 DEF Inv, HashInv
    <3>5. QED
      BY <2>1, <3>2, <3>3, <3>4 DEF HashInv, Live
  <2>12. WorkInv'
    <3>1. ASSUME NEW u \in Thread, u # t, pc[u] # "idle"
          PROVE  node'[cur[u]] = node[cur[u]] /\ cur[u] \in Node /\ Live(cur[u]) /\ node[cur[u]].thread = u
      BY <1>3, <2>2, <3>1 DEF Inv, WorkInv
    <3>2. QED
      BY <1>3, <1>5, <2>1, <2>2, <2>3, <2>4, <2>7, <3>1 DEF Inv, WorkInv, Live
  <2>13. ConnectedIsOnline'
    BY <1>1, <1>2, <2>1, <2>2 DEF Inv, ConnectedIsOnline
  <2>14. QED
    BY <1>4, <2>8, <2>10, <2>11, <2>12, <2>13 DEF Inv, SockGone
<1>7. CASE ~(~node[n].no_update_db /\ node[n].serial # None)
  <2>1. Unlink(n) /\ Go(t, "idle", 0) /\ key' = key
    BY <1>7 DEF _cnm_client_del
  <2>2. key' \in Thread \union {Free} /\ online' \in [Device -> BOOLEAN]
    BY <1>1, <1>2, <2>1
  <2>3. Types' /\ SocksInv' /\ NodesInv' /\ HashInv' /\ WorkInv'
    BY <1>1, <1>4, <1>5, <2>1, <2>2, UnlinkInv
  <2>4. \A m \in hash' : m \in hash /\ node'[m] = node[m]
    BY <1>2, <2>1 DEF Unlink
  <2>5. ConnectedIsOnline'
    BY <1>1, <2>4 DEF Inv, ConnectedIsOnline
  <2>6. QED
    BY <2>3, <2>5 DEF Inv
<1>8. QED
  BY <1>6, <1>7

\* The device that is put offline has no other node that is found by its serial.
LEMMA OfflineInv ==
    ASSUME Inv, setup' = setup, NEW t \in Thread, SetDeviceOffline(t)
    PROVE  Inv'
<1> DEFINE n == cur[t]
<1>1. /\ pc[t] = "offline" /\ Unlink(n) /\ key' = Free /\ Go(t, "idle", 0)
      /\ UNCHANGED <<left, retired, events, pushing, link, sock>>
      /\ (online' = [online EXCEPT ![node[n].serial] = FALSE] \/ online' = online)
  BY DEF SetDeviceOffline, ThreadsLeave, outside
<1>2. /\ node \in [Node -> NodeType] /\ hash \subseteq Node /\ online \in [Device -> BOOLEAN]
      /\ sock \in [Fd -> SockType] /\ link \in [Device -> 0..MaxFd]
  BY DEF Inv, Types, ServerTypes, OutsideTypes
<1>3. n \in hash /\ n \in Node /\ node[n].fd = 0 /\ key = t
  BY <1>1 DEF Inv, WorkInv
<1>4. SockGone(n)
  <2>1. 0 \notin Fd
    BY BoundsAreNat DEF Fd
  <2>2. SocksInv'
    BY <1>1 DEF Inv, SocksInv
  <2>3. QED
    BY <1>1, <1>2, <1>3, <2>1, <2>2 DEF SockGone
<1>5. \A u \in Thread : u # t => pc[u] # "offline"
  BY <1>3, OneOffline
<1>6. online' \in [Device -> BOOLEAN]
  BY <1>1, <1>2
<1>7. Types' /\ SocksInv' /\ NodesInv' /\ HashInv' /\ WorkInv'
  BY <1>1, <1>4, <1>5, <1>6, UnlinkInv
<1>8. \A m \in hash' : m \in hash /\ node'[m] = node[m] /\ node[m].serial # node[n].serial
  BY <1>1, <1>2, <1>3 DEF Unlink, Inv, HashInv
<1>9. \A m \in hash' : online'[node[m].serial] = online[node[m].serial]
  <2>1. \A m \in hash' : node[m].serial \in Device
    BY <1>2, <1>8 DEF Inv, HashInv, NodeType
  <2>2. QED
    BY <1>1, <1>2, <1>8, <2>1
<1>10. ConnectedIsOnline'
  BY <1>8, <1>9 DEF Inv, ConnectedIsOnline
<1>11. QED
  BY <1>7, <1>10 DEF Inv

\* A heartbeat is recorded.
LEMMA UpdateInv ==
    ASSUME Inv, setup' = setup, NEW t \in Thread, UpdateDevice(t)
    PROVE  Inv'
<1> DEFINE n == cur[t]
<1>1. /\ pc[t] = "update" /\ Go(t, "idle", 0)
      /\ \/ /\ online' = [online EXCEPT ![node[n].serial] = TRUE]
            /\ node' = [node EXCEPT ![n].add_online_log = FALSE]
         \/ UNCHANGED <<online, node>>
      /\ UNCHANGED <<left, retired, link, sock, hash, events, key, pushing>>
  BY DEF UpdateDevice, Recorded, ThreadsLeave, outside
<1>2. /\ node \in [Node -> NodeType] /\ hash \subseteq Node /\ online \in [Device -> BOOLEAN]
      /\ pc \in [Thread -> {"idle", "register", "update", "close", "offline"}]
      /\ cur \in [Thread -> 0..MaxNode]
  BY DEF Inv, Types, ServerTypes, OutsideTypes
<1>3. n \in Node /\ Live(n) /\ node[n].serial # None
  BY <1>1 DEF Inv, WorkInv
<1>4. /\ node' \in [Node -> NodeType] /\ online' \in [Device -> BOOLEAN]
      /\ \A m \in Node : /\ node'[m].fd = node[m].fd /\ node'[m].serial = node[m].serial
                         /\ node'[m].thread = node[m].thread /\ node'[m].no_update_db = node[m].no_update_db
                         /\ (m # n => node'[m] = node[m])
  <2>1. online' \in [Device -> BOOLEAN]
    BY <1>1, <1>2
  <2>2. node' \in [Node -> NodeType]
        /\ \A m \in Node : node'[m] = node[m] \/ (m = n /\ node'[m] = [node[m] EXCEPT !.add_online_log = FALSE])
    <3>1. CASE UNCHANGED node
      BY <1>2, <3>1
    <3>2. CASE node' = [node EXCEPT ![n].add_online_log = FALSE]
      <4>1. /\ node'[n] = [node[n] EXCEPT !.add_online_log = FALSE] /\ node[n] \in NodeType
            /\ \A m \in Node : m # n => node'[m] = node[m]
        BY <1>2, <1>3, <3>2
      <4>2. node'[n] \in NodeType
        BY <4>1 DEF NodeType
      <4>3. QED
        BY <1>2, <1>3, <3>2, <4>1, <4>2
    <3>3. QED
      BY <1>1, <3>1, <3>2
  <2>3. \A m \in Node : node[m] \in NodeType
    BY <1>2
  <2> HIDE DEF n
  <2>4. ASSUME NEW m \in Node
        PROVE  /\ node'[m].fd = node[m].fd /\ node'[m].serial = node[m].serial
               /\ node'[m].thread = node[m].thread /\ node'[m].no_update_db = node[m].no_update_db
    BY <2>2, <2>3, <2>4 DEF NodeType
  <2>5. QED
    BY <2>1, <2>2, <2>4
<1>5. \A m \in Node : Live(m)' <=> Live(m)
  <2> HIDE DEF n
  <2>1. node'[n] # NoNode
    BY <1>3, <1>4 DEF NoNode
  <2>2. QED
    BY <1>3, <1>4, <2>1 DEF Live
<1>6. /\ pc'[t] = "idle" /\ \A u \in Thread : u # t => pc'[u] = pc[u] /\ cur'[u] = cur[u]
      /\ pc' \in [Thread -> {"idle", "register", "update", "close", "offline"}]
      /\ cur' \in [Thread -> 0..MaxNode]
  BY <1>1, <1>2, BoundsAreNat DEF Go
<1>7. Types'
  BY <1>1, <1>4, <1>6 DEF Inv, Types, OutsideTypes, ServerTypes
<1> HIDE DEF n
<1>8. SocksInv' /\ NodesInv'
  BY <1>1, <1>4, <1>5 DEF Inv, SocksInv, NodesInv, Live
<1>9. HashInv'
  <2>1. /\ \A m \in hash : Live(m)' /\ node'[m].serial # None
        /\ \A l, m \in hash : node'[l].serial = node'[m].serial => l = m
    BY <1>2, <1>4, <1>5 DEF Inv, HashInv
  <2>2. \A m \in Node : Live(m)' /\ node'[m].serial # None =>
          /\ node'[m].fd # 0 => node'[m].serial = sock[node'[m].fd].dev /\ m \in hash
          /\ ~node'[m].no_update_db => m \in hash
    BY <1>4, <1>5 DEF Inv, HashInv
  <2>3. \A m \in Node : Live(m)' /\ node'[m].serial = None => node'[m].add_online_log
    BY <1>3, <1>4, <1>5 DEF Inv, HashInv
  <2>4. QED
    BY <1>1, <2>1, <2>2, <2>3 DEF HashInv, Live
<1>10. WorkInv'
  <2>1. ASSUME NEW u \in Thread, pc[u] # "idle"
        PROVE  cur[u] \in Node /\ Live(cur[u])
    BY <2>1 DEF Inv, WorkInv
  <2>2. QED
    BY <1>1, <1>4, <1>5, <1>6, <2>1 DEF Inv, WorkInv, Live
<1>11. ConnectedIsOnline'
  <2>1. \A m \in Node : node[m].serial # None => node[m].serial \in Device
    BY <1>2 DEF NodeType
  <2>2. \A m \in hash : node[m].serial \in Device
    BY <1>2, <2>1 DEF Inv, HashInv
  <2>3. CASE UNCHANGED <<online, node>>
    BY <1>1, <2>3 DEF Inv, ConnectedIsOnline
  <2>4. CASE online' = [online EXCEPT ![node[n].serial] = TRUE]
    <3>1. \A d \in Device : online[d] \/ d = node[n].serial => online'[d]
      BY <1>2, <2>4
    <3>2. QED
      BY <1>1, <1>2, <1>4, <2>2, <3>1 DEF Inv, ConnectedIsOnline
  <2>5. QED
    BY <1>1, <2>3, <2>4 DEF n
<1>12. QED
  BY <1>7, <1>8, <1>9, <1>10, <1>11 DEF Inv

-----------------------------------------------------------------------------
(* Every step, and what follows.                                             *)

\* The process starts again as it started at first.
LEMMA RestartInv ==
    ASSUME Inv, setup' = setup, Restart
    PROVE  Inv'
<1>1. left' \in Nat /\ retired' \subseteq Device
  BY DEF Restart, Inv, Types, OutsideTypes
<1>2. 0 \in 0..MaxFd /\ 0 \in 0..MaxNode
  BY BoundsAreNat
<1>3. /\ link' \in [Device -> 0..MaxFd] /\ sock' \in [Fd -> SockType]
      /\ node' \in [Node -> NodeType] /\ hash' \subseteq Node
  BY <1>2, Nothings DEF Restart
<1>4. /\ pc' \in [Thread -> {"idle", "register", "update", "close", "offline"}]
      /\ cur' \in [Thread -> 0..MaxNode]
      /\ events' \in [Thread -> SUBSET [fd : Fd, hup : BOOLEAN]]
      /\ key' \in Thread \union {Free} /\ online' \in [Device -> BOOLEAN] /\ pushing' \in BOOLEAN
  BY <1>2 DEF Restart
<1>5. Types'
  BY <1>1, <1>3, <1>4 DEF Inv, Types, OutsideTypes, ServerTypes
<1>6. SocksInv' /\ NodesInv' /\ HashInv' /\ WorkInv' /\ ConnectedIsOnline'
  BY DEF Restart, SocksInv, NodesInv, HashInv, WorkInv, ConnectedIsOnline, Live
<1>7. QED
  BY <1>5, <1>6 DEF Inv

\* A step of the specification keeps the invariant.
LEMMA StepInv == Inv /\ [Next /\ UNCHANGED setup]_<<vars, setup>> => Inv'
<1>1. SUFFICES ASSUME Inv, [Next /\ UNCHANGED setup]_<<vars, setup>>
               PROVE  Inv'
  OBVIOUS
<1>2. setup' = setup
  BY <1>1
<1>3. CASE Devices
  BY <1>1, <1>2, <1>3, ConnectInv, DeviceInv DEF Devices
<1>4. ASSUME NEW t \in Thread, data_handle_thread(t) PROVE Inv'
  <2>1. CASE Expire(t) \/ epoll_wait(t) \/ HandleEvent(t)
    <3>1. /\ TakesOn(t) /\ SocksStay
          /\ events' \in [Thread -> SUBSET [fd : Fd, hup : BOOLEAN]]
          /\ UNCHANGED <<left, retired, node, hash, key, pushing, online>>
      BY <1>1, <2>1, LookingSteps
    <3>2. QED
      BY <1>1, <1>2, <3>1, TakesOnInv
  <2>2. QED
    BY <1>1, <1>2, <1>4, <2>1, RegisterInv, UpdateInv, DeleteInv, OfflineInv DEF data_handle_thread
<1>5. CASE CfgUpdateTimer \/ cnm_client_update_seq
  <2>1. pushing' \in BOOLEAN /\ UNCHANGED <<left, retired, link, sock, node, hash, pc, cur, events, key, online>>
    BY <1>5 DEF CfgUpdateTimer, cnm_client_update_seq, PushersLeave, outside, threads
  <2>2. Types'
    BY <1>1, <1>2, <2>1 DEF Inv, Types, OutsideTypes, ServerTypes
  <2>3. QED
    BY <1>1, <2>1, <2>2 DEF Inv, SocksInv, NodesInv, HashInv, WorkInv, ConnectedIsOnline, Live
<1>6. CASE UNCHANGED <<vars, setup>>
  <2>1. UNCHANGED <<left, retired, link, sock, node, hash, pc, cur, events, key, online, pushing>>
    BY <1>6 DEF vars, outside, threads
  <2>2. Types'
    BY <1>1, <1>2, <2>1 DEF Inv, Types, OutsideTypes, ServerTypes
  <2>3. QED
    BY <1>1, <2>1, <2>2 DEF Inv, SocksInv, NodesInv, HashInv, WorkInv, ConnectedIsOnline, Live
<1>7. QED
  BY <1>1, <1>2, <1>3, <1>4, <1>5, <1>6, RestartInv DEF Next

\* The invariant holds in every state.
LEMMA InvHolds == Spec => []Inv
BY InitInv, StepInv, PTL DEF Spec

\* Every variable keeps its shape, for any devices, threads and bounds.
THEOREM TypeCorrect == Spec => []TypeOK
<1>1. Inv => TypeOK
  BY TypeParts DEF Inv, Types
<1>2. QED
  BY <1>1, InvHolds, PTL

\* No thread works on a node that was freed, and the hash finds none, however the
\* deletions of the threads and the registrations that close each other's nodes mix.
THEOREM NothingDanglesHolds == Spec => []NothingDangles
<1>1. Inv => NothingDangles
  BY DEF Inv, WorkInv, HashInv, NothingDangles, Of
<1>2. QED
  BY <1>1, InvHolds, PTL

\* A serial has one node and an open descriptor too, and they belong to one device,
\* also after descriptors were reused.
THEOREM HashesAgreeHolds == Spec => []HashesAgree
<1>1. ASSUME Inv PROVE HashesAgree
  <2>1. ASSUME NEW f \in Fd, sock[f] # NoSock PROVE Cardinality(ByFd(Owner(f), f)) = 1
    <3>1. PICK n \in Node : Live(n) /\ node[n].fd = f
      BY <1>1, <2>1 DEF Inv, NodesInv
    <3>2. f # 0
      BY BoundsAreNat DEF Fd
    <3>3. n \in ByFd(Owner(f), f)
      BY <1>1, <3>1, <3>2 DEF ByFd, Of, Inv, NodesInv
    <3>4. \A m \in ByFd(Owner(f), f) : m = n
      BY <1>1, <3>1, <3>2 DEF ByFd, Of, Inv, NodesInv
    <3>5. ByFd(Owner(f), f) = {n}
      BY <3>3, <3>4
    <3>6. QED
      BY <3>5, FS_Singleton
  <2>2. QED
    BY <1>1, <2>1 DEF Inv, NodesInv, HashInv, HashesAgree
<1>2. QED
  BY <1>1, InvHolds, PTL

\* A device that has reported over its present connection is shown online: the late
\* deletion of an earlier connection never puts it offline.
THEOREM ConnectedIsOnlineHolds == Spec => []ConnectedIsOnline
<1>1. Inv => ConnectedIsOnline
  BY DEF Inv
<1>2. QED
  BY <1>1, InvHolds, PTL

-----------------------------------------------------------------------------
(* The registry keeps the presence of each device.                           *)

\* A closed node that is still found by its serial is the one whose device is being put
\* offline, under the key mutex.
ClosedIsHeld ==
    \A n \in hash : node[n].fd = 0 => \E t \in Thread : key = t /\ pc[t] = "offline" /\ cur[t] = n

\* A node that was replaced is not found any more.
ReplacedIsGone ==
    /\ \A n \in hash : ~node[n].no_update_db
    /\ \A n \in Node : Live(n) /\ node[n].serial = None => ~node[n].no_update_db

\* A node is marked as it leaves the hash.
LEMMA ReplacedStep ==
    ASSUME Inv, ReplacedIsGone, Next
    PROVE  ReplacedIsGone'
<1>1. /\ node \in [Node -> NodeType] /\ hash \subseteq Node /\ Thread # {}
      /\ \A t \in Thread : pc[t] # "idle" => cur[t] \in Node /\ Live(cur[t])
      /\ \A n \in hash : Live(n) /\ node[n].serial # None
  BY Nothings DEF Inv, Types, ServerTypes, WorkInv, HashInv
<1>2. \A n \in Node : node[n] \in NodeType
  BY <1>1
<1>4. ASSUME hash' = hash, node' = node PROVE ReplacedIsGone'
  BY <1>4 DEF ReplacedIsGone, Live
<1>5. ASSUME NEW d \in Device, Connect(d) PROVE ReplacedIsGone'
  <2>1. PICK f \in Fd, n \in Node : ~Live(n) /\ node' = [node EXCEPT ![n] = FreshNode(f)]
    BY <1>5 DEF Connect
  <2>2. hash' = hash /\ n \notin hash /\ \A m \in Node : node'[m] = IF m = n THEN FreshNode(f) ELSE node[m]
    BY <1>1, <1>5, <2>1 DEF Connect
  <2>3. ~FreshNode(f).no_update_db
    BY DEF FreshNode
  <2>4. QED
    BY <1>1, <2>1, <2>2, <2>3 DEF ReplacedIsGone, Live
<1>6. ASSUME NEW t \in Thread, handle_client_update_key(t) PROVE ReplacedIsGone'
  <2> DEFINE n == cur[t]
             d == sock[node[n].fd].dev
  <2>1. /\ hash' = (hash \ ByKey(d)) \union {n}
        /\ node' = [m \in Node |-> IF m = n THEN [node[m] EXCEPT !.serial = d]
                                   ELSE IF m \in ByKey(d) THEN Replaced(m) ELSE node[m]]
        /\ n \in Node /\ Live(n) /\ node[n].serial = None
    BY <1>6 DEF handle_client_update_key, EnterHash, Inv, WorkInv
  <2> HIDE DEF n, d
  <2>2. ~node'[n].no_update_db
    <3>1. node'[n] = [node[n] EXCEPT !.serial = d] /\ ~node[n].no_update_db
      BY <2>1 DEF ReplacedIsGone
    <3>2. QED
      BY <1>2, <2>1, <3>1 DEF NodeType
  <2>3. \A m \in ByKey(d) : node[m].serial # None /\ Replaced(m).serial = node[m].serial /\ m \in Node
    <3>1. ASSUME NEW m \in ByKey(d) PROVE node[m].serial # None /\ m \in Node
      BY <1>1 DEF ByKey
    <3>2. ASSUME NEW m \in Node PROVE Replaced(m).serial = node[m].serial
      BY <1>2 DEF Replaced, NodeType
    <3>3. QED
      BY <3>1, <3>2
  <2>4. \A m \in Node : m # n /\ m \notin ByKey(d) => node'[m] = node[m]
    BY <2>1
  <2>5. \A m \in ByKey(d) : m # n => node'[m] = Replaced(m)
    BY <2>1, <2>3
  <2>6. \A m \in hash' : ~node'[m].no_update_db
    BY <1>1, <2>1, <2>2, <2>4 DEF ReplacedIsGone
  <2>7. \A m \in Node : Live(m)' /\ node'[m].serial = None => ~node'[m].no_update_db
    BY <2>2, <2>3, <2>4, <2>5 DEF ReplacedIsGone, Live
  <2>8. QED
    BY <2>6, <2>7 DEF ReplacedIsGone
<1>7. ASSUME NEW t \in Thread, UpdateDevice(t) PROVE ReplacedIsGone'
  <2> DEFINE n == cur[t]
  <2>1. /\ hash' = hash /\ n \in Node /\ Live(n)
        /\ node' = node \/ node' = [node EXCEPT ![n].add_online_log = FALSE]
    BY <1>1, <1>7 DEF UpdateDevice, Recorded
  <2> HIDE DEF n
  <2>2. CASE node' = [node EXCEPT ![n].add_online_log = FALSE]
    <3>1. node'[n] = [node[n] EXCEPT !.add_online_log = FALSE] /\ \A m \in Node : m # n => node'[m] = node[m]
      BY <1>1, <2>1, <2>2
    <3>2. node'[n].serial = node[n].serial /\ node'[n].no_update_db = node[n].no_update_db
      BY <1>2, <2>1, <3>1 DEF NodeType
    <3>3. hash' = hash /\ n \in Node /\ node[n] # NoNode
      BY <2>1 DEF Live
    <3>4. \A m \in hash : ~node'[m].no_update_db
      BY <1>1, <3>1, <3>2, <3>3 DEF ReplacedIsGone
    <3>5. \A m \in Node : Live(m)' /\ node'[m].serial = None => ~node'[m].no_update_db
      BY <3>1, <3>2, <3>3 DEF ReplacedIsGone, Live
    <3>6. QED
      BY <3>3, <3>4, <3>5 DEF ReplacedIsGone
  <2>3. QED
    BY <1>4, <2>1, <2>2
<1>8. ASSUME NEW n \in Node, Unlink(n) PROVE ReplacedIsGone'
  <2>1. hash' = hash \ {n} /\ \A m \in Node : node'[m] = IF m = n THEN NoNode ELSE node[m]
    BY <1>1, <1>8 DEF Unlink
  <2>2. QED
    BY <1>1, <2>1 DEF ReplacedIsGone, Live
<1>9. ASSUME NEW t \in Thread, _cnm_client_del(t) PROVE ReplacedIsGone'
  <2>1. cur[t] \in Node /\ Live(cur[t])
    BY <1>1, <1>9 DEF _cnm_client_del
  <2>2. PICK n \in Node : n = cur[t]
    BY <2>1
  <2>3. CASE node' = [node EXCEPT ![n].fd = 0] /\ hash' = hash
    <3>1. node'[n] = [node[n] EXCEPT !.fd = 0] /\ \A m \in Node : m # n => node'[m] = node[m]
      BY <1>1, <2>3
    <3>2. node'[n].serial = node[n].serial /\ node'[n].no_update_db = node[n].no_update_db
      BY <1>2, <3>1 DEF NodeType
    <3>3. QED
      BY <1>1, <2>1, <2>2, <2>3, <3>1, <3>2 DEF ReplacedIsGone, Live
  <2>4. (node' = [node EXCEPT ![n].fd = 0] /\ hash' = hash) \/ Unlink(n)
    BY <1>9, <2>2 DEF _cnm_client_del, Unlink
  <2>5. QED
    BY <1>8, <2>3, <2>4
<1>10. ASSUME NEW t \in Thread, SetDeviceOffline(t) PROVE ReplacedIsGone'
  <2>1. cur[t] \in Node
    BY <1>1, <1>10 DEF SetDeviceOffline
  <2>2. PICK n \in Node : n = cur[t]
    BY <2>1
  <2>3. Unlink(n)
    BY <1>10, <2>2 DEF SetDeviceOffline, Unlink
  <2>4. QED
    BY <1>8, <2>3
<1>11. ASSUME Restart PROVE ReplacedIsGone'
  BY <1>11 DEF Restart, ReplacedIsGone, Live
<1>12. ASSUME NEW d \in Device, Beat(d) \/ Drop(d) \/ Retire(d) PROVE ReplacedIsGone'
  BY <1>4, <1>12 DEF Beat, Drop, Retire
<1>13. ASSUME NEW t \in Thread, Expire(t) \/ epoll_wait(t) \/ HandleEvent(t) PROVE ReplacedIsGone'
  BY <1>4, <1>13 DEF Expire, epoll_wait, HandleEvent
<1>14. ASSUME CfgUpdateTimer \/ cnm_client_update_seq PROVE ReplacedIsGone'
  BY <1>4, <1>14 DEF CfgUpdateTimer, cnm_client_update_seq, PushersLeave
<1>15. QED
  BY <1>5, <1>6, <1>7, <1>9, <1>10, <1>11, <1>12, <1>13, <1>14 DEF Next, Devices, data_handle_thread

Busy(d) == {cur[t] : t \in Recording(d)}

\* Nodes, threads and rows of other devices do not matter to device d.
Elsewhere(d) ==
    /\ Holder(d)' = Holder(d) /\ Busy(d)' = Busy(d) /\ online'[d] = online[d]
    /\ (\E n \in Entries(d) : node[n].fd = 0)' = (\E n \in Entries(d) : node[n].fd = 0)
    /\ (\E n \in Holder(d) : ~node[n].add_online_log)' = (\E n \in Holder(d) : ~node[n].add_online_log)

\* A step that happens elsewhere is a stutter of the device's presence.
LEMMA ElsewhereStutters ==
    ASSUME NEW d, setup' = setup, Elsewhere(d)
    PROVE  UNCHANGED Presented(d)!vars
BY DEF Elsewhere, Busy, Presented!vars

\* A step that changes no node in the hash and no node that is being recorded happens
\* elsewhere.
LEMMA NodesKept ==
    ASSUME Inv, NEW d \in Device, hash' = hash, pc' = pc, cur' = cur, online' = online,
           \A n \in Node : Live(n) => node'[n] = node[n]
    PROVE  Elsewhere(d)
<1>1. \A n \in hash : node'[n] = node[n]
  BY DEF Inv, Types, ServerTypes, HashInv
<1>2. \A t \in Thread : pc[t] = "update" => node'[cur[t]] = node[cur[t]]
  BY DEF Inv, WorkInv
<1>3. Entries(d)' = Entries(d) /\ Holder(d)' = Holder(d)
  BY <1>1 DEF Entries, Holder
<1>4. Recording(d)' = Recording(d)
  BY <1>2 DEF Recording
<1>5. Busy(d)' = Busy(d)
  BY <1>4 DEF Busy
<1>6. QED
  BY <1>1, <1>3, <1>5 DEF Elsewhere, Entries, Holder

\* Connections that begin, end or carry messages leave the nodes in use alone.
LEMMA DevicesKeepNodes ==
    ASSUME Inv, Devices
    PROVE  \A n \in Node : Live(n) => node'[n] = node[n]
<1>1. ASSUME NEW e \in Device, Connect(e), NEW n \in Node, Live(n) PROVE node'[n] = node[n]
  <2>1. PICK f \in Fd, m \in Node : ~Live(m) /\ node' = [node EXCEPT ![m] = FreshNode(f)]
    BY <1>1 DEF Connect
  <2>2. QED
    BY <1>1, <2>1 DEF Inv, Types, ServerTypes
<1>2. ASSUME NEW e \in Device, Beat(e) \/ Drop(e) \/ Retire(e) PROVE node' = node
  BY <1>2 DEF Beat, Drop, Retire
<1>3. QED
  BY <1>1, <1>2 DEF Devices

\* So they happen elsewhere.
LEMMA DevicesElsewhere ==
    ASSUME Inv, Devices, NEW d \in Device
    PROVE  Elsewhere(d)
<1>1. UNCHANGED <<hash, pc, cur, online>>
  BY DEF Devices, Connect, Beat, Drop, Retire, OthersLeave, threads
<1>2. QED
  BY <1>1, DevicesKeepNodes, NodesKept

\* A thread that finds something to do reads a message of a device, or does nothing yet.
LEMMA LookingPresents ==
    ASSUME Inv, setup' = setup, NEW t \in Thread, Expire(t) \/ epoll_wait(t) \/ HandleEvent(t),
           NEW d \in Device
    PROVE  [Presented(d)!Next]_(Presented(d)!vars)
<1>1. /\ UNCHANGED <<node, hash, online>>
      /\ pc \in [Thread -> {"idle", "register", "update", "close", "offline"}]
      /\ cur \in [Thread -> 0..MaxNode]
  BY DEF Expire, epoll_wait, HandleEvent, Inv, Types, ServerTypes
<1>2. CASE UNCHANGED <<pc, cur>>
  BY <1>1, <1>2, NodesKept, ElsewhereStutters
<1>3. ASSUME NEW n \in Of(t), NEW p \in {"close", "register", "update"}, pc[t] = "idle", Go(t, p, n),
             p = "update" => n \in hash /\ node[n].fd # 0
      PROVE  [Presented(d)!Next]_(Presented(d)!vars)
  <2>1. /\ pc'[t] = p /\ cur'[t] = n
        /\ \A u \in Thread : u # t => pc'[u] = pc[u] /\ cur'[u] = cur[u]
    BY <1>1, <1>3 DEF Go
  <2>2. Entries(d)' = Entries(d) /\ Holder(d)' = Holder(d)
    BY <1>1 DEF Entries, Holder
  <2>3. CASE p = "update" /\ node[n].serial = d
    <3>1. Recording(d)' = Recording(d) \union {t} /\ t \notin Recording(d)
      BY <1>1, <1>3, <2>1, <2>3 DEF Recording
    <3>2. \A u \in Recording(d) : cur'[u] = cur[u]
      <4>1. \A u \in Recording(d) : u \in Thread /\ u # t
        BY <3>1 DEF Recording
      <4>2. QED
        BY <2>1, <4>1
    <3>3. Busy(d)' = Busy(d) \union {n}
      BY <2>1, <3>1, <3>2 DEF Busy
    <3>4. n \notin Busy(d)
      <4>1. \A u \in Recording(d) : node[cur[u]].thread = u
        BY DEF Recording, Inv, WorkInv
      <4>2. QED
        BY <3>1, <4>1 DEF Busy, Of
    <3>5. n \in Holder(d)
      BY <1>3, <2>3 DEF Holder, Entries
    <3>6. Presented(d)!Read(n)
      BY <1>1, <2>2, <3>3, <3>4, <3>5 DEF Presented!Read, Busy, Entries, Holder
    <3>7. QED
      BY <3>6 DEF Presented!Next, Of
  <2>4. CASE ~(p = "update" /\ node[n].serial = d)
    <3>1. Recording(d)' = Recording(d) /\ t \notin Recording(d)
      BY <1>1, <1>3, <2>1, <2>4 DEF Recording
    <3>2. Busy(d)' = Busy(d)
      BY <2>1, <3>1 DEF Busy, Recording
    <3>3. Elsewhere(d)
      BY <1>1, <2>2, <3>2 DEF Elsewhere, Entries, Holder
    <3>4. QED
      BY <3>3, ElsewhereStutters
  <2>5. QED
    BY <2>3, <2>4
<1>4. CASE Expire(t)
  <2>1. \E n \in Of(t) : Go(t, "close", n)
    BY <1>4 DEF Expire
  <2>2. QED
    BY <1>3, <1>4, <2>1 DEF Expire, AtTop
<1>5. CASE epoll_wait(t)
  BY <1>2, <1>5 DEF epoll_wait
<1>6. CASE HandleEvent(t)
  <2>1. PICK e \in events[t] :
          \/ UNCHANGED <<pc, cur>>
          \/ \E n \in ByFd(t, e.fd) : IF e.hup THEN Go(t, "close", n) ELSE Receive(t, n)
    BY <1>6 DEF HandleEvent
  <2>2. pc[t] = "idle" /\ e.fd # 0
    <3>1. events[t] \subseteq [fd : Fd, hup : BOOLEAN]
      BY DEF Inv, Types, ServerTypes
    <3>2. QED
      BY <1>6, <3>1, BoundsAreNat DEF HandleEvent, Fd
  <2>3. ASSUME NEW n \in ByFd(t, e.fd), IF e.hup THEN Go(t, "close", n) ELSE Receive(t, n)
        PROVE  [Presented(d)!Next]_(Presented(d)!vars)
    <3>1. n \in Of(t) /\ node[n].fd # 0
      BY <2>2 DEF ByFd
    <3>2. node[n].serial # None => n \in hash
      BY <3>1 DEF Of, Inv, HashInv
    <3>3. CASE Go(t, "close", n)
      BY <1>3, <2>2, <3>1, <3>3
    <3>4. CASE Go(t, IF node[n].serial = None THEN "register" ELSE "update", n)
      BY <1>3, <2>2, <3>1, <3>2, <3>4
    <3>5. QED
      BY <2>3, <3>3, <3>4 DEF Receive
  <2>4. QED
    BY <1>2, <2>1, <2>3
<1>7. QED
  BY <1>4, <1>5, <1>6


\* A node that gets its serial becomes the device's, in place of the one that was.
LEMMA RegisterPresents ==
    ASSUME Inv, ClosedIsHeld, setup' = setup, NEW t \in Thread, handle_client_update_key(t), NEW d
    PROVE  [Presented(d)!Next]_(Presented(d)!vars) /\ ClosedIsHeld'
<1> DEFINE n == cur[t]
           e == sock[node[n].fd].dev
<1>1. /\ pc[t] = "register" /\ key = Free /\ key' = key /\ online' = online
      /\ May("slow") \/ ~BeingRecorded(e)
      /\ hash' = (hash \ ByKey(e)) \union {n}
      /\ node' = [m \in Node |-> IF m = n THEN [node[m] EXCEPT !.serial = e]
                                 ELSE IF m \in ByKey(e) THEN Replaced(m) ELSE node[m]]
      /\ Go(t, "update", n)
  BY DEF handle_client_update_key, EnterHash
<1>2. /\ node \in [Node -> NodeType] /\ hash \subseteq Node
      /\ pc \in [Thread -> {"idle", "register", "update", "close", "offline"}]
      /\ cur \in [Thread -> 0..MaxNode]
  BY DEF Inv, Types, ServerTypes
<1>3. n \in Node /\ Live(n) /\ node[n].thread = t /\ node[n].serial = None /\ node[n].fd # 0
      /\ node[n].add_online_log /\ n \notin hash
  BY <1>1 DEF Inv, WorkInv, HashInv
<1>4. e \in Device
  <2>1. \A m \in Node : node[m].fd # 0 => node[m].fd \in Fd
    BY <1>2, BoundsAreNat DEF Fd, NodeType
  <2>2. QED
    BY <1>3, <2>1 DEF Inv, NodesInv, SocksInv
<1> HIDE DEF n, e
<1>5. /\ node'[n].fd # 0 /\ node'[n].serial = e /\ node'[n].add_online_log
      /\ \A m \in Node : m # n => node'[m].serial = node[m].serial
      /\ \A m \in Node : m # n /\ m \notin ByKey(e) => node'[m] = node[m]
  <2>1. node'[n] = [node[n] EXCEPT !.serial = e] /\ node[n] \in NodeType
    BY <1>1, <1>2, <1>3
  <2>2. ASSUME NEW m \in Node, m # n PROVE node'[m].serial = node[m].serial
    <3>1. node'[m] = node[m] \/ node'[m] = Replaced(m)
      BY <1>1, <2>2
    <3>2. node[m] \in NodeType
      BY <1>2
    <3>3. Replaced(m).serial = node[m].serial
      BY <3>2 DEF Replaced, NodeType
    <3>4. QED
      BY <3>1, <3>3
  <2>3. \A m \in Node : m # n /\ m \notin ByKey(e) => node'[m] = node[m]
    BY <1>1
  <2>4. QED
    BY <1>3, <2>1, <2>2, <2>3 DEF NodeType
<1>6. \A m \in hash' : m = n \/ (m \in hash /\ node[m].serial # e /\ m # n /\ node'[m] = node[m])
  BY <1>1, <1>2, <1>3, <1>5 DEF ByKey
<1>7. \A m \in hash : node[m].serial # e => m \in hash' /\ m # n
  BY <1>1, <1>3 DEF ByKey
<1>8. \A m \in hash : node[m].fd # 0
  BY <1>1, Nothings DEF ClosedIsHeld
<1>9. /\ pc'[t] = "update" /\ cur'[t] = n
      /\ \A u \in Thread : u # t => pc'[u] = pc[u] /\ cur'[u] = cur[u]
  BY <1>1, <1>2 DEF Go
<1>10. \A u \in Thread : pc[u] = "update" =>
          u # t /\ cur[u] \in Node /\ cur[u] # n /\ node'[cur[u]].serial = node[cur[u]].serial
  <2>1. \A u \in Thread : pc[u] = "update" => u # t /\ cur[u] \in Node /\ node[cur[u]].thread = u
    BY <1>1 DEF Inv, WorkInv
  <2>2. QED
    BY <1>3, <1>5, <2>1
<1>11. ClosedIsHeld'
  BY <1>5, <1>6, <1>8 DEF ClosedIsHeld
<1>12. CASE d = e
  <2>1. Entries(d)' = {n}
    <3>1. n \in hash' /\ node'[n].serial = d /\ \A m \in hash' : node'[m].serial = d => m = n
      BY <1>1, <1>5, <1>6, <1>12
    <3>2. QED
      BY <3>1 DEF Entries
  <2>2. Holder(d)' = {n}
    BY <1>5, <2>1 DEF Holder
  <2>3. Recording(d)' = Recording(d) \union {t}
    BY <1>5, <1>9, <1>10, <1>12 DEF Recording
  <2>4. \A u \in Recording(d) : cur'[u] = cur[u] /\ cur[u] # n
    BY <1>9, <1>10 DEF Recording
  <2>5. Busy(d)' = Busy(d) \union {n} /\ n \notin Busy(d)
    BY <1>9, <2>3, <2>4 DEF Busy
  <2>6. "slow" \in setup.may \/ Busy(d) = {}
    BY <1>1, <1>12 DEF BeingRecorded, Busy, Recording, May
  <2>7. ~(\E m \in Entries(d) : node[m].fd = 0) /\ ~(\E m \in Entries(d) : node[m].fd = 0)'
    BY <1>5, <1>8, <2>1 DEF Entries
  <2>8. ~(\E m \in Holder(d) : ~node[m].add_online_log)'
    BY <1>5, <2>2
  <2>9. PICK c \in Node : c = n
    BY <1>3
  <2>10. Presented(d)!Claim(c)
    BY <1>1, <2>2, <2>5, <2>6, <2>7, <2>8, <2>9 DEF Presented!Claim, Busy
  <2>11. QED
    BY <1>11, <2>10 DEF Presented!Next
<1>13. CASE d # e
  <2>1. Entries(d)' = Entries(d) /\ \A m \in Entries(d) : node'[m] = node[m]
    BY <1>5, <1>6, <1>7, <1>13 DEF Entries
  <2>2. Holder(d)' = Holder(d) /\ Holder(d) \subseteq Entries(d)
    BY <2>1 DEF Holder
  <2>3. Recording(d)' = Recording(d)
    BY <1>5, <1>9, <1>10, <1>13 DEF Recording
  <2>4. \A u \in Recording(d) : cur'[u] = cur[u]
    BY <1>9, <1>10 DEF Recording
  <2>5. Busy(d)' = Busy(d)
    BY <2>3, <2>4 DEF Busy
  <2>6. Elsewhere(d)
    BY <1>1, <2>1, <2>2, <2>5 DEF Elsewhere
  <2>7. QED
    BY <1>11, <2>6, ElsewhereStutters
<1>14. QED
  BY <1>12, <1>13


\* A heartbeat is recorded over the device's node, or over one that was replaced.
LEMMA UpdatePresents ==
    ASSUME Inv, ClosedIsHeld, setup' = setup, NEW t \in Thread, UpdateDevice(t), NEW d
    PROVE  (d \in Device => [Presented(d)!Next]_(Presented(d)!vars)) /\ ClosedIsHeld'
<1> DEFINE n == cur[t]
<1>1. /\ pc[t] = "update" /\ Go(t, "idle", 0) /\ UNCHANGED <<hash, key>>
      /\ \/ /\ online' = [online EXCEPT ![node[n].serial] = TRUE]
            /\ node' = [node EXCEPT ![n].add_online_log = FALSE]
         \/ "db" \in setup.may /\ UNCHANGED <<online, node>>
  BY DEF UpdateDevice, Recorded, May
<1>2. /\ node \in [Node -> NodeType] /\ hash \subseteq Node /\ online \in [Device -> BOOLEAN]
      /\ pc \in [Thread -> {"idle", "register", "update", "close", "offline"}]
      /\ cur \in [Thread -> 0..MaxNode]
  BY DEF Inv, Types, ServerTypes, OutsideTypes
<1>3. n \in Node /\ node[n].thread = t /\ node[n].serial \in Device
  BY <1>1, <1>2 DEF Inv, WorkInv, NodeType
<1>4. /\ \A m \in Node : node'[m].fd = node[m].fd /\ node'[m].serial = node[m].serial
      /\ \A m \in Node : m # n => node'[m] = node[m]
  <2>1. CASE node' = node
    BY <2>1
  <2>2. CASE node' = [node EXCEPT ![n].add_online_log = FALSE]
    <3>1. node'[n] = [node[n] EXCEPT !.add_online_log = FALSE] /\ node[n] \in NodeType
      BY <1>2, <1>3, <2>2
    <3>2. node'[n].fd = node[n].fd /\ node'[n].serial = node[n].serial
      BY <3>1 DEF NodeType
    <3>3. \A m \in Node : m # n => node'[m] = node[m]
      BY <1>2, <1>3, <2>2
    <3> HIDE DEF n
    <3>4. QED
      BY <3>2, <3>3
  <2>3. QED
    BY <1>1, <2>1, <2>2
<1>5. /\ pc'[t] = "idle"
      /\ \A u \in Thread : u # t => pc'[u] = pc[u] /\ cur'[u] = cur[u]
  BY <1>1, <1>2 DEF Go
<1>6. online' = [online EXCEPT ![node[n].serial] = TRUE] =>
        ~node'[n].add_online_log \/ ("db" \in setup.may /\ UNCHANGED <<online, node>>)
  <2>1. CASE node' = [node EXCEPT ![n].add_online_log = FALSE]
    <3>1. node'[n] = [node[n] EXCEPT !.add_online_log = FALSE] /\ node[n] \in NodeType
      BY <1>2, <1>3, <2>1
    <3>2. QED
      BY <3>1 DEF NodeType
  <2>2. QED
    BY <1>1, <2>1
<1> HIDE DEF n
<1>7. Entries(d)' = Entries(d) /\ Holder(d)' = Holder(d) /\ Holder(d) \subseteq Node
  BY <1>1, <1>2, <1>4 DEF Entries, Holder
<1>8. (\E m \in Entries(d) : node[m].fd = 0)' = (\E m \in Entries(d) : node[m].fd = 0)
  BY <1>2, <1>4, <1>7 DEF Entries
<1>9. ClosedIsHeld'
  <2>1. \A u \in Thread : pc[u] = "offline" => u # t
    BY <1>1
  <2>2. QED
    BY <1>1, <1>2, <1>4, <1>5, <2>1 DEF ClosedIsHeld
<1>10. \A u \in Thread : u # t /\ pc[u] = "update" => cur[u] \in Node /\ cur[u] # n
  BY <1>3 DEF Inv, WorkInv
<1>11. Recording(d)' = Recording(d) \ {t}
  <2>1. \A u \in Thread : u # t /\ pc[u] = "update" => node'[cur[u]].serial = node[cur[u]].serial
    BY <1>4, <1>10
  <2>2. QED
    BY <1>5, <2>1 DEF Recording
<1>12. \A u \in Recording(d) \ {t} : cur'[u] = cur[u] /\ cur[u] # n
  BY <1>5, <1>10 DEF Recording
<1>13. CASE d = node[n].serial
  <2>1. t \in Recording(d) /\ n = cur[t]
    BY <1>1, <1>13 DEF Recording, n
  <2>2. n \in Busy(d) /\ Busy(d)' = Busy(d) \ {n}
    BY <1>11, <1>12, <2>1 DEF Busy
  <2>3. PICK c \in Node : c = n
    BY <1>3
  <2>4. CASE "db" \in setup.may /\ UNCHANGED <<online, node>>
    <3>1. (\E m \in Holder(d) : ~node[m].add_online_log)' = (\E m \in Holder(d) : ~node[m].add_online_log)
      BY <1>7, <2>4
    <3>2. Presented(d)!Record(c)
      BY <1>7, <1>8, <2>2, <2>3, <2>4, <3>1 DEF Presented!Record, Busy
    <3>3. QED
      BY <1>9, <3>2 DEF Presented!Next
  <2>5. CASE online' = [online EXCEPT ![node[n].serial] = TRUE] /\ ~node'[n].add_online_log
    <3>1. online'[d] = TRUE
      BY <1>2, <1>3, <1>13, <2>5
    <3>2. (\E m \in Holder(d) : ~node[m].add_online_log)'
            = ((\E m \in Holder(d) : ~node[m].add_online_log) \/ n \in Holder(d))
      BY <1>4, <1>7, <2>5
    <3>3. Presented(d)!Record(c)
      BY <1>7, <1>8, <2>2, <2>3, <3>1, <3>2 DEF Presented!Record, Busy
    <3>4. QED
      BY <1>9, <3>3 DEF Presented!Next
  <2>6. QED
    BY <1>1, <1>6, <2>4, <2>5
<1>14. CASE d # node[n].serial /\ d \in Device
  <2>1. t \notin Recording(d) /\ n \notin Holder(d)
    BY <1>14 DEF Recording, Holder, Entries, n
  <2>2. Busy(d)' = Busy(d)
    BY <1>11, <1>12, <2>1 DEF Busy
  <2>3. (\E m \in Holder(d) : ~node[m].add_online_log)' = (\E m \in Holder(d) : ~node[m].add_online_log)
    BY <1>4, <1>7, <2>1
  <2>4. online'[d] = online[d]
    BY <1>1, <1>2, <1>14
  <2>5. Elsewhere(d)
    BY <1>7, <1>8, <2>2, <2>3, <2>4 DEF Elsewhere
  <2>6. QED
    BY <1>9, <2>5, ElsewhereStutters
<1>15. QED
  BY <1>9, <1>13, <1>14


\* A thread that deletes a node ends the device's connection, or frees a node that
\* does not stand for a device.
LEMMA DeletePresents ==
    ASSUME Inv, ClosedIsHeld, ReplacedIsGone, setup' = setup, NEW t \in Thread, _cnm_client_del(t), NEW d
    PROVE  [Presented(d)!Next]_(Presented(d)!vars) /\ ClosedIsHeld'
<1> DEFINE n == cur[t]
<1>1. pc[t] = "close" /\ key = Free /\ online' = online
  BY DEF _cnm_client_del
<1>2. /\ node \in [Node -> NodeType] /\ hash \subseteq Node
      /\ pc \in [Thread -> {"idle", "register", "update", "close", "offline"}]
      /\ cur \in [Thread -> 0..MaxNode]
  BY DEF Inv, Types, ServerTypes
<1>3. n \in Node /\ Live(n) /\ node[n].thread = t
  BY <1>1 DEF Inv, WorkInv
<1>4. \A m \in hash : node[m].fd # 0
  BY <1>1, Nothings DEF ClosedIsHeld
<1>5. \A u \in Thread : pc[u] = "update" => u # t /\ cur[u] \in Node /\ cur[u] # n
  BY <1>1, <1>3 DEF Inv, WorkInv
<1>6. CASE ~node[n].no_update_db /\ node[n].serial # None
  <2>1. node' = [node EXCEPT ![n].fd = 0] /\ key' = t /\ Go(t, "offline", n) /\ hash' = hash
    BY <1>6 DEF _cnm_client_del
  <2>2. n \in hash
    BY <1>3, <1>6 DEF Inv, HashInv
  <2>3. /\ pc'[t] = "offline" /\ cur'[t] = n
        /\ \A u \in Thread : u # t => pc'[u] = pc[u] /\ cur'[u] = cur[u]
    BY <1>2, <2>1 DEF Go
  <2> HIDE DEF n
  <2>4. /\ node'[n].fd = 0 /\ node'[n].serial = node[n].serial
        /\ \A m \in Node : m # n => node'[m] = node[m]
    <3>1. node'[n] = [node[n] EXCEPT !.fd = 0] /\ node[n] \in NodeType
      BY <1>2, <1>3, <2>1
    <3>2. \A m \in Node : m # n => node'[m] = node[m]
      BY <1>2, <1>3, <2>1
    <3>3. QED
      BY <3>1, <3>2 DEF NodeType
  <2>5. ClosedIsHeld'
    BY <1>2, <1>4, <2>1, <2>3, <2>4 DEF ClosedIsHeld
  <2>6. Recording(d)' = Recording(d)
    <3>1. \A u \in Thread : pc[u] = "update" => node'[cur[u]] = node[cur[u]]
      BY <1>5, <2>4
    <3>2. QED
      BY <1>5, <2>3, <3>1 DEF Recording
  <2>7. Busy(d)' = Busy(d) /\ n \notin Busy(d)
    <3>1. \A u \in Recording(d) : cur'[u] = cur[u] /\ cur[u] # n
      BY <1>5, <2>3 DEF Recording
    <3>2. QED
      BY <2>6, <3>1 DEF Busy
  <2>8. Entries(d)' = Entries(d)
    BY <1>2, <2>1, <2>4 DEF Entries
  <2>9. CASE d = node[n].serial
    <3>1. Entries(d) = {n}
      BY <1>2, <2>2, <2>9 DEF Entries, Inv, HashInv
    <3>2. Holder(d) = {n} /\ Holder(d)' = {}
      BY <1>4, <2>2, <2>4, <2>8, <3>1 DEF Holder
    <3>3. ~(\E m \in Entries(d) : node[m].fd = 0) /\ (\E m \in Entries(d) : node[m].fd = 0)'
      BY <1>4, <2>2, <2>4, <2>8, <3>1
    <3>4. ~(\E m \in Holder(d) : ~node[m].add_online_log)'
      BY <3>2
    <3>5. PICK c \in Node : c = n
      BY <1>3
    <3>6. Presented(d)!Close(c)
      BY <1>1, <2>7, <3>2, <3>3, <3>4, <3>5 DEF Presented!Close, Busy
    <3>7. QED
      BY <2>5, <3>6 DEF Presented!Next
  <2>10. CASE d # node[n].serial
    <3>1. \A m \in Entries(d) : node'[m] = node[m]
      BY <1>2, <2>4, <2>10 DEF Entries
    <3>2. Elsewhere(d)
      BY <1>1, <2>7, <2>8, <3>1 DEF Elsewhere, Holder
    <3>3. QED
      BY <2>5, <3>2, ElsewhereStutters
  <2>11. QED
    BY <2>9, <2>10
<1>7. CASE ~(~node[n].no_update_db /\ node[n].serial # None)
  <2>1. Unlink(n) /\ Go(t, "idle", 0) /\ key' = key
    BY <1>7 DEF _cnm_client_del
  <2>2. /\ pc'[t] = "idle"
        /\ \A u \in Thread : u # t => pc'[u] = pc[u] /\ cur'[u] = cur[u]
    BY <1>2, <2>1 DEF Go
  <2>3. hash' = hash \ {n} /\ \A m \in Node : m # n => node'[m] = node[m]
    BY <1>2, <1>3, <2>1 DEF Unlink
  <2>4. ClosedIsHeld'
    BY <1>2, <1>4, <2>3 DEF ClosedIsHeld
  <2>5. n \notin hash
    BY <1>1, <1>7 DEF ReplacedIsGone, Inv, HashInv
  <2> HIDE DEF n
  <2>6. Entries(d)' = Entries(d) /\ \A m \in Entries(d) : node'[m] = node[m]
    BY <1>2, <2>3, <2>5 DEF Entries
  <2>7. Recording(d)' = Recording(d)
    <3>1. \A u \in Thread : pc[u] = "update" => node'[cur[u]] = node[cur[u]]
      BY <1>5, <2>3
    <3>2. QED
      BY <1>5, <2>2, <3>1 DEF Recording
  <2>8. Busy(d)' = Busy(d)
    <3>1. \A u \in Recording(d) : cur'[u] = cur[u]
      BY <1>5, <2>2 DEF Recording
    <3>2. QED
      BY <2>7, <3>1 DEF Busy
  <2>9. Elsewhere(d)
    BY <1>1, <2>6, <2>8 DEF Elsewhere, Holder
  <2>10. QED
    BY <2>4, <2>9, ElsewhereStutters
<1>8. QED
  BY <1>6, <1>7


\* The device is offline, and its node is free.
LEMMA OfflinePresents ==
    ASSUME Inv, ClosedIsHeld, setup' = setup, NEW t \in Thread, SetDeviceOffline(t), NEW d
    PROVE  (d \in Device => [Presented(d)!Next]_(Presented(d)!vars)) /\ ClosedIsHeld'
<1> DEFINE n == cur[t]
<1>1. /\ pc[t] = "offline" /\ Unlink(n) /\ key' = Free /\ Go(t, "idle", 0)
      /\ \/ online' = [online EXCEPT ![node[n].serial] = FALSE]
         \/ "db" \in setup.may /\ online' = online
  BY DEF SetDeviceOffline, May
<1>2. /\ node \in [Node -> NodeType] /\ hash \subseteq Node /\ online \in [Device -> BOOLEAN]
      /\ pc \in [Thread -> {"idle", "register", "update", "close", "offline"}]
      /\ cur \in [Thread -> 0..MaxNode]
  BY DEF Inv, Types, ServerTypes, OutsideTypes
<1>3. n \in hash /\ n \in Node /\ node[n].fd = 0 /\ node[n].thread = t /\ key = t
  BY <1>1 DEF Inv, WorkInv
<1>4. node[n].serial \in Device
  BY <1>2, <1>3 DEF Inv, HashInv, NodeType
<1>5. \A m \in hash : node[m].fd = 0 => m = n
  BY <1>3 DEF ClosedIsHeld
<1>6. /\ pc'[t] = "idle"
      /\ \A u \in Thread : u # t => pc'[u] = pc[u] /\ cur'[u] = cur[u]
  BY <1>1, <1>2 DEF Go
<1>7. hash' = hash \ {n} /\ \A m \in Node : m # n => node'[m] = node[m]
  BY <1>1, <1>2, <1>3 DEF Unlink
<1>8. \A u \in Thread : pc[u] = "update" => u # t /\ cur[u] \in Node /\ cur[u] # n
  BY <1>1, <1>3 DEF Inv, WorkInv
<1> HIDE DEF n
<1>9. ClosedIsHeld'
  BY <1>2, <1>5, <1>7 DEF ClosedIsHeld
<1>10. Recording(d)' = Recording(d)
  <2>1. \A u \in Thread : pc[u] = "update" => node'[cur[u]] = node[cur[u]]
    BY <1>7, <1>8
  <2>2. QED
    BY <1>6, <1>8, <2>1 DEF Recording
<1>11. Busy(d)' = Busy(d)
  <2>1. \A u \in Recording(d) : cur'[u] = cur[u]
    BY <1>6, <1>8 DEF Recording
  <2>2. QED
    BY <1>10, <2>1 DEF Busy
<1>12. CASE d = node[n].serial
  <2>1. Entries(d) = {n}
    BY <1>2, <1>3, <1>12 DEF Entries, Inv, HashInv
  <2>2. Entries(d)' = {}
    BY <1>2, <1>7, <1>12, <2>1 DEF Entries
  <2>3. Holder(d) = {} /\ Holder(d)' = {}
    BY <1>3, <2>1, <2>2 DEF Holder
  <2>4. (\E m \in Entries(d) : node[m].fd = 0) /\ ~(\E m \in Entries(d) : node[m].fd = 0)'
    BY <1>3, <2>1, <2>2
  <2>5. UNCHANGED <<\E m \in Holder(d) : ~node[m].add_online_log>>
    BY <2>3
  <2>6. online'[d] = FALSE \/ ("db" \in setup.may /\ online'[d] = online[d])
    BY <1>1, <1>2, <1>4, <1>12
  <2>7. Presented(d)!PutOffline
    BY <1>11, <2>3, <2>4, <2>5, <2>6 DEF Presented!PutOffline, Busy
  <2>8. QED
    BY <1>9, <2>7 DEF Presented!Next
<1>13. CASE d # node[n].serial /\ d \in Device
  <2>1. Entries(d)' = Entries(d) /\ \A m \in Entries(d) : node'[m] = node[m]
    BY <1>2, <1>7, <1>13 DEF Entries
  <2>2. online'[d] = online[d]
    BY <1>1, <1>2, <1>13
  <2>3. Elsewhere(d)
    BY <1>11, <2>1, <2>2 DEF Elsewhere, Holder
  <2>4. QED
    BY <1>9, <2>3, ElsewhereStutters
<1>14. QED
  BY <1>9, <1>12, <1>13

\* A closed node stays closed and held while no thread deletes a node.
LEMMA HeldStays ==
    ASSUME ClosedIsHeld, hash' = hash, key' = key, \A n \in hash : node'[n].fd = node[n].fd,
           \A t \in Thread : pc[t] = "offline" => pc'[t] = pc[t] /\ cur'[t] = cur[t]
    PROVE  ClosedIsHeld'
BY DEF ClosedIsHeld

\* Every step is a step of the presence of each device, or none.
LEMMA StepPresents ==
    ASSUME Inv, ClosedIsHeld, ReplacedIsGone, [Next /\ UNCHANGED setup]_<<vars, setup>>
    PROVE  ClosedIsHeld' /\ \A d \in Device : [Presented(d)!Next]_(Presented(d)!vars)
<1>1. setup' = setup /\ \A n \in hash : Live(n) /\ n \in Node
  BY DEF Inv, HashInv, Types, ServerTypes
<1>2. ASSUME \A d \in Device : Elsewhere(d), UNCHANGED <<hash, key, pc, cur>>,
             \A n \in hash : node'[n].fd = node[n].fd
      PROVE  ClosedIsHeld' /\ \A d \in Device : [Presented(d)!Next]_(Presented(d)!vars)
  BY <1>1, <1>2, ElsewhereStutters, HeldStays
<1>3. CASE Devices
  <2>1. UNCHANGED <<hash, key, pc, cur>>
    BY <1>3 DEF Devices, Connect, Beat, Drop, Retire, OthersLeave, threads
  <2>2. \A n \in hash : node'[n].fd = node[n].fd
    BY <1>3, <1>1, DevicesKeepNodes
  <2>3. QED
    BY <1>2, <1>3, <2>1, <2>2, DevicesElsewhere
<1>4. ASSUME NEW t \in Thread, data_handle_thread(t)
      PROVE  ClosedIsHeld' /\ \A d \in Device : [Presented(d)!Next]_(Presented(d)!vars)
  <2>1. CASE Expire(t) \/ epoll_wait(t) \/ HandleEvent(t)
    <3>1. UNCHANGED <<hash, key, node>>
      BY <2>1 DEF Expire, epoll_wait, HandleEvent
    <3>2. \A u \in Thread : pc[u] = "offline" => pc'[u] = pc[u] /\ cur'[u] = cur[u]
      <4>1. TakesOn(t)
        BY <2>1, LookingSteps
      <4>2. /\ pc \in [Thread -> {"idle", "register", "update", "close", "offline"}]
            /\ cur \in [Thread -> 0..MaxNode]
        BY DEF Inv, Types, ServerTypes
      <4>3. QED
        BY <4>1, <4>2 DEF TakesOn, Go
    <3>3. ClosedIsHeld'
      BY <3>1, <3>2, HeldStays
    <3>4. QED
      BY <1>1, <2>1, <3>3, LookingPresents
  <2>2. QED
    BY <1>1, <1>4, <2>1, RegisterPresents, UpdatePresents, DeletePresents, OfflinePresents
       DEF data_handle_thread
<1>5. CASE CfgUpdateTimer \/ cnm_client_update_seq
  <2>1. UNCHANGED <<hash, key, pc, cur, node, online>>
    BY <1>5 DEF CfgUpdateTimer, cnm_client_update_seq, PushersLeave, threads
  <2>2. \A d \in Device : Elsewhere(d)
    BY <2>1, NodesKept
  <2>3. QED
    BY <1>2, <2>1, <2>2
<1>6. CASE UNCHANGED <<vars, setup>>
  <2>1. UNCHANGED <<hash, key, pc, cur, node, online>>
    BY <1>6 DEF vars, threads
  <2>2. \A d \in Device : Elsewhere(d)
    BY <2>1, NodesKept
  <2>3. QED
    BY <1>2, <2>1, <2>2
<1>7. CASE Restart
  <2>1. hash' = {} /\ (\A t \in Thread : pc'[t] = "idle") /\ \A d \in Device : online'[d] = FALSE
    BY <1>7 DEF Restart
  <2>2. ASSUME NEW d \in Device PROVE Presented(d)!Restart
    <3>1. Entries(d)' = {} /\ Recording(d)' = {}
      BY <2>1 DEF Entries, Recording
    <3>2. Holder(d)' = {}
      BY <3>1 DEF Holder
    <3>3. QED
      BY <1>1, <2>1, <3>1, <3>2 DEF Presented!Restart
  <2>3. QED
    BY <2>1, <2>2 DEF ClosedIsHeld, Presented!Next
<1>8. QED
  BY <1>3, <1>4, <1>5, <1>6, <1>7 DEF Next

\* The registry keeps the presence of each device as Presence says, for any number of
\* devices, threads and connections.
THEOREM ImplementsPresenceHolds == Spec => ImplementsPresence
<1>1. Init => ClosedIsHeld /\ ReplacedIsGone /\ \A d \in Device : Presented(d)!Init
  <2> SUFFICES ASSUME Init PROVE ClosedIsHeld /\ ReplacedIsGone /\ \A d \in Device : Presented(d)!Init
    OBVIOUS
  <2>1. hash = {} /\ (\A t \in Thread : pc[t] = "idle") /\ (\A d \in Device : online[d] = FALSE)
        /\ \A n \in Node : ~Live(n)
    BY DEF Init, Live
  <2>2. ASSUME NEW d \in Device PROVE Presented(d)!Init
    <3>1. Entries(d) = {} /\ Recording(d) = {}
      BY <2>1 DEF Entries, Recording
    <3>2. Holder(d) = {}
      BY <3>1 DEF Holder
    <3>3. QED
      BY <2>1, <3>1, <3>2 DEF Presented!Init
  <2>3. QED
    BY <2>1, <2>2 DEF ClosedIsHeld, ReplacedIsGone
<1>2. Inv /\ ReplacedIsGone /\ [Next /\ UNCHANGED setup]_<<vars, setup>> => ReplacedIsGone'
  <2>1. ASSUME ReplacedIsGone, UNCHANGED <<vars, setup>> PROVE ReplacedIsGone'
    BY <2>1 DEF ReplacedIsGone, Live, vars
  <2>2. QED
    BY <2>1, ReplacedStep
<1>3. Inv /\ ClosedIsHeld /\ ReplacedIsGone /\ [Next /\ UNCHANGED setup]_<<vars, setup>>
        => ClosedIsHeld' /\ [\A d \in Device : [Presented(d)!Next]_(Presented(d)!vars)]_vars
  BY StepPresents
<1>4. QED
  BY <1>1, <1>2, <1>3, InvHolds, PTL DEF Spec, ImplementsPresence

\* What this says of a device, which may be any.
CONSTANT SomeDevice

Shown == INSTANCE PresenceProofs WITH
    Connection <- Node, may <- setup.may \cap {"slow", "db"},
    holder <- Holder(SomeDevice), busy <- {cur[t] : t \in Recording(SomeDevice)},
    closing <- \E n \in Entries(SomeDevice) : node[n].fd = 0,
    reported <- \E n \in Holder(SomeDevice) : ~node[n].add_online_log,
    online <- online[SomeDevice]

\* The device's presence is an implementation of Presence.
LEMMA ShownIsPresence ==
    ASSUME SomeDevice \in Device
    PROVE  Spec => Shown!Spec
<1>1. (\A d \in Device : Presented(d)!Init) => Shown!Init
  BY DEF Presented!Init, Shown!Init
<1>2. [\A d \in Device : [Presented(d)!Next]_(Presented(d)!vars)]_vars /\ setup' = setup
        => [Shown!Next]_(Shown!vars)
  <2> SUFFICES ASSUME setup' = setup,
                      [\A d \in Device : [Presented(d)!Next]_(Presented(d)!vars)]_vars
               PROVE  [Shown!Next]_(Shown!vars)
    OBVIOUS
  <2>1. CASE UNCHANGED vars
    BY <2>1 DEF vars, threads, Shown!vars, Entries, Holder, Recording
  <2>2. CASE [Presented(SomeDevice)!Next]_(Presented(SomeDevice)!vars)
    BY <2>2 DEF Presented!Next, Presented!vars, Presented!Claim, Presented!Read, Presented!Record,
         Presented!Close, Presented!PutOffline, Presented!Restart,
         Shown!Next, Shown!vars, Shown!Claim, Shown!Read, Shown!Record,
         Shown!Close, Shown!PutOffline, Shown!Restart
  <2>3. QED
    BY <2>1, <2>2
<1>3. [Next /\ UNCHANGED setup]_<<vars, setup>> => setup' = setup
  OBVIOUS
<1>4. QED
  BY <1>1, <1>2, <1>3, ImplementsPresenceHolds, PTL DEF Spec, ImplementsPresence, Shown!Spec

\* Hence whoever is shown online has a node that will show them offline, if no thread is
\* late and the database answers; and nobody is shown offline who is connected.
THEOREM DeviceIsTended ==
    ASSUME SomeDevice \in Device
    PROVE  Spec => []Shown!RowAgrees /\ Shown!OfflineWithoutHolder
<1>1. Shown!Spec => []Shown!RowAgrees
  BY Shown!RowAgreesHolds
<1>2. Shown!Spec => Shown!OfflineWithoutHolder
  BY Shown!OfflineWithoutHolderHolds
<1>3. QED
  BY <1>1, <1>2, ShownIsPresence, PTL

=============================================================================
