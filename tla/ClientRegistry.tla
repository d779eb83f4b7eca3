---------------------------- MODULE ClientRegistry ----------------------------
(***************************************************************************)
(* What cnm_server knows of its connections: a node for each descriptor,   *)
(* owned by the data_handle_thread the descriptor falls to, the hash of    *)
(* the nodes by serial, and the row's device_ip, which says whether the    *)
(* device is online.  A device connects again before the end of its last   *)
(* connection has been noticed, descriptors are reused while events for    *)
(* their last connection wait, and three mutexes are taken by the threads  *)
(* in different orders.                                                    *)
(*                                                                         *)
(* A thread's descriptor mutex is held while it deletes a node; only the   *)
(* thread that accepts connections asks for it besides.                    *)
(***************************************************************************)
EXTENDS Naturals, FiniteSets

CONSTANTS
    Device,      \* serials
    None,        \* no serial, the empty string
    ThreadNum,   \* CNM_DATA_HANDLE_THREAD_NUM
    MaxFd,       \* bound: descriptors the kernel gives, 1..MaxFd
    MaxNode,     \* bound: nodes in memory at the same time
    MaxFdNum,    \* CNM_DATA_HANDLE_MAX_FD_NUM, nodes of one thread
    Setups       \* the behaviours that are considered, see below

\* A setup says which devices there are, how often something fails, and what may happen:
\* "lost": connections end and the server is not told
\* "retire": devices are switched off for good
\* "restart": the server ends and is started again
\* "pass": CfgUpdateTimer or UpdatePreview find something to push
\* "slow": a thread has read a heartbeat and has not recorded it when the device's
\* next connection has got its serial
\* "db": the database cannot be reached
Happenings == {"lost", "retire", "restart", "pass", "slow", "db"}

ASSUME NoneIsNoDevice == None \notin Device
ASSUME SetupsAreKnown == Setups \subseteq [devs : SUBSET Device, fails : Nat, may : SUBSET Happenings]
ASSUME BoundsAreNat == MaxFd \in Nat /\ MaxNode \in Nat /\ MaxFdNum \in Nat
ASSUME ThreadNumAssumption == ThreadNum \in Nat \ {0}

VARIABLES
    setup,    \* the behaviour's setup; it never changes
    left,     \* how many failures are still to come
    retired,  \* devices that were switched off
    link,     \* per device: the descriptor its connection has at the server, 0 for none
    sock,     \* per descriptor: what the kernel knows of its connection
    node,     \* the nodes in memory
    hash,     \* g_cnm_client_key_hash: the nodes that are found by serial
    pc,       \* per thread: what it is about to do
    cur,      \* per thread: the node it works on, 0 for none
    events,   \* per thread: the events it has still to handle
    key,      \* the thread that holds g_cnm_key_hash_mutex to put a device offline
    pushing,  \* CfgUpdateTimer or UpdatePreview hold the database mutex
    online    \* per device: device_ip is not 0

outside == <<left, retired>>
threads == <<pc, cur, events>>
vars == <<outside, link, sock, node, hash, threads, key, pushing, online>>

-----------------------------------------------------------------------------
May(what) == what \in setup.may

Thread == 0..ThreadNum - 1
Fd == 1..MaxFd
Node == 1..MaxNode
Free == ThreadNum    \* the holder of a mutex nobody holds

NoSock == [dev |-> None, st |-> "free", unread |-> FALSE]
NoNode == [fd |-> 0, thread |-> 0, serial |-> None, no_update_db |-> TRUE, add_online_log |-> FALSE]

\* ((fd & mask) % CNM_DATA_HANDLE_THREAD_NUM)
Owner(f) == f % ThreadNum

\* (mutant) the bucket of the hash is taken for the thread
FreshNodeOfBucket(f) ==
    [fd |-> f, thread |-> f, serial |-> None, no_update_db |-> FALSE, add_online_log |-> TRUE]

\* malloc and memset of an accepted connection
FreshNode(f) ==
    [fd |-> f, thread |-> Owner(f), serial |-> None, no_update_db |-> FALSE, add_online_log |-> TRUE]

Init ==
    /\ setup \in Setups
    /\ left = setup.fails /\ retired = Device \ setup.devs
    /\ link = [d \in Device |-> 0] /\ sock = [f \in Fd |-> NoSock]
    /\ node = [n \in Node |-> NoNode] /\ hash = {}
    /\ pc = [t \in Thread |-> "idle"] /\ cur = [t \in Thread |-> 0]
    /\ events = [t \in Thread |-> {}]
    /\ key = Free /\ pushing = FALSE
    /\ online = [d \in Device |-> FALSE]

Live(n) == node[n] # NoNode
Of(t) == {n \in Node : Live(n) /\ node[n].thread = t}

\* cnm_client_get_by_fd: a closed node has the descriptor -1, here 0
ByFd(t, f) == {n \in Of(t) : node[n].fd = f}

\* _cnm_client_get_by_key
ByKey(d) == {n \in hash : node[n].serial = d}

\* the descriptors fs are closed; their devices see it
Close(fs) ==
    /\ sock' = [f \in Fd |-> IF f \in fs THEN NoSock ELSE sock[f]]
    /\ link' = [d \in Device |-> IF link[d] \in fs THEN 0 ELSE link[d]]

-----------------------------------------------------------------------------
(* Devices, and what befalls them.                                          *)

OthersLeave == UNCHANGED <<threads, key, pushing, online>>

\* cnm_recv_socket accepts: the kernel gives the lowest free descriptor, and the node
\* is not added while its thread deletes one, nor to a thread that has too many
Connect(d) ==
    /\ link[d] = 0 /\ d \notin retired
    /\ \E f \in Fd, n \in Node :
          /\ sock[f] = NoSock /\ \A g \in Fd : sock[g] = NoSock => f <= g
          /\ ~Live(n) /\ \A m \in Node : ~Live(m) => n <= m
          /\ pc[Owner(f)] # "offline" /\ Cardinality(Of(Owner(f))) < MaxFdNum
          /\ link' = [link EXCEPT ![d] = f]
          /\ sock' = [sock EXCEPT ![f] = [dev |-> d, st |-> "open", unread |-> FALSE]]
          /\ node' = [node EXCEPT ![n] = FreshNode(f)]
    /\ UNCHANGED <<outside, hash>> /\ OthersLeave

\* a heartbeat (bound: when the server has read the last one)
Beat(d) ==
    /\ link[d] # 0 /\ ~sock[link[d]].unread
    /\ sock' = [sock EXCEPT ![link[d]].unread = TRUE]
    /\ UNCHANGED <<outside, link, node, hash>> /\ OthersLeave

\* the device's end of its connection is no more
End(d, st) ==
    /\ sock' = [sock EXCEPT ![link[d]].st = st]
    /\ link' = [link EXCEPT ![d] = 0]

Drop(d) ==
    /\ left > 0 /\ link[d] # 0
    /\ left' = left - 1
    /\ End(d, "gone") \/ (May("lost") /\ End(d, "lost"))
    /\ UNCHANGED <<retired, node, hash>> /\ OthersLeave

Retire(d) ==
    /\ May("retire") /\ d \notin retired
    /\ retired' = retired \union {d}
    /\ \/ link[d] = 0 /\ UNCHANGED <<sock, link>>
       \/ link[d] # 0 /\ (End(d, "gone") \/ (May("lost") /\ End(d, "lost")))
    /\ UNCHANGED <<left, node, hash>> /\ OthersLeave

-----------------------------------------------------------------------------
(* data_handle_thread.                                                      *)

Go(t, p, n) == pc' = [pc EXCEPT ![t] = p] /\ cur' = [cur EXCEPT ![t] = n]

\* the top of the loop: the thread is done with its last events
AtTop(t) == pc[t] = "idle" /\ events[t] = {}

ThreadsLeave == UNCHANGED <<outside, pushing>>

\* (mutant) the time of the last message is not looked at
ExpiredClosed(n) == node[n].fd = 0

\* a node that was closed, or whose device has not been heard of for 300 seconds
Expired(n) == node[n].fd = 0 \/ sock[node[n].fd].st = "lost"

Expire(t) ==
    /\ AtTop(t)
    /\ \E n \in {m \in Of(t) : Expired(m)} : Go(t, "close", n)
    /\ UNCHANGED <<link, sock, node, hash, events, key, online>> /\ ThreadsLeave

\* the descriptors with something to read, or an end that may come as EPOLLHUP
Ready(t) == {f \in Fd : Owner(f) = t /\ (sock[f].unread \/ sock[f].st = "gone")}

epoll_wait(t) ==
    /\ AtTop(t) /\ Ready(t) # {}
    /\ \E hup \in SUBSET {f \in Ready(t) : sock[f].st = "gone"} :
          events' = [events EXCEPT ![t] = {[fd |-> f, hup |-> f \in hup] : f \in Ready(t)}]
    /\ UNCHANGED <<link, sock, node, hash, pc, cur, key, online>> /\ ThreadsLeave

\* the connection that has the descriptor now is read, whatever the event was for; recv
\* waits for a message, and for the end of a lost connection 120 seconds
Receive(t, n) ==
    LET f == node[n].fd IN
    \/ /\ sock[f].unread
       /\ sock' = [sock EXCEPT ![f].unread = FALSE]
       /\ \/ Go(t, IF node[n].serial = None THEN "register" ELSE "update", n)
          \/ sock[f].st = "gone" /\ Go(t, "close", n)
    \/ /\ ~sock[f].unread /\ sock[f].st # "open"
       /\ Go(t, "close", n) /\ UNCHANGED sock

HandleEvent(t) ==
    /\ pc[t] = "idle"
    /\ \E e \in events[t] :
          /\ events' = [events EXCEPT ![t] = @ \ {e}]
          /\ \/ ByFd(t, e.fd) = {} /\ UNCHANGED <<sock, pc, cur>>
             \/ \E n \in ByFd(t, e.fd) :
                   IF e.hup THEN Go(t, "close", n) /\ UNCHANGED sock ELSE Receive(t, n)
    /\ UNCHANGED <<link, node, hash, key, online>> /\ ThreadsLeave

\* a heartbeat of this device has been read and is not recorded yet
BeingRecorded(d) == \E t \in Thread : pc[t] = "update" /\ node[cur[t]].serial = d

\* handle_client_update_key of a node without serial: the node that had the serial is
\* closed and taken from the hash; its own thread will delete it.  Node m becomes
\* after[m], where m is the replaced one.
EnterHash(t, after) ==
    LET n == cur[t]
        d == sock[node[n].fd].dev IN
    /\ pc[t] = "register" /\ key = Free
    /\ May("slow") \/ ~BeingRecorded(d)
    /\ hash' = (hash \ ByKey(d)) \union {n}
    /\ Close({node[m].fd : m \in ByKey(d)})
    /\ node' = [m \in Node |-> IF m = n THEN [node[m] EXCEPT !.serial = d]
                               ELSE IF m \in ByKey(d) THEN after[m] ELSE node[m]]
    /\ Go(t, "update", n)
    /\ UNCHANGED <<events, key, online>> /\ ThreadsLeave

Replaced(m) == [node[m] EXCEPT !.fd = 0, !.no_update_db = TRUE]

\* (mutant) the replaced node is freed at once
RegisterFreeing(t) == EnterHash(t, [m \in Node |-> NoNode])

\* (mutant) the replaced node still puts its device offline
RegisterUnmarked(t) == EnterHash(t, [m \in Node |-> [node[m] EXCEPT !.fd = 0]])

\* (mutant) the replaced node keeps the number of the descriptor that was closed
RegisterOpen(t) == EnterHash(t, [m \in Node |-> [node[m] EXCEPT !.no_update_db = TRUE]])

handle_client_update_key(t) == EnterHash(t, [m \in Node |-> Replaced(m)])

\* the statement after the mutex, or no database
Recorded(t) ==
    LET n == cur[t] IN
    \/ /\ online' = [online EXCEPT ![node[n].serial] = TRUE]
       /\ node' = [node EXCEPT ![n].add_online_log = FALSE]
    \/ May("db") /\ UNCHANGED <<online, node>>

UpdateDevice(t) ==
    /\ pc[t] = "update" /\ ~pushing
    /\ Recorded(t) /\ Go(t, "idle", 0)
    /\ UNCHANGED <<link, sock, hash, events, key>> /\ ThreadsLeave

\* list_del from both lists, and free
Unlink(n) == hash' = hash \ {n} /\ node' = [node EXCEPT ![n] = NoNode]

\* _cnm_client_del takes the key mutex, closes the descriptor, and puts the device
\* offline first unless the node was replaced or has no serial
_cnm_client_del(t) ==
    LET n == cur[t] IN
    /\ pc[t] = "close" /\ key = Free
    /\ Close({node[n].fd})
    /\ IF ~node[n].no_update_db /\ node[n].serial # None
       THEN /\ node' = [node EXCEPT ![n].fd = 0]
            /\ key' = t /\ Go(t, "offline", n) /\ UNCHANGED hash
       ELSE Unlink(n) /\ Go(t, "idle", 0) /\ UNCHANGED key
    /\ UNCHANGED <<events, online>> /\ ThreadsLeave

\* (mutant) an error of the database returns without giving the key mutex back
OfflineLocked(t) ==
    LET n == cur[t] IN
    /\ pc[t] = "offline" /\ ~pushing
    /\ \/ online' = [online EXCEPT ![node[n].serial] = FALSE] /\ key' = Free
       \/ May("db") /\ UNCHANGED <<online, key>>
    /\ Unlink(n) /\ Go(t, "idle", 0)
    /\ UNCHANGED <<link, sock, events>> /\ ThreadsLeave

\* SetDeviceOffline, with the key mutex held until the node is gone
SetDeviceOffline(t) ==
    LET n == cur[t] IN
    /\ pc[t] = "offline" /\ ~pushing
    /\ \/ online' = [online EXCEPT ![node[n].serial] = FALSE]
       \/ May("db") /\ UNCHANGED online
    /\ Unlink(n) /\ key' = Free /\ Go(t, "idle", 0)
    /\ UNCHANGED <<link, sock, events>> /\ ThreadsLeave

-----------------------------------------------------------------------------
(* CfgUpdateTimer and UpdatePreview, and the process.                       *)

PushersLeave == UNCHANGED <<outside, link, sock, node, hash, threads, key, online>>

CfgUpdateTimer == May("pass") /\ ~pushing /\ pushing' = TRUE /\ PushersLeave

\* cnm_client_update_*_seq of the last row takes the key mutex while the database's is held
cnm_client_update_seq == pushing /\ key = Free /\ pushing' = FALSE /\ PushersLeave

\* InitDevice says that all devices are offline
Restart ==
    /\ May("restart") /\ left > 0
    /\ left' = left - 1
    /\ link' = [d \in Device |-> 0] /\ sock' = [f \in Fd |-> NoSock]
    /\ node' = [n \in Node |-> NoNode] /\ hash' = {}
    /\ pc' = [t \in Thread |-> "idle"] /\ cur' = [t \in Thread |-> 0]
    /\ events' = [t \in Thread |-> {}]
    /\ key' = Free /\ pushing' = FALSE
    /\ online' = [d \in Device |-> FALSE]
    /\ UNCHANGED retired

-----------------------------------------------------------------------------
Devices == \E d \in Device : Connect(d) \/ Beat(d) \/ Drop(d) \/ Retire(d)

data_handle_thread(t) ==
    \/ Expire(t) \/ epoll_wait(t) \/ HandleEvent(t)
    \/ handle_client_update_key(t) \/ UpdateDevice(t)
    \/ _cnm_client_del(t) \/ SetDeviceOffline(t)

Next ==
    \/ Devices \/ \E t \in Thread : data_handle_thread(t)
    \/ CfgUpdateTimer \/ cnm_client_update_seq \/ Restart

Spec == Init /\ [][Next /\ UNCHANGED setup]_<<vars, setup>>

(* Devices connect again and send heartbeats, threads take their next step; a *)
(* mutex that is free again and again is obtained.                            *)
Fairness ==
    /\ \A d \in Device : SF_vars(Connect(d)) /\ WF_vars(Beat(d))
    /\ \A t \in Thread : SF_vars(Expire(t)) /\ SF_vars(data_handle_thread(t))
    /\ SF_vars(cnm_client_update_seq)

FairSpec == Spec /\ Fairness

-----------------------------------------------------------------------------
(* Properties                                                               *)

NodeType ==
    [fd : 0..MaxFd, thread : Thread, serial : Device \union {None},
     no_update_db : BOOLEAN, add_online_log : BOOLEAN]

\* Every variable keeps its shape.
TypeOK ==
    /\ left \in Nat /\ retired \subseteq Device
    /\ link \in [Device -> 0..MaxFd]
    /\ sock \in [Fd -> [dev : Device \union {None}, st : {"free", "open", "gone", "lost"}, unread : BOOLEAN]]
    /\ node \in [Node -> NodeType] /\ hash \subseteq Node
    /\ pc \in [Thread -> {"idle", "register", "update", "close", "offline"}]
    /\ cur \in [Thread -> 0..MaxNode]
    /\ events \in [Thread -> SUBSET [fd : Fd, hup : BOOLEAN]]
    /\ key \in Thread \union {Free} /\ pushing \in BOOLEAN
    /\ online \in [Device -> BOOLEAN]

\* No thread works on a node that was freed, and none is found by its serial: a node
\* is freed by the thread it belongs to, whoever closes its connection.
NothingDangles ==
    /\ \A t \in Thread : pc[t] # "idle" => cur[t] \in Of(t)
    /\ \A n \in hash : Live(n) /\ node[n].serial # None

\* The hashes tell the connections apart: a serial has one node, an open descriptor is
\* the descriptor of one node, and a node that is not closed has an open descriptor of
\* the device whose serial it has, also when it was reused.
HashesAgree ==
    /\ \A m, n \in hash : node[m].serial = node[n].serial => m = n
    /\ \A f \in Fd : sock[f] # NoSock => Cardinality(ByFd(Owner(f), f)) = 1
    /\ \A n \in Node : Live(n) /\ node[n].fd # 0 =>
          /\ sock[node[n].fd] # NoSock
          /\ node[n].serial # None => node[n].serial = sock[node[n].fd].dev /\ n \in hash

\* A device that has reported over its present connection is shown online, however
\* late the threads of its earlier connections are with deleting them.
ConnectedIsOnline ==
    \A n \in hash : node[n].fd # 0 /\ ~node[n].add_online_log => online[node[n].serial]

\* The key mutex is always given back, with one exception: a thread that deletes a node
\* waits with it for the database mutex, whose holder waits for the key mutex.
KeyIsReleased ==
    \A t \in Thread : key = t ~> (key # t \/ (pc[t] = "offline" /\ pushing))

Happens(what) == setup.may \subseteq what

\* When connections have stopped failing, the devices that are switched on are shown
\* online for good, and the others offline unless a heartbeat was recorded late:
\* events for a descriptor that was reused, and connections that replace each other,
\* do not go on disturbing devices for ever.
PresenceSettles ==
    /\ Happens({"lost", "retire", "restart", "slow"}) => <>[](\A d \in Device \ retired : online[d])
    /\ Happens({"lost", "retire", "restart"}) => <>[](\A d \in retired : ~online[d])

\* what the hash and the threads have of device d
Entries(d) == {n \in hash : node[n].serial = d}
Holder(d) == {n \in Entries(d) : node[n].fd # 0}
Recording(d) == {t \in Thread : pc[t] = "update" /\ node[cur[t]].serial = d}

Presented(d) == INSTANCE Presence WITH
    Connection <- Node, may <- setup.may \cap {"slow", "db"},
    holder <- Holder(d), busy <- {cur[t] : t \in Recording(d)},
    closing <- \E n \in Entries(d) : node[n].fd = 0,
    reported <- \E n \in Holder(d) : ~node[n].add_online_log,
    online <- online[d]

\* The presence of each device is kept as Presence says: a thread that is late with the
\* end of a connection, or with a message, never speaks for the one that came after it.
ImplementsPresence ==
    /\ \A d \in Device : Presented(d)!Init
    /\ [][\A d \in Device : [Presented(d)!Next]_(Presented(d)!vars)]_vars

=============================================================================
