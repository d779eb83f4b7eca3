------------------------------ MODULE ValueSync ------------------------------
(***************************************************************************)
(* How a setting that travels inside a message (the upload rate `bwlimit`  *)
(* and the daily quota `upload_limit_day`) gets from the web page to one   *)
(* device, and how the server comes to believe that it got there.          *)
(*                                                                         *)
(*   web page --(row)--> CfgUpdateTimer --(node)--> data_handle_thread     *)
(*            --(down)--> cnm_client --(up: ack)--> set_recv_data --(row)  *)
(*                                                                         *)
(* Devices do not share rows, nodes or connections, so one device is       *)
(* modelled; it may use several connections one after the other, and the   *)
(* server may still hold the older ones.                                   *)
(***************************************************************************)
EXTENDS Naturals, Sequences

CONSTANTS
    Item,          \* the settings that travel by value
    Value,         \* the values an administrator can give a setting
    Unset,         \* what a cnm_client process starts with: no limit
    Admin,         \* web requests that can be in progress at the same time
    Conn,          \* bound: the connections either end still holds
    NoConn,        \* cent_sockfd = -1
    MaxSeq,        \* bound: a setting is edited until its sequence number is MaxSeq
    MaxQueue,      \* bound: messages a socket buffer holds
    FaultSets      \* the sets of faults a behaviour can have

ASSUME ItemIsNotEmpty == Item # {}
ASSUME UnsetIsValue == Unset \in Value
ASSUME NoConnIsNoConn == NoConn \notin Conn
ASSUME BoundsAreNat == MaxSeq \in Nat /\ MaxQueue \in Nat

\* "torn": a send falls between the two stores of one node update
\* "db": a database call of the server fails
\* "outage": links end, nodes expire and the two programs restart
\* "crowd": a web request begins while another one has the device's row
ASSUME FaultsAreKnown == FaultSets \subseteq SUBSET {"torn", "db", "outage", "crowd"}

VARIABLES
    faults, \* what can go wrong in this behaviour; it never changes
    row,   \* the device's row: sync and synced sequence numbers and the value
    adm,   \* what each web request has read from the row
    cfg,   \* the pass of CfgUpdateTimer, which holds the database lock
    st,    \* server: what it knows of each connection
    node,  \* server: the synchronisation fields of each connection's node
    work,  \* server: what is left of the message a connection's thread has taken
    down,  \* bytes from the server to the device
    up,    \* bytes from the device to the server
    link,  \* device: the connection in cent_sockfd
    dev,   \* device: the settings in force
    conf   \* device: cnm_conf_init_success

vars == <<row, adm, cfg, st, node, work, down, up, link, dev, conf>>

-----------------------------------------------------------------------------
Seqs == 0..MaxSeq
Row == [sync : Seqs, synced : Seqs, val : Value]
Seen == [sync : Seqs, val : Value]
NodeItem == [sync : Seqs, synced : Seqs, timeout : {"zero", "wait", "over"}, val : Value]
DownMsg == [type : {"notify"}, item : Item, val : Value]
               \cup [type : {"conf"}, vals : [Item -> Value]]
NoWork == [type |-> "none"]
Work == {NoWork} \cup [type : {"ack"}, item : Item, seq : Seqs]
                \cup [type : {"conf"}, vals : [Item -> Value]]
UpMsg == [type : {"beat", "conf_request"}] \cup [type : {"ack"}, item : Item]

\* (mutant) malloc without memset
FreshNodeUncleared == [i \in Item |-> [sync |-> 0, synced |-> MaxSeq + 1, timeout |-> "zero", val |-> Unset]]

\* malloc and memset of a new node
FreshNode == [i \in Item |-> [sync |-> 0, synced |-> 0, timeout |-> "zero", val |-> Unset]]

\* what an idle web request and an idle timer hold: nothing that is used
Unread == [i \in Item |-> [sync |-> 0, val |-> Unset]]
BlankCfg == [pc |-> "idle", todo |-> {}, item |-> CHOOSE i \in Item : TRUE,
             sync |-> 0, val |-> Unset]

\* a row as devAddHandle inserts it: one setting starts unsynchronised, one does not
Init ==
    /\ faults \in FaultSets
    /\ row \in [Item -> [sync : {0, 1} \cap Seqs, synced : {0}, val : Value]]
    /\ adm = [a \in Admin |-> [pc |-> "idle", seen |-> Unread]]
    /\ cfg = BlankCfg
    /\ st = [c \in Conn |-> "none"]
    /\ node = [c \in Conn |-> FreshNode]
    /\ work = [c \in Conn |-> NoWork]
    /\ down = [c \in Conn |-> <<>>]
    /\ up = [c \in Conn |-> <<>>]
    /\ link = NoConn
    /\ dev = [i \in Item |-> Unset]
    /\ conf = FALSE

-----------------------------------------------------------------------------
(* The web page.  devEditHandle reads the row, then writes the values that  *)
(* differ, each with the sequence number it READ plus one.                  *)

EditRead(a) ==
    /\ adm[a].pc = "idle"
    /\ "crowd" \in faults \/ \A b \in Admin : adm[b].pc = "idle"
    /\ adm' = [adm EXCEPT ![a] =
          [pc |-> "read", seen |-> [i \in Item |-> [sync |-> row[i].sync, val |-> row[i].val]]]]
    /\ UNCHANGED <<row, cfg, st, node, work, down, up, link, dev, conf>>

\* (mutant) the value is saved without a new sequence number
EditedSameSeq(a, new, i) == [row[i] EXCEPT !.val = new[i]]

Edited(a, new, i) ==
    IF new[i] # adm[a].seen[i].val
    THEN [row[i] EXCEPT !.sync = adm[a].seen[i].sync + 1, !.val = new[i]]
    ELSE row[i]

EditTo(a, new) ==
    /\ \A i \in Item : new[i] # adm[a].seen[i].val => adm[a].seen[i].sync < MaxSeq
    /\ row' = [i \in Item |-> Edited(a, new, i)]

EditSave(a) ==
    /\ adm[a].pc = "read"
    /\ \E new \in [Item -> Value] : EditTo(a, new)
    /\ adm' = [adm EXCEPT ![a] = [pc |-> "idle", seen |-> Unread]]
    /\ UNCHANGED <<cfg, st, node, work, down, up, link, dev, conf>>

-----------------------------------------------------------------------------
(* The server's main thread: CfgUpdateTimer holds the database lock from    *)
(* the first SELECT to the last node update.                                *)

DbFree == cfg.pc = "idle"

\* g_cnm_key_hash_mutex: held around the two stores of one node update
KeyFree == cfg.pc # "val"

Keyed == {c \in Conn : st[c] = "keyed"}

CfgUpdateTimer ==
    /\ DbFree
    /\ cfg' = [cfg EXCEPT !.pc = "select", !.todo = Item]
    /\ UNCHANGED <<row, adm, st, node, work, down, up, link, dev, conf>>

\* the SELECT ... WHERE sync_seq != synced_seq of one setting
CfgSelect(i) ==
    /\ cfg.pc = "select" /\ i \in cfg.todo
    /\ cfg' = IF row[i].sync = row[i].synced
              THEN [cfg EXCEPT !.todo = @ \ {i}]
              ELSE [pc |-> "seq", todo |-> cfg.todo \ {i}, item |-> i,
                    sync |-> row[i].sync, val |-> row[i].val]
    /\ UNCHANGED <<row, adm, st, node, work, down, up, link, dev, conf>>

CfgEnd ==
    /\ cfg.pc = "select" /\ cfg.todo = {}
    /\ cfg' = BlankCfg
    /\ UNCHANGED <<row, adm, st, node, work, down, up, link, dev, conf>>

\* cnm_client_update_bwlimit_seq stores the sequence number, then the value;
\* the sending thread does not take the mutex it holds
cnm_client_update_seq ==
    /\ cfg.pc = "seq"
    /\ cfg' = [cfg EXCEPT !.pc = IF Keyed = {} THEN "select" ELSE "val"]
    /\ node' = [c \in Conn |-> IF c \in Keyed
                               THEN [node[c] EXCEPT ![cfg.item].sync = cfg.sync]
                               ELSE node[c]]
    /\ UNCHANGED <<row, adm, st, work, down, up, link, dev, conf>>

cnm_client_update_val ==
    /\ cfg.pc = "val"
    /\ cfg' = [cfg EXCEPT !.pc = "select"]
    /\ node' = [c \in Conn |-> IF c \in Keyed
                               THEN [node[c] EXCEPT ![cfg.item].val = cfg.val]
                               ELSE node[c]]
    /\ UNCHANGED <<row, adm, st, work, down, up, link, dev, conf>>

-----------------------------------------------------------------------------
(* The server's data_handle_thread.                                         *)

\* send() with MSG_DONTWAIT: refused when the buffer is full, lost when the
\* device has left the connection
Post(c, m) ==
    /\ Len(down[c]) < MaxQueue
    /\ down' = IF c = link THEN [down EXCEPT ![c] = Append(@, m)] ELSE down

\* (mutant) the number is claimed although the full buffer refused the message
send_value_to_clientUnsent(c, i) ==
    /\ st[c] = "keyed" /\ work[c] = NoWork
    /\ node[c][i].timeout # "wait"
    /\ node[c][i].sync # node[c][i].synced \/ node[c][i].timeout # "zero"
    /\ "torn" \in faults \/ KeyFree
    /\ \/ Post(c, [type |-> "notify", item |-> i, val |-> node[c][i].val])
       \/ Len(down[c]) >= MaxQueue /\ UNCHANGED down
    /\ node' = [node EXCEPT ![c][i].timeout = "wait", ![c][i].synced = node[c][i].sync]
    /\ UNCHANGED <<row, adm, cfg, st, work, up, link, dev, conf>>

\* send_bwlimit_to_client and send_upload_limit_day_to_client: wait while the
\* 60 seconds run, send what is not synchronised or not acknowledged in time,
\* and claim the sequence number before the device has answered
send_value_to_client(c, i) ==
    /\ st[c] = "keyed" /\ work[c] = NoWork
    /\ node[c][i].timeout # "wait"
    /\ node[c][i].sync # node[c][i].synced \/ node[c][i].timeout # "zero"
    /\ "torn" \in faults \/ KeyFree
    /\ Post(c, [type |-> "notify", item |-> i, val |-> node[c][i].val])
    /\ node' = [node EXCEPT ![c][i].timeout = "wait", ![c][i].synced = node[c][i].sync]
    /\ UNCHANGED <<row, adm, cfg, st, work, up, link, dev, conf>>

\* difftime(now, bwlimit_sync_timeout) reaches 60
SyncTimeout(c, i) ==
    /\ st[c] = "keyed" /\ node[c][i].timeout = "wait"
    /\ node' = [node EXCEPT ![c][i].timeout = "over"]
    /\ UNCHANGED <<row, adm, cfg, st, work, down, up, link, dev, conf>>

\* (mutant) the node that had the serial stays
TakeBoth(c, n, w) ==
    /\ st[c] # "none" /\ up[c] # <<>> /\ work[c] = NoWork
    /\ st[c] = "anon" => KeyFree
    /\ st' = [st EXCEPT ![c] = "keyed"]
    /\ up' = [up EXCEPT ![c] = Tail(@)]
    /\ node' = [node EXCEPT ![c] = n]
    /\ work' = [work EXCEPT ![c] = w]

\* data_handle_thread takes the next message of c, leaves c's node as n and has
\* w left to do; handle_client_update_key: the first message gives the node its
\* serial and closes the node that had it, whose thread may still be at work
Take(c, n, w) ==
    /\ st[c] # "none" /\ up[c] # <<>> /\ work[c] = NoWork
    /\ st[c] = "anon" => KeyFree
    /\ LET Closed(d) == d # c /\ d \in Keyed
       IN /\ st' = [d \in Conn |-> IF d = c THEN "keyed" ELSE IF Closed(d) THEN "none" ELSE st[d]]
          /\ up' = [d \in Conn |-> IF d = c THEN Tail(up[c]) ELSE IF Closed(d) THEN <<>> ELSE up[d]]
          /\ node' = [d \in Conn |-> IF d = c THEN n ELSE IF Closed(d) THEN FreshNode ELSE node[d]]
    /\ work' = [work EXCEPT ![c] = w]

\* any message that only refreshes the node
RecvBeat(c) ==
    /\ Take(c, node[c], NoWork) /\ Head(up[c]).type = "beat"
    /\ UNCHANGED <<row, adm, cfg, down, link, dev, conf>>

\* (mutant) the number the row asked for is recorded, not the one last sent
RecvAckNewest(c) ==
    /\ up[c] # <<>> /\ Head(up[c]).type = "ack"
    /\ LET i == Head(up[c]).item
       IN Take(c, [node[c] EXCEPT ![i].timeout = "zero"],
               [type |-> "ack", item |-> i, seq |-> node[c][i].sync])
    /\ UNCHANGED <<row, adm, cfg, down, link, dev, conf>>

\* (mutant) an answer that comes after the 60 seconds is ignored
RecvAckInTime(c) ==
    /\ up[c] # <<>> /\ Head(up[c]).type = "ack"
    /\ LET i == Head(up[c]).item
       IN IF node[c][i].timeout = "wait"
          THEN Take(c, [node[c] EXCEPT ![i].timeout = "zero"],
                    [type |-> "ack", item |-> i, seq |-> node[c][i].synced])
          ELSE Take(c, node[c], NoWork)
    /\ UNCHANGED <<row, adm, cfg, down, link, dev, conf>>

\* CNM_BWLIMIT_SYNC_RESPONSE: the acknowledgement carries no sequence number;
\* whatever was sent last is going to be recorded
RecvAck(c) ==
    /\ up[c] # <<>> /\ Head(up[c]).type = "ack"
    /\ LET i == Head(up[c]).item
       IN Take(c, [node[c] EXCEPT ![i].timeout = "zero"],
               [type |-> "ack", item |-> i, seq |-> node[c][i].synced])
    /\ UNCHANGED <<row, adm, cfg, down, link, dev, conf>>

\* (mutant) the UPDATE records the number of the row, not that of the acknowledgement
UpdateSyncedSeqOfRow(c) ==
    /\ work[c].type = "ack" /\ DbFree
    /\ work' = [work EXCEPT ![c] = NoWork]
    /\ row' = [row EXCEPT ![work[c].item].synced = row[work[c].item].sync]
    /\ UNCHANGED <<adm, cfg, st, node, down, up, link, dev, conf>>

\* UpdateBwlimitSyncedSeq, once the thread has the database lock
UpdateSyncedSeq(c) ==
    /\ work[c].type = "ack" /\ DbFree
    /\ work' = [work EXCEPT ![c] = NoWork]
    /\ \/ row' = [row EXCEPT ![work[c].item].synced = work[c].seq]
       \/ "db" \in faults /\ UNCHANGED row
    /\ UNCHANGED <<adm, cfg, st, node, down, up, link, dev, conf>>

\* CNM_CONF_REQUSET: GetConfig reads the row as it is now
RecvConfRequest(c) ==
    /\ DbFree
    /\ \/ Take(c, node[c], [type |-> "conf", vals |-> [i \in Item |-> row[i].val]])
       \/ "db" \in faults /\ Take(c, node[c], NoWork)
    /\ Head(up[c]).type = "conf_request"
    /\ UNCHANGED <<row, adm, cfg, down, link, dev, conf>>

\* the rest of send_conf_response; a full buffer refuses the answer
send_conf_response(c) ==
    /\ work[c].type = "conf"
    /\ work' = [work EXCEPT ![c] = NoWork]
    /\ IF st[c] = "keyed" /\ Len(down[c]) < MaxQueue
       THEN Post(c, [type |-> "conf", vals |-> work[c].vals])
       ELSE UNCHANGED down
    /\ UNCHANGED <<row, adm, cfg, st, node, up, link, dev, conf>>

\* _cnm_client_del: end of file, an error, 300 silent seconds or a failed answer
_cnm_client_del(c) ==
    /\ "outage" \in faults /\ st[c] # "none" /\ work[c] = NoWork
    /\ DbFree
    /\ st' = [st EXCEPT ![c] = "none"]
    /\ up' = [up EXCEPT ![c] = <<>>]
    /\ node' = [node EXCEPT ![c] = FreshNode]
    /\ UNCHANGED <<row, adm, cfg, work, down, link, dev, conf>>

\* the server stops and starts: every node is lost, the rows stay
ServerRestart ==
    /\ "outage" \in faults
    /\ st' = [c \in Conn |-> "none"]
    /\ up' = [c \in Conn |-> <<>>]
    /\ cfg' = BlankCfg
    /\ node' = [c \in Conn |-> FreshNode]
    /\ work' = [c \in Conn |-> NoWork]
    /\ UNCHANGED <<row, adm, down, link, dev, conf>>

-----------------------------------------------------------------------------
(* The device: cnm_client.                                                  *)

\* client_recv_data connects; cnm_recv_socket accepts and adds a nameless node
Connect(c) ==
    /\ link = NoConn /\ st[c] = "none" /\ work[c] = NoWork
    /\ link' = c
    /\ st' = [st EXCEPT ![c] = "anon"]
    /\ UNCHANGED <<row, adm, cfg, node, work, down, up, dev, conf>>

\* bytes written to a connection the server has closed go nowhere
Write(m) ==
    /\ link # NoConn /\ Len(up[link]) < MaxQueue
    /\ up' = IF st[link] = "none" THEN up ELSE [up EXCEPT ![link] = Append(@, m)]

\* bound: the periodic messages are written when everything before them was read
Quiet == link # NoConn /\ up[link] = <<>>

\* client_timer_heardbeat
Heartbeat ==
    /\ Quiet
    /\ Write([type |-> "beat"])
    /\ UNCHANGED <<row, adm, cfg, st, node, work, down, link, dev, conf>>

send_conf_request_to_server ==
    /\ ~conf /\ Quiet
    /\ Write([type |-> "conf_request"])
    /\ UNCHANGED <<row, adm, cfg, st, node, work, down, link, dev, conf>>

RecvNotify ==
    /\ link # NoConn /\ down[link] # <<>>
    /\ LET m == Head(down[link])
       IN /\ m.type = "notify"
          /\ dev' = [dev EXCEPT ![m.item] = m.val]
          /\ Write([type |-> "ack", item |-> m.item])
    /\ down' = [down EXCEPT ![link] = Tail(@)]
    /\ UNCHANGED <<row, adm, cfg, st, node, work, link, conf>>

RecvConf ==
    /\ link # NoConn /\ down[link] # <<>>
    /\ LET m == Head(down[link])
       IN m.type = "conf" /\ dev' = m.vals
    /\ conf' = TRUE
    /\ down' = [down EXCEPT ![link] = Tail(@)]
    /\ UNCHANGED <<row, adm, cfg, st, node, work, up, link>>

\* the link ends; what the server has not read yet may be lost from the end,
\* what the device has not read is lost
Leave ==
    /\ "outage" \in faults /\ link # NoConn
    /\ \E n \in 0..Len(up[link]) : up' = [up EXCEPT ![link] = SubSeq(@, 1, n)]
    /\ down' = [down EXCEPT ![link] = <<>>]
    /\ link' = NoConn

LinkDown ==
    /\ Leave
    /\ UNCHANGED <<row, adm, cfg, st, node, work, dev, conf>>

\* recv returns 0 on a connection the server has closed
SeesEndOfFile == link # NoConn /\ st[link] = "none" /\ LinkDown

\* the process ends (update.sh, a crash, a power cut) and starts again
ClientRestart ==
    /\ Leave
    /\ dev' = [i \in Item |-> Unset]
    /\ conf' = FALSE
    /\ UNCHANGED <<row, adm, cfg, st, node, work>>

-----------------------------------------------------------------------------
Web == \E a \in Admin : EditRead(a) \/ EditSave(a)

Timer == \/ CfgUpdateTimer \/ CfgEnd \/ cnm_client_update_seq \/ cnm_client_update_val
         \/ \E i \in Item : CfgSelect(i)

Receive(c) == RecvBeat(c) \/ RecvAck(c) \/ RecvConfRequest(c)

Finish(c) == UpdateSyncedSeq(c) \/ send_conf_response(c)

Server == \/ \E c \in Conn : Receive(c) \/ Finish(c) \/ _cnm_client_del(c)
          \/ \E c \in Conn, i \in Item : send_value_to_client(c, i) \/ SyncTimeout(c, i)
          \/ ServerRestart

Device == \/ \E c \in Conn : Connect(c)
          \/ Heartbeat \/ send_conf_request_to_server
          \/ RecvNotify \/ RecvConf \/ LinkDown \/ ClientRestart

Next == Web \/ Timer \/ Server \/ Device

Spec == Init /\ [][Next /\ UNCHANGED faults]_<<vars, faults>>

(* Threads that loop for ever take their next step.  A thread waiting for a *)
(* mutex that is held for moments and for a buffer that drains gets it: its *)
(* steps are strongly fair.  Edits, lost links and restarts are not fair.   *)
Fairness ==
    /\ WF_vars(Timer)
    /\ \A a \in Admin : WF_vars(EditSave(a))
    /\ \A c \in Conn : /\ SF_vars(Receive(c)) /\ SF_vars(Finish(c)) /\ WF_vars(Connect(c))
                       /\ SF_vars(c # link /\ _cnm_client_del(c))
    /\ \A c \in Conn, i \in Item : /\ SF_vars(send_value_to_client(c, i))
                                   /\ WF_vars(SyncTimeout(c, i))
    /\ SF_vars(Heartbeat) /\ SF_vars(send_conf_request_to_server)
    /\ SF_vars(RecvNotify) /\ WF_vars(RecvConf) /\ WF_vars(SeesEndOfFile)

FairSpec == Spec /\ Fairness

-----------------------------------------------------------------------------
(* Properties                                                               *)

\* Every variable keeps its shape.
TypeOK ==
    /\ row \in [Item -> Row]
    /\ adm \in [Admin -> [pc : {"idle", "read"}, seen : [Item -> Seen]]]
    /\ cfg \in [pc : {"idle", "select", "seq", "val"}, todo : SUBSET Item,
                item : Item, sync : Seqs, val : Value]
    /\ st \in [Conn -> {"none", "anon", "keyed"}]
    /\ node \in [Conn -> [Item -> NodeItem]]
    /\ work \in [Conn -> Work]
    /\ down \in [Conn -> Seq(DownMsg)]
    /\ up \in [Conn -> Seq(UpMsg)]
    /\ link \in Conn \cup {NoConn}
    /\ dev \in [Item -> Value]
    /\ conf \in BOOLEAN

About(m, i) == IF m.type = "notify" THEN m.item = i ELSE TRUE

Carried(m, i) == IF m.type = "notify" THEN m.val ELSE m.vals[i]

\* what the device will run once it has read everything on its link is v
WillRun(i, v) ==
    \/ /\ dev[i] = v
       /\ \A k \in 1..Len(down[link]) : ~About(down[link][k], i)
    \/ \E k \in 1..Len(down[link]) :
          /\ About(down[link][k], i) /\ Carried(down[link][k], i) = v
          /\ \A j \in (k + 1)..Len(down[link]) : ~About(down[link][j], i)

\* no two web requests have the row at the same time.  The page does not see to it:
\* without it the second of two saves its value under the number of the first
EditsApart == "crowd" \notin faults

\* then nobody can edit between an administrator's read and write
EditsAreAlone ==
    \A a \in Admin : adm[a].pc = "read" =>
        /\ \A b \in Admin : adm[b].pc = "read" => a = b
        /\ \A i \in Item : adm[a].seen[i].sync = row[i].sync /\ adm[a].seen[i].val = row[i].val

\* what the timer carries is a version of the row that is not older than the
\* one recorded, and the newest number comes with the newest value
CfgIsVersion ==
    cfg.pc \in {"seq", "val"} =>
        LET r == row[cfg.item]
        IN /\ cfg.sync # 0 /\ r.synced <= cfg.sync /\ cfg.sync <= r.sync
           /\ cfg.sync = r.sync => cfg.val = r.val

\* the same of the node that carries the device's serial, but for the moment
\* between the two stores of the timer
NodeAgrees(c, i) ==
    LET n == node[c][i]
    IN /\ n.synced <= n.sync /\ n.sync <= row[i].sync
       /\ n.sync = 0 \/ row[i].synced <= n.sync
       /\ n.synced = 0 \/ row[i].synced <= n.synced
       /\ n.timeout # "zero" => n.synced # 0
       /\ work[c].type = "ack" /\ work[c].item = i => work[c].seq = n.synced /\ n.synced # 0
       /\ cfg.pc = "seq" /\ cfg.item = i => n.sync <= cfg.sync
       /\ IF cfg.pc = "val" /\ cfg.item = i
          THEN n.sync = cfg.sync
          ELSE n.sync = row[i].sync /\ n.sync # 0 => n.val = row[i].val

NodeIsVersion == \A c \in Keyed, i \in Item : NodeAgrees(c, i)

\* an acknowledgement that waits for the database answers something, and is not newer
\* than the row, the timer and the node that carries the serial, whichever connection it came by
WorkAgrees(d, i) ==
    work[d].type = "ack" /\ work[d].item = i =>
        /\ work[d].seq # 0 /\ work[d].seq <= row[i].sync
        /\ cfg.pc \in {"seq", "val"} /\ cfg.item = i => work[d].seq <= cfg.sync
        /\ \A c \in Keyed : /\ node[c][i].sync = 0 \/ work[d].seq <= node[c][i].sync
                            /\ node[c][i].synced = 0 \/ work[d].seq <= node[c][i].synced

WorkIsOld == \A d \in Conn, i \in Item : WorkAgrees(d, i)

\* a node without serial is as new, and a connection's queues hold a setting's
\* requests and acknowledgements only after its node has sent one
NothingBeforeSend ==
    /\ \A c \in Conn : c \notin Keyed => node[c] = FreshNode
    /\ \A c \in Conn : st[c] = "none" => up[c] = <<>>
    /\ \A c \in Conn : c # link => down[c] = <<>>
    /\ \A c \in Conn, i \in Item :
          st[c] # "none" /\ node[c][i].synced = 0 =>
              /\ \A k \in 1..Len(down[c]) : down[c][k].type = "notify" => down[c][k].item # i
              /\ \A k \in 1..Len(up[c]) : up[c][k].type = "ack" => up[c][k].item # i

\* The database, the timer, the node and the two queues agree on the versions
\* they carry (the inductive invariant of the proofs).
VersionsAgree ==
    /\ \A c, d \in Keyed : c = d
    /\ \A i \in Item : row[i].synced <= row[i].sync
    /\ EditsAreAlone
    /\ CfgIsVersion
    /\ NodeIsVersion
    /\ WorkIsOld
    /\ NothingBeforeSend

\* While the link a setting was last sent over stays up, claiming the newest
\* sequence number before the answer (synced_seq := sync_seq at the send) is
\* safe: if the node claims the newest number, the newest value is in force on
\* the device or is the last word on its way to it.  A send between the two stores
\* of a node update would break it: it claims the new number for the old value.
OpenLinkCarriesNewest ==
    "torn" \notin faults /\ link # NoConn /\ st[link] = "keyed" =>
        \A i \in Item :
            node[link][i].synced = row[i].sync /\ row[i].sync # 0
                => WillRun(i, row[i].val)

\* The number recorded as synchronised goes back in one case only: the thread of
\* a connection that a newer one has replaced was still waiting for the database
\* with an older acknowledgement.  Two acknowledgements of one connection, and
\* those left unread on a replaced one, are never recorded out of order.
SyncedGoesBackOnlyLate ==
    [][\A i \in Item : row'[i].synced < row[i].synced =>
          \E c \in Conn : work[c].type = "ack" /\ st[c] # "keyed"]_vars

\* the numbers of setting i of which the server has a copy: in the pass of
\* CfgUpdateTimer, in nodes, and in acknowledgements that wait for the database
Copies(i) ==
    ({s \in {cfg.sync} : cfg.pc \in {"seq", "val"} /\ cfg.item = i}
        \cup {node[c][i].sync : c \in Conn} \cup {node[c][i].synced : c \in Conn}
        \cup {work[c].seq : c \in {d \in Conn : work[d].type = "ack" /\ work[d].item = i}})
    \ {0}

Pushed(i) == INSTANCE SettingPush WITH
    Reset <- FALSE, asked <- row[i].sync, recorded <- row[i].synced, carried <- Copies(i)

\* Each setting is pushed as SettingPush says: whatever is replaced, repeated, lost
\* or restarted, a number is recorded only from a copy made while it was the newest.
ImplementsSettingPush ==
    /\ \A i \in Item : Pushed(i)!Init
    /\ [][\A i \in Item : [Pushed(i)!Next]_(Pushed(i)!vars)]_vars

\* "Already synchronised" in the row means the device runs the row's value,
\* once nothing is on its way to a configured device.
RecordedMeansInForce ==
    link # NoConn /\ conf /\ down[link] = <<>> =>
        \A i \in Item : row[i].sync = row[i].synced => dev[i] = row[i].val

\* nothing goes wrong but database calls of the server, which may all fail
Undisturbed == faults \subseteq {"db"}

\* The undisturbed system keeps that promise, although a failing call drops an
\* acknowledgement that will not come again, or an answer the device asked for.
UndisturbedMeansInForce == Undisturbed => RecordedMeansInForce

\* from some time on the device keeps its connection
StableLink == <>[][link' = link]_vars

\* When the edits and the outages stop and no database call has failed, the row
\* stops asking for a push: a lost request, a lost acknowledgement and a lost node
\* are all made up for by the 60 second retry and the next pass of CfgUpdateTimer.
\* If nothing has gone wrong at all, the device then runs the value of the row.
EventuallySynced ==
    "db" \notin faults /\ StableLink =>
        \A i \in Item : <>[](/\ row[i].sync = row[i].synced
                             /\ faults = {} => dev[i] = row[i].val)

=============================================================================
