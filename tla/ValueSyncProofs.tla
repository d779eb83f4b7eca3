--------------------------- MODULE ValueSyncProofs ---------------------------
(* What holds of ValueSync for every set of settings, values and            *)
(* connections and every bound.                                             *)
EXTENDS ValueSync, SequenceTheorems, TLAPS

USE ItemIsNotEmpty, UnsetIsValue, NoConnIsNoConn, BoundsAreNat

\* A fresh node, an unread row and a blank timer have the types of their variables.
LEMMA BlanksTyped ==
    /\ FreshNode \in [Item -> NodeItem]
    /\ Unread \in [Item -> Seen]
    /\ BlankCfg \in [pc : {"idle", "select", "seq", "val"}, todo : SUBSET Item,
                     item : Item, sync : Seqs, val : Value]
<1>1. 0 \in Seqs
  BY DEF Seqs
<1>2. (CHOOSE i \in Item : TRUE) \in Item
  BY Zenon
<1> QED
  BY <1>1, <1>2 DEF FreshNode, NodeItem, Unread, Seen, BlankCfg

\* The first state has the types of TypeOK.
LEMMA InitTyped == Init => TypeOK
<1> SUFFICES ASSUME Init PROVE TypeOK
  OBVIOUS
<1>1. row \in [Item -> Row]
  BY DEF Init, Row, Seqs
<1>2. adm \in [Admin -> [pc : {"idle", "read"}, seen : [Item -> Seen]]]
  BY BlanksTyped DEF Init
<1>3. (\A m : <<>> \in Seq(m)) /\ NoWork \in Work
  BY DEF Work
<1> QED
  BY <1>1, <1>2, <1>3, BlanksTyped DEF Init, TypeOK

\* Writing to a connection, on either side, keeps the queues typed.
LEMMA PostTyped ==
    ASSUME TypeOK, NEW c \in Conn, NEW m \in DownMsg, Post(c, m)
    PROVE  down' \in [Conn -> Seq(DownMsg)]
BY DEF TypeOK, Post

\* The same of the device's side.
LEMMA WriteTyped ==
    ASSUME TypeOK, NEW m \in UpMsg, Write(m)
    PROVE  up' \in [Conn -> Seq(UpMsg)]
BY DEF TypeOK, Write

\* Taking a message leaves the server's tables typed.
LEMMA TakeTyped ==
    ASSUME TypeOK, NEW c \in Conn, NEW n \in [Item -> NodeItem], NEW w \in Work,
           Take(c, n, w)
    PROVE  /\ st' \in [Conn -> {"none", "anon", "keyed"}]
           /\ up' \in [Conn -> Seq(UpMsg)]
           /\ node' \in [Conn -> [Item -> NodeItem]]
           /\ work' \in [Conn -> Work]
<1>1. Tail(up[c]) \in Seq(UpMsg) /\ <<>> \in Seq(UpMsg)
  BY DEF TypeOK, Take
<1> QED
  BY <1>1, BlanksTyped DEF TypeOK, Take

\* What is left of a message has the fields of its kind.
LEMMA WorkTyped ==
    ASSUME TypeOK, NEW c \in Conn
    PROVE  /\ NoWork \in Work
           /\ work[c].type = "ack" => work[c].item \in Item /\ work[c].seq \in Seqs
           /\ work[c].type = "conf" => work[c].vals \in [Item -> Value]
<1>1. work[c] \in Work /\ NoWork \in Work
  BY DEF TypeOK, Work
<1>2. ASSUME NEW w \in Work, w.type # "none"
      PROVE  \/ w \in [type : {"ack"}, item : Item, seq : Seqs]
             \/ w \in [type : {"conf"}, vals : [Item -> Value]]
  BY <1>2 DEF Work, NoWork
<1> QED
  BY <1>1, <1>2

\* Leaving a connection keeps both queues typed.
LEMMA LeaveTyped ==
    ASSUME TypeOK, Leave
    PROVE  /\ up' \in [Conn -> Seq(UpMsg)]
           /\ down' \in [Conn -> Seq(DownMsg)]
           /\ link' \in Conn \cup {NoConn}
<1>1. link \in Conn /\ up[link] \in Seq(UpMsg)
  BY DEF TypeOK, Leave
<1>2. ASSUME NEW n \in 0..Len(up[link]) PROVE SubSeq(up[link], 1, n) \in Seq(UpMsg)
  <2>1. Len(up[link]) \in Nat /\ n \in Nat /\ n <= Len(up[link])
    BY <1>1
  <2> QED
    BY <1>1, <2>1, SubSeqProperties
<1>3. <<>> \in Seq(DownMsg)
  OBVIOUS
<1> QED
  BY <1>1, <1>2, <1>3 DEF TypeOK, Leave

\* The steps of the web page keep the types.
LEMMA WebTyped == TypeOK /\ Web => TypeOK'
<1> SUFFICES ASSUME TypeOK, NEW a \in Admin, EditRead(a) \/ EditSave(a) PROVE TypeOK'
  BY DEF Web
<1>1. CASE EditRead(a)
  <2>1. [i \in Item |-> [sync |-> row[i].sync, val |-> row[i].val]] \in [Item -> Seen]
    BY DEF TypeOK, Row, Seen
  <2> QED
    BY <1>1, <2>1 DEF EditRead, TypeOK
<1>2. CASE EditSave(a)
  <2>1. PICK new \in [Item -> Value] : EditTo(a, new)
    BY <1>2 DEF EditSave
  <2>2. adm[a].seen \in [Item -> Seen]
    BY DEF TypeOK
  <2>3. ASSUME NEW i \in Item PROVE Edited(a, new, i) \in Row
    <3>1. new[i] # adm[a].seen[i].val => adm[a].seen[i].sync + 1 \in Seqs
      BY <2>1, <2>2 DEF EditTo, Seen, Seqs
    <3>2. row[i] \in Row /\ new[i] \in Value
      BY DEF TypeOK
    <3> QED
      BY <3>1, <3>2 DEF Row, Edited
  <2>4. row' \in [Item -> Row]
    BY <2>1, <2>3 DEF EditTo
  <2>5. adm' \in [Admin -> [pc : {"idle", "read"}, seen : [Item -> Seen]]]
    BY <1>2, BlanksTyped DEF EditSave, TypeOK
  <2> QED
    BY <1>2, <2>4, <2>5 DEF EditSave, TypeOK
<1> QED
  BY <1>1, <1>2

\* Storing a sequence number or a value in a node keeps it typed.
LEMMA NodeStoreTyped ==
    ASSUME TypeOK, NEW c \in Conn
    PROVE  /\ [node[c] EXCEPT ![cfg.item].sync = cfg.sync] \in [Item -> NodeItem]
           /\ [node[c] EXCEPT ![cfg.item].val = cfg.val] \in [Item -> NodeItem]
<1>1. node[c] \in [Item -> NodeItem] /\ cfg.item \in Item
  BY DEF TypeOK
<1>2. cfg.sync \in Seqs /\ cfg.val \in Value
  BY DEF TypeOK
<1>3. /\ [node[c][cfg.item] EXCEPT !.sync = cfg.sync] \in NodeItem
      /\ [node[c][cfg.item] EXCEPT !.val = cfg.val] \in NodeItem
  BY <1>1, <1>2 DEF NodeItem
<1> QED
  BY <1>1, <1>3

\* The steps of CfgUpdateTimer keep the types.
LEMMA TimerTyped == TypeOK /\ Timer => TypeOK'
<1> SUFFICES ASSUME TypeOK, Timer PROVE TypeOK'
  OBVIOUS
<1>1. CASE CfgUpdateTimer
  BY <1>1 DEF CfgUpdateTimer, TypeOK
<1>2. CASE CfgEnd
  BY <1>2, BlanksTyped DEF CfgEnd, TypeOK
<1>3. CASE cnm_client_update_seq
  <2>1. node' \in [Conn -> [Item -> NodeItem]]
    BY <1>3, NodeStoreTyped DEF cnm_client_update_seq, TypeOK
  <2> QED
    BY <1>3, <2>1 DEF cnm_client_update_seq, TypeOK
<1>4. CASE cnm_client_update_val
  <2>1. node' \in [Conn -> [Item -> NodeItem]]
    BY <1>4, NodeStoreTyped DEF cnm_client_update_val, TypeOK
  <2> QED
    BY <1>4, <2>1 DEF cnm_client_update_val, TypeOK
<1>5. ASSUME NEW i \in Item, CfgSelect(i) PROVE TypeOK'
  <2>1. row[i].sync \in Seqs /\ row[i].val \in Value
    BY DEF TypeOK, Row
  <2> QED
    BY <1>5, <2>1 DEF CfgSelect, TypeOK
<1> QED
  BY <1>1, <1>2, <1>3, <1>4, <1>5 DEF Timer

\* The steps of the server's other threads keep the types.
LEMMA ServerTyped == TypeOK /\ Server => TypeOK'
<1> SUFFICES ASSUME TypeOK, Server PROVE TypeOK'
  OBVIOUS
<1>1. ASSUME NEW c \in Conn, RecvBeat(c) PROVE TypeOK'
  <2>1. node[c] \in [Item -> NodeItem] /\ NoWork \in Work
    BY DEF TypeOK, Work
  <2> QED
    BY <1>1, <2>1, TakeTyped DEF RecvBeat, TypeOK
<1>2. ASSUME NEW c \in Conn, RecvAck(c) PROVE TypeOK'
  <2> DEFINE i == Head(up[c]).item
             w == [type |-> "ack", item |-> i, seq |-> node[c][i].synced]
  <2>1. Head(up[c]) \in UpMsg
    BY <1>2 DEF RecvAck, TypeOK
  <2>2. i \in Item
    BY <1>2, <2>1 DEF RecvAck, UpMsg
  <2>3. node[c] \in [Item -> NodeItem]
    BY DEF TypeOK
  <2>4. [node[c][i] EXCEPT !.timeout = "zero"] \in NodeItem /\ node[c][i].synced \in Seqs
    BY <2>2, <2>3 DEF NodeItem
  <2>5. [node[c] EXCEPT ![i].timeout = "zero"] \in [Item -> NodeItem]
    BY <2>2, <2>3, <2>4
  <2>6. w \in Work
    BY <2>2, <2>4 DEF Work
  <2> QED
    BY <1>2, <2>5, <2>6, TakeTyped DEF RecvAck, TypeOK
<1>3. ASSUME NEW c \in Conn, RecvConfRequest(c) PROVE TypeOK'
  <2> DEFINE w == [type |-> "conf", vals |-> [i \in Item |-> row[i].val]]
  <2>1. node[c] \in [Item -> NodeItem]
    BY DEF TypeOK
  <2>2. w \in Work /\ NoWork \in Work
    BY DEF TypeOK, Row, Work
  <2> QED
    BY <1>3, <2>1, <2>2, TakeTyped DEF RecvConfRequest, TypeOK
<1>8. ASSUME NEW c \in Conn, UpdateSyncedSeq(c) PROVE TypeOK'
  <2> DEFINE i == work[c].item
  <2>1. i \in Item /\ work[c].seq \in Seqs /\ NoWork \in Work
    BY <1>8, WorkTyped DEF UpdateSyncedSeq
  <2>2. row[i] \in Row
    BY <2>1 DEF TypeOK
  <2>3. [row[i] EXCEPT !.synced = work[c].seq] \in Row
    BY <2>1, <2>2 DEF Row
  <2>4. row' \in [Item -> Row]
    BY <1>8, <2>1, <2>3 DEF UpdateSyncedSeq, TypeOK
  <2> QED
    BY <1>8, <2>1, <2>4 DEF UpdateSyncedSeq, TypeOK
<1>9. ASSUME NEW c \in Conn, send_conf_response(c) PROVE TypeOK'
  <2> DEFINE m == [type |-> "conf", vals |-> work[c].vals]
  <2>1. m \in DownMsg /\ NoWork \in Work
    BY <1>9, WorkTyped DEF send_conf_response, DownMsg
  <2>2. down' \in [Conn -> Seq(DownMsg)]
    BY <1>9, <2>1, PostTyped DEF send_conf_response, TypeOK
  <2> QED
    BY <1>9, <2>1, <2>2 DEF send_conf_response, TypeOK
<1>4. ASSUME NEW c \in Conn, _cnm_client_del(c) PROVE TypeOK'
  BY <1>4, BlanksTyped DEF _cnm_client_del, TypeOK
<1>5. ASSUME NEW c \in Conn, NEW i \in Item, send_value_to_client(c, i) PROVE TypeOK'
  <2> DEFINE m == [type |-> "notify", item |-> i, val |-> node[c][i].val]
  <2>1. node[c] \in [Item -> NodeItem] /\ node[c][i] \in NodeItem
    BY DEF TypeOK
  <2>2. m \in DownMsg
    BY <2>1 DEF NodeItem, DownMsg
  <2>3. down' \in [Conn -> Seq(DownMsg)]
    BY <1>5, <2>2, PostTyped DEF send_value_to_client
  <2>4. [[node[c][i] EXCEPT !.timeout = "wait"] EXCEPT !.synced = node[c][i].sync] \in NodeItem
    BY <2>1 DEF NodeItem
  <2>5. node' \in [Conn -> [Item -> NodeItem]]
    BY <1>5, <2>1, <2>4 DEF send_value_to_client, TypeOK
  <2> QED
    BY <1>5, <2>3, <2>5 DEF send_value_to_client, TypeOK
<1>6. ASSUME NEW c \in Conn, NEW i \in Item, SyncTimeout(c, i) PROVE TypeOK'
  <2>1. node[c] \in [Item -> NodeItem] /\ node[c][i] \in NodeItem
    BY DEF TypeOK
  <2>2. [node[c][i] EXCEPT !.timeout = "over"] \in NodeItem
    BY <2>1 DEF NodeItem
  <2>3. node' \in [Conn -> [Item -> NodeItem]]
    BY <1>6, <2>1, <2>2 DEF SyncTimeout, TypeOK
  <2> QED
    BY <1>6, <2>3 DEF SyncTimeout, TypeOK
<1>7. CASE ServerRestart
  <2>1. NoWork \in Work
    BY DEF Work
  <2> QED
    BY <1>7, <2>1, BlanksTyped DEF ServerRestart, TypeOK
<1> QED
  BY <1>1, <1>2, <1>3, <1>4, <1>5, <1>6, <1>7, <1>8, <1>9 DEF Server, Receive, Finish

\* The steps of the device keep the types.
LEMMA DeviceTyped == TypeOK /\ Device => TypeOK'
<1> SUFFICES ASSUME TypeOK, Device PROVE TypeOK'
  OBVIOUS
<1>1. ASSUME NEW c \in Conn, Connect(c) PROVE TypeOK'
  BY <1>1 DEF Connect, TypeOK
<1>2. CASE Heartbeat
  <2>1. [type |-> "beat"] \in UpMsg
    BY DEF UpMsg
  <2> QED
    BY <1>2, <2>1, WriteTyped DEF Heartbeat, TypeOK
<1>3. CASE send_conf_request_to_server
  <2>1. [type |-> "conf_request"] \in UpMsg
    BY DEF UpMsg
  <2> QED
    BY <1>3, <2>1, WriteTyped DEF send_conf_request_to_server, TypeOK
<1>4. CASE RecvNotify
  <2> DEFINE m == Head(down[link])
  <2>1. link \in Conn /\ m \in DownMsg /\ Tail(down[link]) \in Seq(DownMsg)
    BY <1>4 DEF RecvNotify, TypeOK
  <2>2. m.item \in Item /\ m.val \in Value
    BY <1>4, <2>1 DEF RecvNotify, DownMsg
  <2>3. [type |-> "ack", item |-> m.item] \in UpMsg
    BY <2>2 DEF UpMsg
  <2> QED
    BY <1>4, <2>1, <2>2, <2>3, WriteTyped DEF RecvNotify, TypeOK
<1>5. CASE RecvConf
  <2> DEFINE m == Head(down[link])
  <2>1. link \in Conn /\ m \in DownMsg /\ Tail(down[link]) \in Seq(DownMsg)
    BY <1>5 DEF RecvConf, TypeOK
  <2>2. m.vals \in [Item -> Value]
    BY <1>5, <2>1 DEF RecvConf, DownMsg
  <2> QED
    BY <1>5, <2>1, <2>2 DEF RecvConf, TypeOK
<1>6. CASE LinkDown
  BY <1>6, LeaveTyped DEF LinkDown, TypeOK
<1>7. CASE ClientRestart
  BY <1>7, LeaveTyped DEF ClientRestart, TypeOK
<1> QED
  BY <1>1, <1>2, <1>3, <1>4, <1>5, <1>6, <1>7 DEF Device

\* What the proofs need of a step; that the faults stay as they were chosen is not.
LEMMA StepIsNext == [Next /\ UNCHANGED faults]_<<vars, faults>> => [Next]_vars
OBVIOUS

\* The system never leaves the state space it is written over: in particular no
\* sequence number passes its bound and the queues hold only real messages.
THEOREM TypeCorrect == Spec => []TypeOK
<1>1. TypeOK /\ [Next]_vars => TypeOK'
  <2>1. TypeOK /\ UNCHANGED vars => TypeOK'
    BY DEF TypeOK, vars
  <2> QED
    BY <2>1, WebTyped, TimerTyped, ServerTyped, DeviceTyped DEF Next
<1> QED
  BY InitTyped, <1>1, StepIsNext, PTL DEF Spec

-----------------------------------------------------------------------------
(* The versions of a setting: what ValueSync keeps true of them for every   *)
(* instance, as long as no two edits of the device overlap.                 *)

\* What can go wrong in a behaviour does not change.
LEMMA EditsStayApart == Spec => []EditsApart \/ []~EditsApart
<1>1. [Next /\ UNCHANGED faults]_<<vars, faults>> => (EditsApart' <=> EditsApart)
  BY DEF EditsApart
<1> QED
  BY <1>1, PTL DEF Spec

\* The sequence numbers are numbers.
LEMMA NumbersTyped ==
    ASSUME TypeOK
    PROVE  /\ \A i \in Item : row[i].sync \in Nat /\ row[i].synced \in Nat
           /\ \A c \in Conn, i \in Item : node[c][i].sync \in Nat /\ node[c][i].synced \in Nat
           /\ cfg.item \in Item /\ cfg.sync \in Nat
           /\ \A c \in Conn : work[c].type = "ack" => work[c].item \in Item /\ work[c].seq \in Nat
<1>1. Seqs \subseteq Nat
  BY DEF Seqs
<1>2. \A i \in Item : row[i] \in Row
  BY DEF TypeOK
<1>3. \A c \in Conn, i \in Item : node[c][i] \in NodeItem
  BY DEF TypeOK
<1>4. cfg.item \in Item /\ cfg.sync \in Seqs
  BY DEF TypeOK
<1> QED
  BY <1>1, <1>2, <1>3, <1>4, WorkTyped DEF Row, NodeItem

\* What a queue r holds that is q with a message appended.
LEMMA AppendedElements ==
    ASSUME NEW S, NEW q \in Seq(S), NEW m \in S, NEW r, r = Append(q, m)
    PROVE  \A k \in 1..Len(r) :
              \/ k = Len(q) + 1 /\ r[k] = m
              \/ k \in 1..Len(q) /\ r[k] = q[k]
<1>1. Len(q) \in Nat
  OBVIOUS
<1>2. /\ Len(Append(q, m)) = Len(q) + 1
      /\ \A k \in 1..Len(q) : Append(q, m)[k] = q[k]
      /\ Append(q, m)[Len(q) + 1] = m
  BY AppendProperties
<1>3. \A k \in 1..Len(Append(q, m)) : k \in 1..Len(q) \/ k = Len(q) + 1
  BY <1>1, <1>2
<1> QED
  BY <1>2, <1>3, Zenon

\* What a queue r holds that is q without its head.
LEMMA TailElements ==
    ASSUME NEW S, NEW q \in Seq(S), q # <<>>, NEW r, r = Tail(q)
    PROVE  \A k \in 1..Len(r) : k + 1 \in 1..Len(q) /\ r[k] = q[k + 1]
<1>1. Len(q) \in Nat
  OBVIOUS
<1>2. Len(Tail(q)) = Len(q) - 1 /\ \A k \in 1..Len(Tail(q)) : Tail(q)[k] = q[k + 1]
  BY HeadTailProperties
<1>3. \A k \in 1..Len(Tail(q)) : k + 1 \in 1..Len(q)
  BY <1>1, <1>2
<1> QED
  BY <1>2, <1>3, Zenon

\* What the queues to the device hold after a message is sent.
LEMMA PostElements ==
    ASSUME TypeOK, NEW c \in Conn, NEW m \in DownMsg, Post(c, m)
    PROVE  /\ \A d \in Conn : d # c \/ d # link => down'[d] = down[d]
           /\ \A d \in Conn : \A k \in 1..Len(down'[d]) :
                 down'[d][k] = m \/ (k \in 1..Len(down[d]) /\ down'[d][k] = down[d][k])
<1>1. \A d \in Conn : d # c \/ d # link => down'[d] = down[d]
  BY DEF Post, TypeOK
<1>2. c = link => down'[c] = Append(down[c], m)
  BY DEF Post, TypeOK
<1>3. down[c] \in Seq(DownMsg)
  BY DEF TypeOK
<1>4. c = link => \A k \in 1..Len(down'[c]) :
         down'[c][k] = m \/ (k \in 1..Len(down[c]) /\ down'[c][k] = down[c][k])
  BY <1>2, <1>3, AppendedElements
<1> QED
  BY <1>1, <1>4, Zenon

\* The first state agrees.
LEMMA InitAgrees == Init => VersionsAgree
<1> SUFFICES ASSUME Init PROVE VersionsAgree
  OBVIOUS
<1>1. ASSUME NEW i \in Item PROVE row[i].synced <= row[i].sync
  <2>1. row[i] \in [sync : {0, 1} \cap Seqs, synced : {0}, val : Value]
    BY DEF Init
  <2>2. row[i].synced = 0 /\ row[i].sync \in {0, 1}
    BY <2>1
  <2> QED
    BY <2>2
<1>2. EditsAreAlone /\ CfgIsVersion
  BY DEF Init, EditsAreAlone, CfgIsVersion, BlankCfg
<1>3. Keyed = {}
  BY DEF Init, Keyed
<1>4. NothingBeforeSend
  BY <1>3 DEF Init, NothingBeforeSend
<1>5. WorkIsOld
  BY DEF Init, WorkIsOld, WorkAgrees, NoWork
<1> QED
  BY <1>1, <1>2, <1>3, <1>4, <1>5 DEF VersionsAgree, NodeIsVersion

\* Reading the row for an edit.
LEMMA EditReadAgrees ==
    ASSUME TypeOK, VersionsAgree, EditsApart, NEW a \in Admin, EditRead(a)
    PROVE  VersionsAgree'
<1>1. EditsAreAlone'
  <2>1. \A b \in Admin : adm[b].pc # "read"
    BY DEF EditRead, EditsApart
  <2> QED
    BY <2>1 DEF EditRead, EditsAreAlone, TypeOK
<1> QED
  BY <1>1 DEF EditRead, VersionsAgree, CfgIsVersion, NodeIsVersion, NodeAgrees, WorkIsOld,
              WorkAgrees, NothingBeforeSend, Keyed

\* An edit gives a setting a number that no copy has, and leaves the others alone.
LEMMA EditSaves ==
    ASSUME TypeOK, VersionsAgree, NEW a \in Admin, EditSave(a), NEW i \in Item
    PROVE  \/ row'[i] = row[i]
           \/ row'[i].sync = row[i].sync + 1 /\ row'[i].synced = row[i].synced
<1>1. PICK new \in [Item -> Value] : EditTo(a, new)
  BY DEF EditSave
<1>2. adm[a].seen[i].sync = row[i].sync /\ adm[a].seen[i].val = row[i].val
  BY DEF EditSave, VersionsAgree, EditsAreAlone
<1>3. row'[i] = Edited(a, new, i) /\ row[i] \in Row
  BY <1>1 DEF EditTo, TypeOK
<1> QED
  BY <1>2, <1>3 DEF Edited, Row

\* Saving an edit.
LEMMA EditSaveAgrees ==
    ASSUME TypeOK, VersionsAgree, NEW a \in Admin, EditSave(a)
    PROVE  VersionsAgree'
<1>1. UNCHANGED <<cfg, st, node, work, down, up, link, dev, conf>>
  BY DEF EditSave
<1>2. \A i \in Item : \/ row'[i] = row[i]
                      \/ row'[i].sync = row[i].sync + 1 /\ row'[i].synced = row[i].synced
  BY EditSaves
<1>3. \A i \in Item : row'[i].synced <= row'[i].sync
  BY <1>2, NumbersTyped DEF VersionsAgree
<1>4. EditsAreAlone'
  <2>1. \A b \in Admin : adm'[b].pc # "read"
    BY DEF EditSave, VersionsAgree, EditsAreAlone, TypeOK
  <2> QED
    BY <2>1 DEF EditsAreAlone
<1>5. CfgIsVersion'
  BY <1>1, <1>2, NumbersTyped DEF CfgIsVersion, VersionsAgree
<1>6. NodeIsVersion'
  <2> SUFFICES ASSUME NEW c \in Keyed, NEW i \in Item PROVE NodeAgrees(c, i)'
    BY <1>1 DEF NodeIsVersion, Keyed
  <2>1. NodeAgrees(c, i) /\ c \in Conn
    BY DEF VersionsAgree, NodeIsVersion, Keyed
  <2> QED
    BY <1>1, <1>2, <2>1, NumbersTyped DEF NodeAgrees
<1>7. WorkIsOld'
  BY <1>1, <1>2, NumbersTyped DEF VersionsAgree, WorkIsOld, WorkAgrees, Keyed
<1> QED
  BY <1>1, <1>3, <1>4, <1>5, <1>6, <1>7 DEF VersionsAgree, NothingBeforeSend, Keyed

-----------------------------------------------------------------------------
(* CfgUpdateTimer.                                                          *)

\* Starting and ending a pass, and skipping a synchronised setting.
LEMMA CfgIdleAgrees ==
    ASSUME TypeOK, VersionsAgree, cfg'.pc \notin {"seq", "val"}, cfg.pc \notin {"seq", "val"},
           UNCHANGED <<row, adm, st, node, work, down, up, link, dev, conf>>
    PROVE  VersionsAgree'
BY DEF VersionsAgree, EditsAreAlone, CfgIsVersion, NodeIsVersion, NodeAgrees, WorkIsOld,
       WorkAgrees, NothingBeforeSend, Keyed

\* Reading a setting that waits to be pushed.
LEMMA CfgSelectAgrees ==
    ASSUME TypeOK, VersionsAgree, NEW i \in Item, CfgSelect(i)
    PROVE  VersionsAgree'
<1>1. UNCHANGED <<row, adm, st, node, work, down, up, link, dev, conf>> /\ cfg.pc = "select"
  BY DEF CfgSelect
<1>2. CASE row[i].sync = row[i].synced
  <2>1. cfg'.pc = "select"
    BY <1>1, <1>2 DEF CfgSelect, TypeOK
  <2> QED
    BY <1>1, <2>1, CfgIdleAgrees
<1>3. CASE row[i].sync # row[i].synced
  <2>1. cfg'.pc = "seq" /\ cfg'.item = i /\ cfg'.sync = row[i].sync /\ cfg'.val = row[i].val
    BY <1>3 DEF CfgSelect
  <2>2. CfgIsVersion'
    BY <1>1, <1>3, <2>1, NumbersTyped DEF CfgIsVersion, VersionsAgree
  <2>3. NodeIsVersion'
    <3> SUFFICES ASSUME NEW c \in Keyed, NEW j \in Item PROVE NodeAgrees(c, j)'
      BY <1>1 DEF NodeIsVersion, Keyed
    <3>1. NodeAgrees(c, j) /\ c \in Conn
      BY DEF VersionsAgree, NodeIsVersion, Keyed
    <3> QED
      BY <1>1, <2>1, <3>1, NumbersTyped DEF NodeAgrees
  <2>4. WorkIsOld'
    BY <1>1, <2>1, NumbersTyped DEF VersionsAgree, WorkIsOld, WorkAgrees, Keyed
  <2> QED
    BY <1>1, <2>2, <2>3, <2>4 DEF VersionsAgree, EditsAreAlone, NothingBeforeSend, Keyed
<1> QED
  BY <1>2, <1>3

\* Storing the sequence number in the node.
LEMMA UpdateSeqAgrees ==
    ASSUME TypeOK, VersionsAgree, cnm_client_update_seq
    PROVE  VersionsAgree'
<1>1. UNCHANGED <<row, adm, st, work, down, up, link, dev, conf>> /\ cfg.pc = "seq"
  BY DEF cnm_client_update_seq
<1>2. /\ cfg'.pc = (IF Keyed = {} THEN "select" ELSE "val")
      /\ cfg'.item = cfg.item /\ cfg'.sync = cfg.sync /\ cfg'.val = cfg.val
  BY DEF cnm_client_update_seq, TypeOK
<1>3. \A c \in Conn : c \notin Keyed => node'[c] = node[c]
  BY DEF cnm_client_update_seq
<1>4. ASSUME NEW c \in Keyed, NEW i \in Item
      PROVE  /\ node'[c][i].sync = IF i = cfg.item THEN cfg.sync ELSE node[c][i].sync
             /\ node'[c][i].synced = node[c][i].synced
             /\ node'[c][i].timeout = node[c][i].timeout
             /\ node'[c][i].val = node[c][i].val
  <2>1. c \in Conn /\ node[c] \in [Item -> NodeItem] /\ node[c][i] \in NodeItem
    BY DEF TypeOK, Keyed
  <2>2. node'[c] = [node[c] EXCEPT ![cfg.item].sync = cfg.sync]
    BY <2>1 DEF cnm_client_update_seq
  <2>3. node'[c][i] = IF i = cfg.item THEN [node[c][i] EXCEPT !.sync = cfg.sync] ELSE node[c][i]
    BY <2>1, <2>2
  <2> QED
    BY <2>1, <2>3 DEF NodeItem
<1>5. CfgIsVersion'
  BY <1>1, <1>2 DEF CfgIsVersion, VersionsAgree
<1>6. NodeIsVersion'
  <2> SUFFICES ASSUME NEW c \in Keyed, NEW i \in Item PROVE NodeAgrees(c, i)'
    BY <1>1 DEF NodeIsVersion, Keyed
  <2>1. NodeAgrees(c, i) /\ c \in Conn
    BY DEF VersionsAgree, NodeIsVersion, Keyed
  <2>2. cfg'.pc = "val"
    BY <1>2
  <2>3. row[cfg.item].synced <= cfg.sync /\ cfg.sync <= row[cfg.item].sync
    BY <1>1 DEF VersionsAgree, CfgIsVersion
  <2> QED
    BY <1>1, <1>2, <1>4, <2>1, <2>2, <2>3, NumbersTyped DEF NodeAgrees
<1>7. WorkIsOld'
  <2> SUFFICES ASSUME NEW d \in Conn, NEW i \in Item PROVE WorkAgrees(d, i)'
    BY DEF WorkIsOld
  <2>1. WorkAgrees(d, i)
    BY DEF VersionsAgree, WorkIsOld
  <2>2. Keyed' = Keyed
    BY <1>1 DEF Keyed
  <2> QED
    BY <1>1, <1>2, <1>4, <2>1, <2>2, NumbersTyped DEF WorkAgrees
<1>8. NothingBeforeSend'
  <2>1. \A c \in Conn, i \in Item : node'[c][i].synced = node[c][i].synced
    BY <1>3, <1>4
  <2> QED
    BY <1>1, <1>3, <2>1 DEF VersionsAgree, NothingBeforeSend, Keyed
<1> QED
  BY <1>1, <1>5, <1>6, <1>7, <1>8 DEF VersionsAgree, EditsAreAlone, Keyed

\* Storing the value in the node.
LEMMA UpdateValAgrees ==
    ASSUME TypeOK, VersionsAgree, cnm_client_update_val
    PROVE  VersionsAgree'
<1>1. UNCHANGED <<row, adm, st, work, down, up, link, dev, conf>> /\ cfg.pc = "val"
  BY DEF cnm_client_update_val
<1>2. cfg'.pc = "select"
  BY DEF cnm_client_update_val, TypeOK
<1>3. \A c \in Conn : c \notin Keyed => node'[c] = node[c]
  BY DEF cnm_client_update_val
<1>4. ASSUME NEW c \in Keyed, NEW i \in Item
      PROVE  /\ node'[c][i].sync = node[c][i].sync
             /\ node'[c][i].synced = node[c][i].synced
             /\ node'[c][i].timeout = node[c][i].timeout
             /\ node'[c][i].val = IF i = cfg.item THEN cfg.val ELSE node[c][i].val
  <2>1. c \in Conn /\ node[c] \in [Item -> NodeItem] /\ node[c][i] \in NodeItem
    BY DEF TypeOK, Keyed
  <2>2. node'[c] = [node[c] EXCEPT ![cfg.item].val = cfg.val]
    BY <2>1 DEF cnm_client_update_val
  <2>3. node'[c][i] = IF i = cfg.item THEN [node[c][i] EXCEPT !.val = cfg.val] ELSE node[c][i]
    BY <2>1, <2>2
  <2> QED
    BY <2>1, <2>3 DEF NodeItem
<1>5. CfgIsVersion'
  BY <1>2 DEF CfgIsVersion
<1>6. NodeIsVersion'
  <2> SUFFICES ASSUME NEW c \in Keyed, NEW i \in Item PROVE NodeAgrees(c, i)'
    BY <1>1 DEF NodeIsVersion, Keyed
  <2>1. NodeAgrees(c, i) /\ c \in Conn
    BY DEF VersionsAgree, NodeIsVersion, Keyed
  <2>2. cfg.sync = row[cfg.item].sync => cfg.val = row[cfg.item].val
    BY <1>1 DEF VersionsAgree, CfgIsVersion
  <2> QED
    BY <1>1, <1>2, <1>4, <2>1, <2>2, NumbersTyped DEF NodeAgrees
<1>7. WorkIsOld'
  <2> SUFFICES ASSUME NEW d \in Conn, NEW i \in Item PROVE WorkAgrees(d, i)'
    BY DEF WorkIsOld
  <2>1. WorkAgrees(d, i)
    BY DEF VersionsAgree, WorkIsOld
  <2>2. Keyed' = Keyed
    BY <1>1 DEF Keyed
  <2> QED
    BY <1>1, <1>2, <1>4, <2>1, <2>2, NumbersTyped DEF WorkAgrees
<1>8. NothingBeforeSend'
  <2>1. \A c \in Conn, i \in Item : node'[c][i].synced = node[c][i].synced
    BY <1>3, <1>4
  <2> QED
    BY <1>1, <1>3, <2>1 DEF VersionsAgree, NothingBeforeSend, Keyed
<1> QED
  BY <1>1, <1>5, <1>6, <1>7, <1>8 DEF VersionsAgree, EditsAreAlone, Keyed

-----------------------------------------------------------------------------
(* The server's data_handle_threads.                                        *)

\* Sending a setting, with the claim of its number.
LEMMA SendAgrees ==
    ASSUME TypeOK, VersionsAgree, NEW c \in Conn, NEW i \in Item, send_value_to_client(c, i)
    PROVE  VersionsAgree'
<1> DEFINE m == [type |-> "notify", item |-> i, val |-> node[c][i].val]
<1>1. /\ UNCHANGED <<row, adm, cfg, st, work, up, link, dev, conf>>
      /\ c \in Keyed /\ work[c] = NoWork /\ Post(c, m)
  BY DEF send_value_to_client, Keyed
<1>2. node[c] \in [Item -> NodeItem] /\ node[c][i] \in NodeItem
  BY DEF TypeOK
<1>3. node'[c] = [node[c] EXCEPT ![i] = [node[c][i] EXCEPT !.timeout = "wait", !.synced = node[c][i].sync]]
  BY <1>2 DEF send_value_to_client, TypeOK
<1>4. \A d \in Conn, j \in Item : d # c \/ j # i => node'[d][j] = node[d][j]
  BY <1>2, <1>3 DEF send_value_to_client, TypeOK
<1>5. /\ node'[c][i].sync = node[c][i].sync /\ node'[c][i].synced = node[c][i].sync
      /\ node'[c][i].timeout = "wait" /\ node'[c][i].val = node[c][i].val
  BY <1>2, <1>3 DEF NodeItem
<1>6. node[c][i].sync # 0
  <2>1. NodeAgrees(c, i)
    BY <1>1 DEF VersionsAgree, NodeIsVersion
  <2> QED
    BY <2>1, NumbersTyped DEF send_value_to_client, NodeAgrees
<1>7. NodeIsVersion'
  <2> SUFFICES ASSUME NEW d \in Keyed, NEW j \in Item PROVE NodeAgrees(d, j)'
    BY <1>1 DEF NodeIsVersion, Keyed
  <2>1. NodeAgrees(d, j) /\ d \in Conn
    BY DEF VersionsAgree, NodeIsVersion, Keyed
  <2>2. CASE d # c \/ j # i
    BY <1>1, <1>4, <2>1, <2>2 DEF NodeAgrees
  <2>3. CASE d = c /\ j = i
    BY <1>1, <1>5, <1>6, <2>1, <2>3, NumbersTyped DEF NodeAgrees, NoWork
  <2> QED
    BY <2>2, <2>3
<1>8. WorkIsOld'
  <2> SUFFICES ASSUME NEW d \in Conn, NEW j \in Item PROVE WorkAgrees(d, j)'
    BY DEF WorkIsOld
  <2>1. WorkAgrees(d, j)
    BY DEF VersionsAgree, WorkIsOld
  <2>2. Keyed' = Keyed
    BY <1>1 DEF Keyed
  <2>3. \A e \in Keyed : /\ node'[e][j].sync = node[e][j].sync
                         /\ \/ node'[e][j].synced = node[e][j].synced
                            \/ node'[e][j].synced = node[e][j].sync
    BY <1>4, <1>5 DEF Keyed
  <2> QED
    BY <1>1, <2>1, <2>2, <2>3 DEF WorkAgrees
<1>9. NothingBeforeSend'
  <2>1. \A d \in Conn : d \notin Keyed => node'[d] = node[d]
    BY <1>1, <1>2 DEF send_value_to_client, TypeOK
  <2>2. m \in DownMsg
    BY <1>2 DEF NodeItem, DownMsg
  <2>3. \A d \in Conn : d # c \/ d # link => down'[d] = down[d]
    BY <1>1, <2>2, PostElements
  <2>4. \A k \in 1..Len(down'[c]) : down'[c][k] = m \/ (k \in 1..Len(down[c]) /\ down'[c][k] = down[c][k])
    BY <1>1, <2>2, PostElements, Zenon
  <2>5. m.type = "notify" /\ m.item = i
    OBVIOUS
  <2>6. ASSUME NEW d \in Conn, NEW j \in Item, st[d] # "none", node'[d][j].synced = 0
        PROVE  \A k \in 1..Len(down'[d]) : down'[d][k].type = "notify" => down'[d][k].item # j
    <3>1. node[d][j].synced = 0 /\ (d # c \/ j # i)
      BY <1>4, <1>5, <1>6, <2>6
    <3>2. \A k \in 1..Len(down[d]) : down[d][k].type = "notify" => down[d][k].item # j
      BY <2>6, <3>1 DEF VersionsAgree, NothingBeforeSend
    <3> QED
      BY <2>3, <2>4, <2>5, <3>1, <3>2
  <2>7. ASSUME NEW d \in Conn, NEW j \in Item, st[d] # "none", node'[d][j].synced = 0
        PROVE  \A k \in 1..Len(up[d]) : up[d][k].type = "ack" => up[d][k].item # j
    <3>1. node[d][j].synced = 0
      BY <1>4, <1>5, <1>6, <2>7
    <3> QED
      BY <2>7, <3>1 DEF VersionsAgree, NothingBeforeSend
  <2> QED
    BY <1>1, <2>1, <2>3, <2>6, <2>7 DEF VersionsAgree, NothingBeforeSend, Keyed
<1> QED
  BY <1>1, <1>7, <1>8, <1>9 DEF VersionsAgree, EditsAreAlone, CfgIsVersion, Keyed

\* The 60 seconds of a request run out.
LEMMA SyncTimeoutAgrees ==
    ASSUME TypeOK, VersionsAgree, NEW c \in Conn, NEW i \in Item, SyncTimeout(c, i)
    PROVE  VersionsAgree'
<1>1. /\ UNCHANGED <<row, adm, cfg, st, work, down, up, link, dev, conf>>
      /\ c \in Keyed /\ node[c][i].timeout = "wait"
  BY DEF SyncTimeout, Keyed
<1>2. node[c] \in [Item -> NodeItem] /\ node[c][i] \in NodeItem
  BY DEF TypeOK
<1>3. node'[c] = [node[c] EXCEPT ![i] = [node[c][i] EXCEPT !.timeout = "over"]]
  BY <1>2 DEF SyncTimeout, TypeOK
<1>4. \A d \in Conn, j \in Item : d # c \/ j # i => node'[d][j] = node[d][j]
  BY <1>2, <1>3 DEF SyncTimeout, TypeOK
<1>5. \A d \in Conn, j \in Item : /\ node'[d][j].sync = node[d][j].sync
                                  /\ node'[d][j].synced = node[d][j].synced
                                  /\ node'[d][j].val = node[d][j].val
                                  /\ node[d][j].timeout = "zero" => node'[d][j].timeout = "zero"
  <2>1. /\ node'[c][i].sync = node[c][i].sync /\ node'[c][i].synced = node[c][i].synced
        /\ node'[c][i].val = node[c][i].val
    BY <1>2, <1>3 DEF NodeItem
  <2> QED
    BY <1>1, <1>4, <2>1
<1>6. \A d \in Conn : d \notin Keyed => node'[d] = node[d]
  BY <1>1 DEF SyncTimeout, TypeOK
<1>7. NodeIsVersion'
  <2> SUFFICES ASSUME NEW d \in Keyed, NEW j \in Item PROVE NodeAgrees(d, j)'
    BY <1>1 DEF NodeIsVersion, Keyed
  <2>1. NodeAgrees(d, j) /\ d \in Conn
    BY DEF VersionsAgree, NodeIsVersion, Keyed
  <2> QED
    BY <1>1, <1>5, <2>1 DEF NodeAgrees
<1> QED
  BY <1>1, <1>5, <1>6, <1>7 DEF VersionsAgree, EditsAreAlone, CfgIsVersion, WorkIsOld, WorkAgrees,
                                NothingBeforeSend, Keyed

\* The first message of a connection that has no serial yet, or a later one: the
\* connection is the only one with the serial afterwards, and what is left to do
\* is not newer than what its node has sent.
LEMMA TakeAgrees ==
    ASSUME TypeOK, VersionsAgree, NEW c \in Conn, NEW n \in [Item -> NodeItem], NEW w,
           Take(c, n, w), UNCHANGED <<row, adm, cfg, down, link, dev, conf>>,
           \A i \in Item : /\ n[i].sync = node[c][i].sync /\ n[i].synced = node[c][i].synced
                           /\ n[i].val = node[c][i].val
                           /\ node[c][i].timeout = "zero" => n[i].timeout = "zero",
           \A i \in Item : w.type = "ack" /\ w.item = i =>
                            w.seq = node[c][i].synced /\ node[c][i].synced # 0
    PROVE  VersionsAgree'
<1>1. /\ Keyed' = {c} /\ st'[c] = "keyed"
      /\ \A d \in Conn \ {c} : IF d \in Keyed THEN st'[d] = "none" ELSE st'[d] = st[d]
  BY DEF Take, Keyed
<1>2. /\ node'[c] = n /\ up'[c] = Tail(up[c]) /\ work'[c] = w
      /\ \A d \in Conn \ {c} : /\ work'[d] = work[d]
                               /\ d \in Keyed => node'[d] = FreshNode /\ up'[d] = <<>>
                               /\ d \notin Keyed => node'[d] = node[d] /\ up'[d] = up[d]
  BY DEF Take, TypeOK
<1>3. ASSUME c \notin Keyed, NEW i \in Item
      PROVE  /\ node[c][i].sync = 0 /\ node[c][i].synced = 0 /\ node[c][i].timeout = "zero"
             /\ cfg.pc # "val"
  <2>1. node[c] = FreshNode
    BY <1>3 DEF VersionsAgree, NothingBeforeSend
  <2>2. st[c] = "anon"
    BY <1>3 DEF Take, Keyed, TypeOK
  <2> QED
    BY <2>1, <2>2 DEF FreshNode, Take, KeyFree
<1>4. ASSUME c \in Keyed, NEW i \in Item PROVE NodeAgrees(c, i)
  BY <1>4 DEF VersionsAgree, NodeIsVersion
<1>5. NodeIsVersion'
  <2> SUFFICES ASSUME NEW i \in Item PROVE NodeAgrees(c, i)'
    BY <1>1 DEF NodeIsVersion
  <2>1. row[i].synced <= row[i].sync
    BY DEF VersionsAgree
  <2>2. CASE c \in Keyed
    BY <1>2, <1>4, <2>2, NumbersTyped DEF NodeAgrees
  <2>3. CASE c \notin Keyed
    BY <1>2, <1>3, <2>1, <2>3, NumbersTyped DEF NodeAgrees
  <2> QED
    BY <2>2, <2>3
<1>6. WorkIsOld'
  <2> SUFFICES ASSUME NEW d \in Conn, NEW i \in Item PROVE WorkAgrees(d, i)'
    BY DEF WorkIsOld
  <2>1. WorkAgrees(d, i)
    BY DEF VersionsAgree, WorkIsOld
  <2>2. node'[c][i].sync = node[c][i].sync /\ node'[c][i].synced = node[c][i].synced
    BY <1>2
  <2>3. CASE d # c /\ c \in Keyed
    BY <1>1, <1>2, <2>1, <2>2, <2>3 DEF WorkAgrees
  <2>4. CASE d # c /\ c \notin Keyed
    BY <1>1, <1>2, <1>3, <2>1, <2>2, <2>4 DEF WorkAgrees
  <2>5. CASE d = c /\ c \in Keyed
    BY <1>1, <1>2, <1>4, <2>2, <2>5, NumbersTyped DEF WorkAgrees, NodeAgrees
  <2>6. CASE d = c /\ c \notin Keyed
    BY <1>1, <1>2, <1>3, <2>2, <2>6, NumbersTyped DEF WorkAgrees
  <2> QED
    BY <2>3, <2>4, <2>5, <2>6
<1>7. NothingBeforeSend'
  <2>1. \A d \in Conn : d \notin Keyed' => node'[d] = FreshNode
    BY <1>1, <1>2 DEF VersionsAgree, NothingBeforeSend
  <2>2. \A d \in Conn : st'[d] = "none" => up'[d] = <<>>
    BY <1>1, <1>2 DEF VersionsAgree, NothingBeforeSend
  <2>3. ASSUME NEW d \in Conn, NEW i \in Item, st'[d] # "none", node'[d][i].synced = 0
        PROVE  /\ st[d] # "none" /\ node[d][i].synced = 0
               /\ up'[d] = up[d] \/ (up[d] # <<>> /\ up'[d] = Tail(up[d]))
    BY <1>1, <1>2, <2>3 DEF Take
  <2>4. ASSUME NEW d \in Conn, NEW i \in Item, st'[d] # "none", node'[d][i].synced = 0
        PROVE  \A k \in 1..Len(up'[d]) : up'[d][k].type = "ack" => up'[d][k].item # i
    <3>1. \A k \in 1..Len(up[d]) : up[d][k].type = "ack" => up[d][k].item # i
      BY <2>3, <2>4 DEF VersionsAgree, NothingBeforeSend
    <3>2. CASE up'[d] = up[d]
      BY <3>1, <3>2
    <3>3. CASE up[d] # <<>> /\ up'[d] = Tail(up[d])
      <4>1. up[d] \in Seq(UpMsg)
        BY DEF TypeOK
      <4>2. \A k \in 1..Len(up'[d]) : k + 1 \in 1..Len(up[d]) /\ up'[d][k] = up[d][k + 1]
        BY <3>3, <4>1, TailElements
      <4> QED
        BY <3>1, <4>2
    <3> QED
      BY <2>3, <2>4, <3>2, <3>3
  <2>5. ASSUME NEW d \in Conn, NEW i \in Item, st'[d] # "none", node'[d][i].synced = 0
        PROVE  \A k \in 1..Len(down[d]) : down[d][k].type = "notify" => down[d][k].item # i
    BY <2>3, <2>5 DEF VersionsAgree, NothingBeforeSend
  <2> QED
    BY <2>1, <2>2, <2>4, <2>5 DEF VersionsAgree, NothingBeforeSend
<1> QED
  BY <1>1, <1>5, <1>6, <1>7 DEF VersionsAgree, EditsAreAlone, CfgIsVersion

\* Taking a message: a heartbeat, an acknowledgement, a request for the settings.
LEMMA ReceiveAgrees ==
    ASSUME TypeOK, VersionsAgree, NEW c \in Conn, Receive(c)
    PROVE  VersionsAgree'
<1>1. node[c] \in [Item -> NodeItem] /\ \A i \in Item : node[c][i] \in NodeItem
  BY DEF TypeOK
<1>2. NoWork.type # "ack"
  BY DEF NoWork
<1>3. CASE RecvBeat(c)
  BY <1>1, <1>2, <1>3, TakeAgrees DEF RecvBeat
<1>4. CASE RecvAck(c)
  <2> DEFINE i == Head(up[c]).item
             n == [node[c] EXCEPT ![i] = [node[c][i] EXCEPT !.timeout = "zero"]]
             w == [type |-> "ack", item |-> i, seq |-> node[c][i].synced]
  <2>1. Head(up[c]) \in UpMsg
    BY <1>4 DEF RecvAck, TypeOK
  <2>2. i \in Item
    BY <1>4, <2>1 DEF RecvAck, UpMsg
  <2>3. [node[c][i] EXCEPT !.timeout = "zero"] \in NodeItem
    BY <1>1, <2>2 DEF NodeItem
  <2>4. n \in [Item -> NodeItem]
    BY <1>1, <2>2, <2>3
  <2>5. ASSUME NEW j \in Item
        PROVE  /\ n[j].sync = node[c][j].sync /\ n[j].synced = node[c][j].synced
               /\ n[j].val = node[c][j].val
               /\ node[c][j].timeout = "zero" => n[j].timeout = "zero"
    <3>1. CASE j = i
      <4>1. n[j] = [node[c][i] EXCEPT !.timeout = "zero"] /\ node[c][i] \in NodeItem
        BY <1>1, <2>2, <3>1
      <4> QED
        BY <3>1, <4>1 DEF NodeItem
    <3>2. CASE j # i
      BY <1>1, <2>2, <3>2
    <3> QED
      BY <3>1, <3>2
  <2>6. Take(c, n, w) /\ UNCHANGED <<row, adm, cfg, down, link, dev, conf>>
    BY <1>4 DEF RecvAck
  <2>7. node[c][i].synced # 0
    <3>1. up[c] \in Seq(UpMsg) /\ up[c] # <<>> /\ st[c] # "none" /\ Head(up[c]).type = "ack"
      BY <1>4, <2>6 DEF RecvAck, Take, TypeOK
    <3>2. 1 \in 1..Len(up[c]) /\ up[c][1] = Head(up[c])
      BY <3>1
    <3> QED
      BY <2>2, <3>1, <3>2 DEF VersionsAgree, NothingBeforeSend
  <2>8. \A j \in Item : w.type = "ack" /\ w.item = j =>
                         w.seq = node[c][j].synced /\ node[c][j].synced # 0
    BY <2>7
  <2> HIDE DEF n, w
  <2> QED
    BY <2>4, <2>5, <2>6, <2>8, TakeAgrees
<1>5. CASE RecvConfRequest(c)
  <2>1. ASSUME NEW v PROVE [type |-> "conf", vals |-> v].type # "ack"
    OBVIOUS
  <2> QED
    BY <1>1, <1>2, <1>5, <2>1, TakeAgrees DEF RecvConfRequest
<1> QED
  BY <1>3, <1>4, <1>5 DEF Receive

\* Recording an acknowledgement.
LEMMA UpdateSyncedSeqAgrees ==
    ASSUME TypeOK, VersionsAgree, NEW c \in Conn, UpdateSyncedSeq(c)
    PROVE  VersionsAgree'
<1> DEFINE i == work[c].item
<1>1. /\ UNCHANGED <<adm, cfg, st, node, down, up, link, dev, conf>>
      /\ cfg.pc = "idle" /\ i \in Item /\ work[c].seq \in Nat /\ work[c].type = "ack"
  BY NumbersTyped DEF UpdateSyncedSeq, DbFree
<1>2. \A d \in Conn : work'[d] = work[d] \/ work'[d] = NoWork
  BY DEF UpdateSyncedSeq, TypeOK
<1>3. \A j \in Item : /\ row'[j].sync = row[j].sync /\ row'[j].val = row[j].val
                      /\ \/ row'[j].synced = row[j].synced
                         \/ j = i /\ row'[j].synced = work[c].seq
  <2>1. row[i] \in Row /\ row \in [Item -> Row]
    BY <1>1 DEF TypeOK
  <2>2. CASE row' = [row EXCEPT ![i] = [row[i] EXCEPT !.synced = work[c].seq]]
    <3>1. \A j \in Item : j # i => row'[j] = row[j]
      BY <2>1, <2>2
    <3>2. row'[i] = [row[i] EXCEPT !.synced = work[c].seq]
      BY <1>1, <2>1, <2>2
    <3> QED
      BY <2>1, <3>1, <3>2 DEF Row
  <2>3. CASE row' = row
    BY <2>3
  <2> QED
    BY <2>2, <2>3 DEF UpdateSyncedSeq
<1>4. WorkAgrees(c, i)
  BY <1>1 DEF VersionsAgree, WorkIsOld
<1>5. NoWork.type # "ack"
  BY DEF NoWork
<1>6. \A j \in Item : row'[j].synced <= row'[j].sync
  BY <1>1, <1>3, <1>4 DEF VersionsAgree, WorkAgrees
<1>7. EditsAreAlone'
  BY <1>1, <1>3 DEF VersionsAgree, EditsAreAlone
<1>8. NodeIsVersion'
  <2> SUFFICES ASSUME NEW d \in Keyed, NEW j \in Item PROVE NodeAgrees(d, j)'
    BY <1>1 DEF NodeIsVersion, Keyed
  <2>1. NodeAgrees(d, j) /\ d \in Conn
    BY DEF VersionsAgree, NodeIsVersion, Keyed
  <2>2. work'[d].type = "ack" => work'[d] = work[d]
    BY <1>2, <1>5, <2>1
  <2>3. j = i => /\ node[d][j].sync = 0 \/ work[c].seq <= node[d][j].sync
                 /\ node[d][j].synced = 0 \/ work[c].seq <= node[d][j].synced
    BY <1>1, <1>4 DEF WorkAgrees
  <2> QED
    BY <1>1, <1>3, <2>1, <2>2, <2>3 DEF NodeAgrees
<1>9. WorkIsOld'
  BY <1>1, <1>2, <1>3, <1>5 DEF VersionsAgree, WorkIsOld, WorkAgrees, Keyed
<1> QED
  BY <1>1, <1>6, <1>7, <1>8, <1>9 DEF VersionsAgree, CfgIsVersion, NothingBeforeSend, Keyed

\* Answering a request for the settings.
LEMMA ConfResponseAgrees ==
    ASSUME TypeOK, VersionsAgree, NEW c \in Conn, send_conf_response(c)
    PROVE  VersionsAgree'
<1> DEFINE m == [type |-> "conf", vals |-> work[c].vals]
<1>1. UNCHANGED <<row, adm, cfg, st, node, up, link, dev, conf>>
  BY DEF send_conf_response
<1>2. \A d \in Conn : work'[d] = work[d] \/ work'[d].type = "none"
  BY DEF send_conf_response, TypeOK, NoWork
<1>3. m \in DownMsg /\ m.type # "notify"
  BY WorkTyped DEF send_conf_response, DownMsg
<1>4. /\ \A d \in Conn : d # link => down'[d] = down[d]
      /\ \A d \in Conn : \A k \in 1..Len(down'[d]) :
            down'[d][k] = m \/ (k \in 1..Len(down[d]) /\ down'[d][k] = down[d][k])
  <2>1. CASE Post(c, m)
    BY <1>3, <2>1, PostElements, Zenon
  <2>2. CASE down' = down
    BY <2>2
  <2> QED
    BY <2>1, <2>2 DEF send_conf_response
<1>5. NothingBeforeSend'
  <2>1. ASSUME NEW d \in Conn, NEW i \in Item, st[d] # "none", node[d][i].synced = 0
        PROVE  \A k \in 1..Len(down'[d]) : down'[d][k].type = "notify" => down'[d][k].item # i
    <3>1. \A k \in 1..Len(down[d]) : down[d][k].type = "notify" => down[d][k].item # i
      BY <2>1 DEF VersionsAgree, NothingBeforeSend
    <3> HIDE DEF m
    <3> QED
      BY <1>3, <1>4, <3>1
  <2> QED
    BY <1>1, <1>4, <2>1 DEF VersionsAgree, NothingBeforeSend, Keyed
<1>6. NodeIsVersion'
  BY <1>1, <1>2 DEF VersionsAgree, NodeIsVersion, NodeAgrees, Keyed
<1>7. WorkIsOld'
  BY <1>1, <1>2 DEF VersionsAgree, WorkIsOld, WorkAgrees, Keyed
<1> QED
  BY <1>1, <1>5, <1>6, <1>7 DEF VersionsAgree, EditsAreAlone, CfgIsVersion, Keyed

\* A node is deleted.
LEMMA DelAgrees ==
    ASSUME TypeOK, VersionsAgree, NEW c \in Conn, _cnm_client_del(c)
    PROVE  VersionsAgree'
<1>1. UNCHANGED <<row, adm, cfg, work, down, link, dev, conf>> /\ Keyed' = Keyed \ {c}
  BY DEF _cnm_client_del, Keyed, TypeOK
<1>2. /\ st'[c] = "none" /\ up'[c] = <<>> /\ node'[c] = FreshNode
      /\ \A d \in Conn \ {c} : st'[d] = st[d] /\ up'[d] = up[d] /\ node'[d] = node[d]
  BY DEF _cnm_client_del, TypeOK
<1>3. NodeIsVersion'
  BY <1>1, <1>2 DEF VersionsAgree, NodeIsVersion, NodeAgrees, Keyed
<1>4. WorkIsOld'
  BY <1>1, <1>2 DEF VersionsAgree, WorkIsOld, WorkAgrees, Keyed
<1>5. NothingBeforeSend'
  BY <1>1, <1>2 DEF VersionsAgree, NothingBeforeSend
<1> QED
  BY <1>1, <1>3, <1>4, <1>5 DEF VersionsAgree, EditsAreAlone, CfgIsVersion

\* The server restarts.
LEMMA RestartAgrees ==
    ASSUME TypeOK, VersionsAgree, ServerRestart
    PROVE  VersionsAgree'
<1>1. UNCHANGED <<row, adm, down, link, dev, conf>> /\ Keyed' = {} /\ cfg'.pc = "idle"
  BY DEF ServerRestart, Keyed, BlankCfg
<1>2. \A c \in Conn : /\ st'[c] = "none" /\ up'[c] = <<>> /\ node'[c] = FreshNode
                      /\ work'[c].type = "none"
  BY DEF ServerRestart, NoWork
<1> QED
  BY <1>1, <1>2 DEF VersionsAgree, EditsAreAlone, CfgIsVersion, NodeIsVersion, WorkIsOld, WorkAgrees,
                    NothingBeforeSend

-----------------------------------------------------------------------------
(* The device.                                                              *)

\* The device connects.
LEMMA ConnectAgrees ==
    ASSUME TypeOK, VersionsAgree, NEW c \in Conn, Connect(c)
    PROVE  VersionsAgree'
<1>1. UNCHANGED <<row, adm, cfg, node, work, down, up, dev, conf>> /\ Keyed' = Keyed
  BY DEF Connect, Keyed, TypeOK
<1>2. \A d \in Conn : d # link
  BY NoConnIsNoConn DEF Connect
<1>3. \A d \in Conn : down[d] = <<>>
  BY <1>2 DEF VersionsAgree, NothingBeforeSend
<1>4. \A d \in Conn : st'[d] = st[d] \/ up[d] = <<>>
  BY DEF Connect, TypeOK, VersionsAgree, NothingBeforeSend
<1>5. \A d \in Conn : st'[d] = "none" => st[d] = "none"
  BY DEF Connect, TypeOK
<1>6. NothingBeforeSend'
  BY <1>1, <1>3, <1>4, <1>5 DEF VersionsAgree, NothingBeforeSend
<1>7. NodeIsVersion'
  BY <1>1 DEF VersionsAgree, NodeIsVersion, NodeAgrees
<1>8. WorkIsOld'
  BY <1>1 DEF VersionsAgree, WorkIsOld, WorkAgrees
<1> QED
  BY <1>1, <1>6, <1>7, <1>8 DEF VersionsAgree, EditsAreAlone, CfgIsVersion

\* What the queues to the server hold after the device writes a message.
LEMMA WriteElements ==
    ASSUME TypeOK, NEW m \in UpMsg, Write(m)
    PROVE  /\ link \in Conn
           /\ \A d \in Conn : d # link \/ st[d] = "none" => up'[d] = up[d]
           /\ \A d \in Conn : \A k \in 1..Len(up'[d]) :
                 up'[d][k] = m \/ (k \in 1..Len(up[d]) /\ up'[d][k] = up[d][k])
<1>1. link \in Conn
  BY DEF Write, TypeOK
<1>2. \A d \in Conn : d # link \/ st[d] = "none" => up'[d] = up[d]
  BY <1>1 DEF Write, TypeOK
<1>3. st[link] # "none" => up'[link] = Append(up[link], m)
  BY <1>1 DEF Write, TypeOK
<1>4. up[link] \in Seq(UpMsg)
  BY <1>1 DEF TypeOK
<1>5. st[link] # "none" => \A k \in 1..Len(up'[link]) :
         up'[link][k] = m \/ (k \in 1..Len(up[link]) /\ up'[link][k] = up[link][k])
  BY <1>3, <1>4, AppendedElements
<1> QED
  BY <1>1, <1>2, <1>5, Zenon

\* Nothing but the queues and the device changes, and both queues keep their promise.
LEMMA QueuesAgree ==
    ASSUME VersionsAgree, UNCHANGED <<row, adm, cfg, st, node, work>>, NothingBeforeSend'
    PROVE  VersionsAgree'
BY DEF VersionsAgree, EditsAreAlone, CfgIsVersion, NodeIsVersion, NodeAgrees, WorkIsOld, WorkAgrees, Keyed

\* The device writes something that is not an acknowledgement.
LEMMA PeriodicAgrees ==
    ASSUME TypeOK, VersionsAgree, NEW m \in UpMsg, m.type # "ack", Write(m),
           UNCHANGED <<row, adm, cfg, st, node, work, down, link, dev, conf>>
    PROVE  VersionsAgree'
<1>1. \A d \in Conn : st[d] = "none" => up'[d] = <<>>
  BY WriteElements DEF VersionsAgree, NothingBeforeSend
<1>2. ASSUME NEW d \in Conn, NEW i \in Item, st[d] # "none", node[d][i].synced = 0
      PROVE  \A k \in 1..Len(up'[d]) : up'[d][k].type = "ack" => up'[d][k].item # i
  <2>1. \A k \in 1..Len(up[d]) : up[d][k].type = "ack" => up[d][k].item # i
    BY <1>2 DEF VersionsAgree, NothingBeforeSend
  <2> QED
    BY <2>1, WriteElements
<1>3. NothingBeforeSend'
  BY <1>1, <1>2 DEF VersionsAgree, NothingBeforeSend, Keyed
<1> QED
  BY <1>3, QueuesAgree

\* What is left of the queue to the device after it has taken the first message.
LEMMA TakenElements ==
    ASSUME TypeOK, link # NoConn, down[link] # <<>>, down' = [down EXCEPT ![link] = Tail(@)]
    PROVE  /\ link \in Conn /\ Head(down[link]) \in DownMsg /\ Head(down[link]) = down[link][1]
           /\ Len(down[link]) \in Nat /\ 1 \in 1..Len(down[link])
           /\ \A d \in Conn : d # link => down'[d] = down[d]
           /\ \A k \in 1..Len(down'[link]) :
                 k + 1 \in 1..Len(down[link]) /\ down'[link][k] = down[link][k + 1]
           /\ Len(down'[link]) = Len(down[link]) - 1
<1>1. link \in Conn /\ down[link] \in Seq(DownMsg) /\ down'[link] = Tail(down[link])
  BY DEF TypeOK
<1>2. Head(down[link]) \in DownMsg /\ Head(down[link]) = down[link][1]
  BY <1>1
<1>3. Len(down[link]) \in Nat /\ 1 \in 1..Len(down[link]) /\ Len(Tail(down[link])) = Len(down[link]) - 1
  BY <1>1
<1>4. \A k \in 1..Len(down'[link]) : k + 1 \in 1..Len(down[link]) /\ down'[link][k] = down[link][k + 1]
  BY <1>1, TailElements, Zenon
<1>5. \A d \in Conn : d # link => down'[d] = down[d]
  BY DEF TypeOK
<1> QED
  BY <1>1, <1>2, <1>3, <1>4, <1>5

\* The device applies a request and acknowledges it.
LEMMA RecvNotifyAgrees ==
    ASSUME TypeOK, VersionsAgree, RecvNotify
    PROVE  VersionsAgree'
<1> DEFINE h == Head(down[link])
           a == [type |-> "ack", item |-> h.item]
<1>1. /\ UNCHANGED <<row, adm, cfg, st, node, work, link, conf>>
      /\ link # NoConn /\ down[link] # <<>> /\ h.type = "notify" /\ Write(a)
      /\ down' = [down EXCEPT ![link] = Tail(@)]
  BY DEF RecvNotify
<1>2. a \in UpMsg
  BY <1>1, TakenElements DEF DownMsg, UpMsg
<1>3. \A d \in Conn : st[d] = "none" => up'[d] = <<>>
  BY <1>1, <1>2, WriteElements DEF VersionsAgree, NothingBeforeSend
<1>4. ASSUME NEW d \in Conn, NEW i \in Item, st[d] # "none", node[d][i].synced = 0
      PROVE  \A k \in 1..Len(up'[d]) : up'[d][k].type = "ack" => up'[d][k].item # i
  <2>1. /\ \A k \in 1..Len(up[d]) : up[d][k].type = "ack" => up[d][k].item # i
        /\ \A k \in 1..Len(down[d]) : down[d][k].type = "notify" => down[d][k].item # i
    BY <1>4 DEF VersionsAgree, NothingBeforeSend
  <2>2. CASE d = link
    <3>1. h.item # i
      BY <1>1, <2>1, <2>2, TakenElements
    <3> QED
      BY <1>1, <1>2, <2>1, <3>1, WriteElements
  <2>3. CASE d # link
    BY <1>1, <1>2, <2>1, <2>3, WriteElements
  <2> QED
    BY <2>2, <2>3
<1>5. ASSUME NEW d \in Conn, NEW i \in Item, st[d] # "none", node[d][i].synced = 0
      PROVE  \A k \in 1..Len(down'[d]) : down'[d][k].type = "notify" => down'[d][k].item # i
  <2>1. \A k \in 1..Len(down[d]) : down[d][k].type = "notify" => down[d][k].item # i
    BY <1>5 DEF VersionsAgree, NothingBeforeSend
  <2> QED
    BY <1>1, <2>1, TakenElements
<1>6. \A d \in Conn : d # link => down'[d] = <<>>
  BY <1>1, TakenElements DEF VersionsAgree, NothingBeforeSend
<1>7. NothingBeforeSend'
  BY <1>1, <1>3, <1>4, <1>5, <1>6 DEF VersionsAgree, NothingBeforeSend, Keyed
<1> QED
  BY <1>1, <1>7, QueuesAgree

\* The device applies the configuration.
LEMMA RecvConfAgrees ==
    ASSUME TypeOK, VersionsAgree, RecvConf
    PROVE  VersionsAgree'
<1>1. /\ UNCHANGED <<row, adm, cfg, st, node, work, up, link>>
      /\ link # NoConn /\ down[link] # <<>>
      /\ down' = [down EXCEPT ![link] = Tail(@)]
  BY DEF RecvConf
<1>2. ASSUME NEW d \in Conn, NEW i \in Item, st[d] # "none", node[d][i].synced = 0
      PROVE  \A k \in 1..Len(down'[d]) : down'[d][k].type = "notify" => down'[d][k].item # i
  <2>1. \A k \in 1..Len(down[d]) : down[d][k].type = "notify" => down[d][k].item # i
    BY <1>2 DEF VersionsAgree, NothingBeforeSend
  <2> QED
    BY <1>1, <2>1, TakenElements
<1>3. \A d \in Conn : d # link => down'[d] = <<>>
  BY <1>1, TakenElements DEF VersionsAgree, NothingBeforeSend
<1>4. NothingBeforeSend'
  BY <1>1, <1>2, <1>3 DEF VersionsAgree, NothingBeforeSend, Keyed
<1> QED
  BY <1>1, <1>4, QueuesAgree

\* The link ends, with or without the process.
LEMMA LeaveAgrees ==
    ASSUME TypeOK, VersionsAgree, Leave, UNCHANGED <<row, adm, cfg, st, node, work>>
    PROVE  VersionsAgree'
<1>1. PICK n \in 0..Len(up[link]) : up' = [up EXCEPT ![link] = SubSeq(@, 1, n)]
  BY DEF Leave
<1>2. link \in Conn /\ down' = [down EXCEPT ![link] = <<>>] /\ link' = NoConn
  BY DEF Leave, TypeOK
<1>3. \A d \in Conn : down'[d] = <<>>
  BY <1>2 DEF VersionsAgree, NothingBeforeSend, TypeOK
<1>4. up[link] \in Seq(UpMsg) /\ Len(up[link]) \in Nat /\ up'[link] = SubSeq(up[link], 1, n)
  BY <1>1, <1>2 DEF TypeOK
<1>5. \A k \in 1..Len(up'[link]) : k \in 1..Len(up[link]) /\ up'[link][k] = up[link][k]
  BY <1>4, SubSeqProperties
<1>6. \A d \in Conn : d # link => up'[d] = up[d]
  BY <1>1 DEF TypeOK
<1>7. up[link] = <<>> => up'[link] = <<>>
  BY <1>4
<1>8. \A d \in Conn : st[d] = "none" => up'[d] = <<>>
  BY <1>6, <1>7 DEF VersionsAgree, NothingBeforeSend
<1>9. ASSUME NEW d \in Conn, NEW i \in Item, st[d] # "none", node[d][i].synced = 0
      PROVE  \A k \in 1..Len(up'[d]) : up'[d][k].type = "ack" => up'[d][k].item # i
  <2>1. \A k \in 1..Len(up[d]) : up[d][k].type = "ack" => up[d][k].item # i
    BY <1>9 DEF VersionsAgree, NothingBeforeSend
  <2> QED
    BY <1>5, <1>6, <2>1
<1>10. NothingBeforeSend'
  BY <1>3, <1>8, <1>9 DEF VersionsAgree, NothingBeforeSend, Keyed
<1> QED
  BY <1>10, QueuesAgree

-----------------------------------------------------------------------------
(* The theorems.                                                            *)

\* Where edits are apart, every step keeps the versions in agreement.
LEMMA StepAgrees ==
    ASSUME TypeOK, VersionsAgree, EditsApart, [Next]_vars
    PROVE  VersionsAgree'
<1>1. ASSUME NEW a \in Admin, EditRead(a) \/ EditSave(a) PROVE VersionsAgree'
  BY <1>1, EditReadAgrees, EditSaveAgrees
<1>2. CASE CfgUpdateTimer
  BY <1>2, CfgIdleAgrees DEF CfgUpdateTimer, DbFree, TypeOK
<1>3. CASE CfgEnd
  BY <1>3, CfgIdleAgrees DEF CfgEnd, BlankCfg
<1>4. ASSUME NEW i \in Item, CfgSelect(i) PROVE VersionsAgree'
  BY <1>4, CfgSelectAgrees
<1>5. CASE Timer
  BY <1>2, <1>3, <1>4, <1>5, UpdateSeqAgrees, UpdateValAgrees DEF Timer
<1>6. ASSUME NEW c \in Conn, Receive(c) \/ Finish(c) \/ _cnm_client_del(c) PROVE VersionsAgree'
  BY <1>6, ReceiveAgrees, UpdateSyncedSeqAgrees, ConfResponseAgrees, DelAgrees DEF Finish
<1>7. ASSUME NEW c \in Conn, NEW i \in Item, send_value_to_client(c, i) \/ SyncTimeout(c, i)
      PROVE  VersionsAgree'
  BY <1>7, SendAgrees, SyncTimeoutAgrees
<1>8. CASE Server
  BY <1>6, <1>7, <1>8, RestartAgrees DEF Server
<1>9. CASE Heartbeat
  <2>1. [type |-> "beat"] \in UpMsg /\ [type |-> "beat"].type # "ack"
    BY DEF UpMsg
  <2> QED
    BY <1>9, <2>1, PeriodicAgrees DEF Heartbeat
<1>10. CASE send_conf_request_to_server
  <2>1. [type |-> "conf_request"] \in UpMsg /\ [type |-> "conf_request"].type # "ack"
    BY DEF UpMsg
  <2> QED
    BY <1>10, <2>1, PeriodicAgrees DEF send_conf_request_to_server
<1>11. CASE LinkDown \/ ClientRestart
  BY <1>11, LeaveAgrees DEF LinkDown, ClientRestart
<1>12. CASE Device
  BY <1>9, <1>10, <1>11, <1>12, ConnectAgrees, RecvNotifyAgrees, RecvConfAgrees DEF Device
<1>13. CASE UNCHANGED vars
  BY <1>13 DEF vars, VersionsAgree, EditsAreAlone, CfgIsVersion, NodeIsVersion, NodeAgrees, WorkIsOld,
               WorkAgrees, NothingBeforeSend, Keyed
<1> QED
  BY <1>1, <1>5, <1>8, <1>12, <1>13 DEF Next, Web

\* The numbers in the row, in CfgUpdateTimer, in the nodes and in the threads that
\* wait with an acknowledgement agree, for any number of settings, connections,
\* lost links, restarts and failing database calls.
THEOREM VersionsAlwaysAgree == Spec /\ EditsApart => []VersionsAgree
<1>1. TypeOK /\ VersionsAgree /\ EditsApart /\ [Next]_vars => VersionsAgree'
  BY StepAgrees
<1> QED
  BY <1>1, InitAgrees, EditsStayApart, TypeCorrect, StepIsNext, PTL DEF Spec

\* Only the thread of a replaced connection records an older number.
LEMMA StepBack ==
    ASSUME TypeOK, VersionsAgree, [Next]_vars, NEW i \in Item, row'[i].synced < row[i].synced
    PROVE  \E c \in Conn : work[c].type = "ack" /\ st[c] # "keyed"
<1>1. row[i].synced \in Nat
  BY NumbersTyped
<1>2. ASSUME row'[i].synced = row[i].synced PROVE FALSE
  BY <1>1, <1>2
<1>3. CASE row' = row
  BY <1>2, <1>3
<1>4. ASSUME NEW a \in Admin, EditSave(a) PROVE FALSE
  BY <1>2, <1>4, EditSaves
<1>5. ASSUME NEW c \in Conn, UpdateSyncedSeq(c)
      PROVE  work[c].type = "ack" /\ st[c] # "keyed"
  <2>1. work[c].type = "ack" /\ work[c].item \in Item /\ work[c].seq \in Nat
    BY <1>5, NumbersTyped DEF UpdateSyncedSeq
  <2>2. work[c].item = i /\ row'[i].synced = work[c].seq
    <3>1. row \in [Item -> Row] /\ row[work[c].item] \in Row
      BY <2>1 DEF TypeOK
    <3>2. row' = [row EXCEPT ![work[c].item] = [row[work[c].item] EXCEPT !.synced = work[c].seq]]
      BY <1>2, <1>5 DEF UpdateSyncedSeq
    <3>3. work[c].item # i => row'[i] = row[i]
      BY <3>1, <3>2
    <3>4. row'[work[c].item] = [row[work[c].item] EXCEPT !.synced = work[c].seq]
      BY <2>1, <3>1, <3>2
    <3>5. row'[work[c].item].synced = work[c].seq
      BY <3>1, <3>4 DEF Row
    <3> QED
      BY <1>2, <3>3, <3>5
  <2>3. ASSUME st[c] = "keyed" PROVE FALSE
    <3>1. NodeAgrees(c, i)
      BY <2>3 DEF VersionsAgree, NodeIsVersion, Keyed
    <3> QED
      BY <1>1, <2>1, <2>2, <3>1, NumbersTyped DEF NodeAgrees
  <2> QED
    BY <2>1, <2>3
<1>6. ASSUME NEW a \in Admin, EditRead(a) PROVE row' = row
  BY <1>6 DEF EditRead
<1>8. ASSUME NEW c \in Conn, Receive(c) \/ send_conf_response(c) \/ _cnm_client_del(c) PROVE row' = row
  BY <1>8 DEF Receive, RecvBeat, RecvAck, RecvConfRequest, send_conf_response, _cnm_client_del
<1>9. ASSUME NEW c \in Conn, NEW j \in Item, send_value_to_client(c, j) \/ SyncTimeout(c, j)
      PROVE  row' = row
  BY <1>9 DEF send_value_to_client, SyncTimeout
<1>10. ServerRestart \/ Device \/ UNCHANGED vars => row' = row
  BY DEF ServerRestart, Device, Connect, Heartbeat, send_conf_request_to_server, RecvNotify,
         RecvConf, LinkDown, ClientRestart, vars
<1>11. Timer => row' = row
  BY DEF Timer, CfgUpdateTimer, CfgEnd, CfgSelect, cnm_client_update_seq, cnm_client_update_val
<1> QED
  BY <1>3, <1>4, <1>5, <1>6, <1>8, <1>9, <1>10, <1>11 DEF Next, Web, Server, Finish

\* The number recorded as synchronised goes back only when the thread of a
\* replaced connection records its acknowledgement late.
THEOREM SyncedGoesBackOnlyLateHolds == Spec /\ EditsApart => SyncedGoesBackOnlyLate
<1>1. ASSUME TypeOK, VersionsAgree, [Next]_vars
      PROVE  [\A i \in Item : row'[i].synced < row[i].synced =>
                \E c \in Conn : work[c].type = "ack" /\ st[c] # "keyed"]_vars
  BY <1>1, StepBack
<1> QED
  BY <1>1, TypeCorrect, VersionsAlwaysAgree, StepIsNext, PTL DEF Spec, SyncedGoesBackOnlyLate

-----------------------------------------------------------------------------
(* ValueSync implements SettingPush.                                        *)

\* A step that copies nothing anew out of the row only loses copies.
LEMMA CopiesShrink ==
    ASSUME NEW i \in Item,
           cfg'.pc \in {"seq", "val"} /\ cfg'.item = i => cfg'.sync \in Copies(i) \cup {0},
           \A c \in Conn : node'[c][i].sync \in Copies(i) \cup {0},
           \A c \in Conn : node'[c][i].synced \in Copies(i) \cup {0},
           \A c \in Conn : work'[c].type = "ack" /\ work'[c].item = i =>
                              work'[c].seq \in Copies(i) \cup {0}
    PROVE  Copies(i)' \in SUBSET Copies(i)
<1> SUFFICES ASSUME NEW n \in Copies(i)' PROVE n \in Copies(i)
  OBVIOUS
<1>1. n # 0
  BY DEF Copies
<1>2. \/ n = cfg'.sync /\ cfg'.pc \in {"seq", "val"} /\ cfg'.item = i
      \/ \E c \in Conn : n = node'[c][i].sync
      \/ \E c \in Conn : n = node'[c][i].synced
      \/ \E c \in Conn : n = work'[c].seq /\ work'[c].type = "ack" /\ work'[c].item = i
  BY DEF Copies
<1> QED
  BY <1>1, <1>2

\* The numbers that the server has are copies.
LEMMA CopiesHold ==
    ASSUME NEW i \in Item
    PROVE  /\ cfg.pc \in {"seq", "val"} /\ cfg.item = i => cfg.sync \in Copies(i) \cup {0}
           /\ \A c \in Conn : /\ node[c][i].sync \in Copies(i) \cup {0}
                              /\ node[c][i].synced \in Copies(i) \cup {0}
                              /\ work[c].type = "ack" /\ work[c].item = i =>
                                    work[c].seq \in Copies(i) \cup {0}
BY DEF Copies

\* The pass of CfgUpdateTimer copies the number out of the row, and hands it to nodes.
LEMMA TimerCarries ==
    ASSUME TypeOK, VersionsAgree, Timer, NEW i \in Item
    PROVE  /\ row' = row
           /\ \/ Copies(i)' \in SUBSET Copies(i)
              \/ row[i].sync # row[i].synced /\ Copies(i)' = Copies(i) \cup {row[i].sync}
<1>5. row' = row
  BY DEF Timer, CfgUpdateTimer, CfgEnd, CfgSelect, cnm_client_update_seq, cnm_client_update_val
<1> SUFFICES \/ Copies(i)' \in SUBSET Copies(i)
             \/ row[i].sync # row[i].synced /\ Copies(i)' = Copies(i) \cup {row[i].sync}
  BY <1>5
<1>1. CASE CfgUpdateTimer \/ CfgEnd
  <2>1. cfg'.pc \notin {"seq", "val"} /\ UNCHANGED <<node, work>>
    <3>1. CASE CfgUpdateTimer
      BY <3>1 DEF CfgUpdateTimer, TypeOK
    <3>2. CASE CfgEnd
      BY <3>2 DEF CfgEnd, BlankCfg
    <3> QED
      BY <1>1, <3>1, <3>2
  <2> QED
    BY <2>1, CopiesShrink, CopiesHold
<1>2. ASSUME NEW j \in Item, CfgSelect(j)
      PROVE  \/ Copies(i)' \in SUBSET Copies(i)
             \/ row[i].sync # row[i].synced /\ Copies(i)' = Copies(i) \cup {row[i].sync}
  <2>1. CASE row[j].sync = row[j].synced \/ j # i
    <3>1. cfg'.pc \in {"seq", "val"} => cfg'.item # i
      BY <1>2, <2>1 DEF CfgSelect, TypeOK
    <3>2. UNCHANGED <<node, work>>
      BY <1>2 DEF CfgSelect
    <3> QED
      BY <3>1, <3>2, CopiesShrink, CopiesHold
  <2>2. CASE row[j].sync # row[j].synced /\ j = i
    <3>1. cfg.pc = "select" /\ cfg'.pc = "seq" /\ cfg'.item = i /\ cfg'.sync = row[i].sync
      BY <1>2, <2>2 DEF CfgSelect, TypeOK
    <3>2. UNCHANGED <<node, work>>
      BY <1>2 DEF CfgSelect
    <3>3. row[i].sync # 0
      BY <2>2, NumbersTyped DEF VersionsAgree
    <3> QED
      BY <2>2, <3>1, <3>2, <3>3 DEF Copies
  <2> QED
    BY <2>1, <2>2
<1>3. CASE cnm_client_update_seq
  <2>1. cfg'.pc \in {"seq", "val"} => cfg'.item = cfg.item /\ cfg'.sync = cfg.sync
    BY <1>3 DEF cnm_client_update_seq, TypeOK
  <2>2. ASSUME NEW c \in Conn
        PROVE  /\ node'[c][i].sync = node[c][i].sync \/ (cfg.item = i /\ node'[c][i].sync = cfg.sync)
               /\ node'[c][i].synced = node[c][i].synced
    <3>1. node[c] \in [Item -> NodeItem] /\ node[c][i] \in NodeItem /\ cfg.item \in Item
      BY DEF TypeOK
    <3> QED
      BY <1>3, <3>1 DEF cnm_client_update_seq, NodeItem
  <2>3. cfg.pc = "seq" /\ work' = work
    BY <1>3 DEF cnm_client_update_seq
  <2>4. ASSUME NEW c \in Conn
        PROVE  node'[c][i].sync \in Copies(i) \cup {0} /\ node'[c][i].synced \in Copies(i) \cup {0}
    BY <2>2, <2>3, CopiesHold
  <2> QED
    BY <2>1, <2>3, <2>4, CopiesShrink, CopiesHold
<1>4. CASE cnm_client_update_val
  <2>1. cfg'.pc = "select" /\ work' = work
    BY <1>4 DEF cnm_client_update_val, TypeOK
  <2>2. ASSUME NEW c \in Conn
        PROVE  node'[c][i].sync = node[c][i].sync /\ node'[c][i].synced = node[c][i].synced
    <3>1. node[c] \in [Item -> NodeItem] /\ node[c][i] \in NodeItem /\ cfg.item \in Item
      BY DEF TypeOK
    <3> QED
      BY <1>4, <3>1 DEF cnm_client_update_val, NodeItem
  <2> QED
    BY <2>1, <2>2, CopiesShrink, CopiesHold
<1> QED
  BY <1>1, <1>2, <1>3, <1>4 DEF Timer

\* Sending claims a number that the node has.
LEMMA SendDrops ==
    ASSUME TypeOK, NEW i \in Item, NEW c \in Conn, NEW j \in Item,
           send_value_to_client(c, j) \/ SyncTimeout(c, j)
    PROVE  row' = row /\ Copies(i)' \in SUBSET Copies(i)
<1>1. UNCHANGED <<row, cfg, work>>
  BY DEF send_value_to_client, SyncTimeout
<1>2. ASSUME NEW d \in Conn
      PROVE  /\ node'[d][i].sync = node[d][i].sync
             /\ node'[d][i].synced \in {node[d][i].synced, node[d][i].sync}
  <2>1. node[d] \in [Item -> NodeItem] /\ node[d][i] \in NodeItem
    BY DEF TypeOK
  <2>2. node' = [node EXCEPT ![c] = node'[c]]
    BY DEF send_value_to_client, SyncTimeout, TypeOK
  <2>3. node'[c] = [node[c] EXCEPT ![j] = node'[c][j]]
    <3>1. node[c] \in [Item -> NodeItem]
      BY DEF TypeOK
    <3>2. \/ node'[c] = [node[c] EXCEPT ![j].timeout = "wait", ![j].synced = node[c][j].sync]
          \/ node'[c] = [node[c] EXCEPT ![j].timeout = "over"]
      BY DEF send_value_to_client, SyncTimeout, TypeOK
    <3> QED
      BY <3>1, <3>2
  <2>4. /\ node'[c][j].sync = node[c][j].sync
        /\ node'[c][j].synced \in {node[c][j].synced, node[c][j].sync}
    <3>1. node[c] \in [Item -> NodeItem] /\ node[c][j] \in NodeItem
      BY DEF TypeOK
    <3>2. CASE send_value_to_client(c, j)
      <4>1. node'[c][j] = [node[c][j] EXCEPT !.timeout = "wait", !.synced = node[c][j].sync]
        BY <3>1, <3>2 DEF send_value_to_client, TypeOK
      <4> QED
        BY <3>1, <4>1 DEF NodeItem
    <3>3. CASE SyncTimeout(c, j)
      <4>1. node'[c][j] = [node[c][j] EXCEPT !.timeout = "over"]
        BY <3>1, <3>3 DEF SyncTimeout, TypeOK
      <4> QED
        BY <3>1, <4>1 DEF NodeItem
    <3> QED
      BY <3>2, <3>3
  <2>5. d = c => node'[d][i] = IF i = j THEN node'[c][j] ELSE node[c][i]
    BY <2>1, <2>3
  <2>6. d # c => node'[d] = node[d]
    BY <2>2 DEF TypeOK
  <2> QED
    BY <2>4, <2>5, <2>6
<1> QED
  BY <1>1, <1>2, CopiesShrink, CopiesHold

\* Taking a message copies what the node claims into the work of the thread.
LEMMA ReceiveDrops ==
    ASSUME TypeOK, NEW i \in Item, NEW c \in Conn, Receive(c)
    PROVE  row' = row /\ Copies(i)' \in SUBSET Copies(i)
<1>1. UNCHANGED <<row, cfg>>
  BY DEF Receive, RecvBeat, RecvAck, RecvConfRequest
<1>2. PICK n, w :
        /\ Take(c, n, w)
        /\ n[i].sync = node[c][i].sync /\ n[i].synced = node[c][i].synced
        /\ w.type = "ack" /\ w.item = i => w.seq = node[c][i].synced
  <2>1. CASE RecvBeat(c)
    BY <2>1 DEF RecvBeat, NoWork
  <2>2. CASE RecvConfRequest(c)
    <3>1. \A v : [type |-> "conf", vals |-> v].type # "ack"
      OBVIOUS
    <3>2. NoWork.type # "ack"
      BY DEF NoWork
    <3>3. \/ Take(c, node[c], NoWork)
          \/ Take(c, node[c], [type |-> "conf", vals |-> [k \in Item |-> row[k].val]])
      BY <2>2 DEF RecvConfRequest
    <3> QED
      BY <3>1, <3>2, <3>3, Zenon
  <2>3. CASE RecvAck(c)
    <3> DEFINE m == Head(up[c])
               p == [node[c] EXCEPT ![m.item].timeout = "zero"]
               v == [type |-> "ack", item |-> m.item, seq |-> node[c][m.item].synced]
    <3>2. node[c] \in [Item -> NodeItem] /\ node[c][i] \in NodeItem
      BY DEF TypeOK
    <3>3. p[i].sync = node[c][i].sync /\ p[i].synced = node[c][i].synced
      BY <3>2 DEF NodeItem
    <3>4. Take(c, p, v)
      BY <2>3 DEF RecvAck
    <3>5. v.item = i => v.seq = node[c][i].synced
      OBVIOUS
    <3> HIDE DEF p, v
    <3> QED
      BY <3>3, <3>4, <3>5, Zenon
  <2> QED
    BY <2>1, <2>2, <2>3 DEF Receive
<1>3. ASSUME NEW d \in Conn
      PROVE  /\ node'[d][i].sync \in {node[d][i].sync, 0}
             /\ node'[d][i].synced \in {node[d][i].synced, 0}
             /\ work'[d].type = "ack" /\ work'[d].item = i =>
                  \/ work[d].type = "ack" /\ work[d].item = i /\ work'[d].seq = work[d].seq
                  \/ work'[d].seq = node[d][i].synced
  <2>1. /\ node'[d] = IF d = c THEN n ELSE IF d \in Keyed THEN FreshNode ELSE node[d]
        /\ work'[d] = IF d = c THEN w ELSE work[d]
    BY <1>2 DEF Take, TypeOK
  <2>2. FreshNode[i].sync = 0 /\ FreshNode[i].synced = 0
    BY DEF FreshNode
  <2> QED
    BY <1>2, <2>1, <2>2
<1> QED
  BY <1>1, <1>3, CopiesShrink, CopiesHold

\* Recording writes a copy into the row.
LEMMA UpdateRecords ==
    ASSUME TypeOK, VersionsAgree, NEW i \in Item, NEW c \in Conn, UpdateSyncedSeq(c)
    PROVE  /\ row'[i].sync = row[i].sync
           /\ row'[i].synced = row[i].synced \/ row'[i].synced \in Copies(i)
           /\ Copies(i)' \in SUBSET Copies(i)
<1>1. work[c].type = "ack" /\ work[c].item \in Item /\ work[c].seq # 0
  <2>1. work[c].type = "ack" /\ work[c].item \in Item
    BY NumbersTyped DEF UpdateSyncedSeq
  <2>2. WorkAgrees(c, work[c].item)
    BY <2>1 DEF VersionsAgree, WorkIsOld
  <2> QED
    BY <2>1, <2>2 DEF WorkAgrees
<1>2. Copies(i)' \in SUBSET Copies(i)
  <2>1. UNCHANGED <<cfg, node>>
    BY DEF UpdateSyncedSeq
  <2>2. \A d \in Conn : work'[d].type = "ack" => work'[d] = work[d]
    BY DEF UpdateSyncedSeq, NoWork, TypeOK
  <2> QED
    BY <2>1, <2>2, CopiesShrink, CopiesHold
<1>3. CASE row' = row
  BY <1>2, <1>3
<1>4. CASE row' = [row EXCEPT ![work[c].item].synced = work[c].seq]
  <2>1. row \in [Item -> Row] /\ row[i] \in Row
    BY DEF TypeOK
  <2>2. work[c].item # i => row'[i] = row[i]
    BY <1>4, <2>1
  <2>3. work[c].item = i => row'[i] = [row[i] EXCEPT !.synced = work[c].seq]
    BY <1>4, <2>1
  <2>4. work[c].item = i => row'[i].sync = row[i].sync /\ row'[i].synced = work[c].seq
    BY <2>1, <2>3 DEF Row
  <2>5. work[c].item = i => work[c].seq \in Copies(i)
    BY <1>1, CopiesHold
  <2> QED
    BY <1>2, <2>2, <2>4, <2>5
<1> QED
  BY <1>3, <1>4 DEF UpdateSyncedSeq

\* What a step of the system does to the two numbers and the copies.
LEMMA StepOnNumbers ==
    ASSUME TypeOK, VersionsAgree, [Next]_vars, NEW i \in Item
    PROVE  \/ /\ row'[i].sync = row[i].sync + 1 /\ row'[i].synced = row[i].synced
              /\ Copies(i)' = Copies(i)
           \/ /\ row' = row /\ row[i].sync # row[i].synced
              /\ Copies(i)' = Copies(i) \cup {row[i].sync}
           \/ /\ row'[i].sync = row[i].sync
              /\ row'[i].synced = row[i].synced \/ row'[i].synced \in Copies(i)
              /\ Copies(i)' \in SUBSET Copies(i)
<1>1. UNCHANGED <<cfg, node, work>> => Copies(i)' = Copies(i)
  BY DEF Copies
<1>2. CASE Web
  <2>1. PICK a \in Admin : EditRead(a) \/ EditSave(a)
    BY <1>2 DEF Web
  <2>2. UNCHANGED <<cfg, node, work>>
    BY <2>1 DEF EditRead, EditSave
  <2>3. CASE EditRead(a)
    BY <1>1, <2>2, <2>3 DEF EditRead
  <2>4. CASE EditSave(a)
    BY <1>1, <2>2, <2>4, EditSaves
  <2> QED
    BY <2>1, <2>3, <2>4
<1>3. CASE Timer
  BY <1>3, TimerCarries
<1>4. ASSUME NEW c \in Conn, Receive(c)
      PROVE  row' = row /\ Copies(i)' \in SUBSET Copies(i)
  BY <1>4, ReceiveDrops
<1>5. ASSUME NEW c \in Conn, NEW j \in Item, send_value_to_client(c, j) \/ SyncTimeout(c, j)
      PROVE  row' = row /\ Copies(i)' \in SUBSET Copies(i)
  BY <1>5, SendDrops
<1>6. ASSUME NEW c \in Conn, send_conf_response(c)
      PROVE  row' = row /\ Copies(i)' \in SUBSET Copies(i)
  <2>1. UNCHANGED <<row, cfg, node>>
    BY <1>6 DEF send_conf_response
  <2>2. \A d \in Conn : work'[d].type = "ack" => work'[d] = work[d]
    BY <1>6 DEF send_conf_response, NoWork, TypeOK
  <2> QED
    BY <2>1, <2>2, CopiesShrink, CopiesHold
<1>7. ASSUME NEW c \in Conn, _cnm_client_del(c)
      PROVE  row' = row /\ Copies(i)' \in SUBSET Copies(i)
  <2>1. UNCHANGED <<row, cfg, work>>
    BY <1>7 DEF _cnm_client_del
  <2>2. \A d \in Conn : node'[d] \in {node[d], FreshNode}
    BY <1>7 DEF _cnm_client_del, TypeOK
  <2>3. FreshNode[i].sync = 0 /\ FreshNode[i].synced = 0
    BY DEF FreshNode
  <2>4. ASSUME NEW d \in Conn
        PROVE  node'[d][i].sync \in Copies(i) \cup {0} /\ node'[d][i].synced \in Copies(i) \cup {0}
    BY <2>2, <2>3, CopiesHold
  <2> QED
    BY <2>1, <2>4, CopiesShrink, CopiesHold
<1>8. CASE ServerRestart
  <2>1. row' = row /\ cfg'.pc = "idle"
    BY <1>8 DEF ServerRestart, BlankCfg
  <2>2. \A d \in Conn : node'[d][i].sync = 0 /\ node'[d][i].synced = 0 /\ work'[d] = NoWork
    BY <1>8 DEF ServerRestart, FreshNode
  <2>3. NoWork.type # "ack"
    BY DEF NoWork
  <2>4. Copies(i)' \in SUBSET Copies(i)
    BY <2>1, <2>2, <2>3, CopiesShrink
  <2> QED
    BY <2>1, <2>4
<1>9. CASE Device \/ UNCHANGED vars
  <2>1. UNCHANGED <<row, cfg, node, work>>
    BY <1>9 DEF Device, Connect, Heartbeat, send_conf_request_to_server, RecvNotify, RecvConf,
                LinkDown, ClientRestart, vars
  <2> QED
    BY <1>1, <2>1
<1> QED
  BY <1>2, <1>3, <1>4, <1>5, <1>6, <1>7, <1>8, <1>9, UpdateRecords DEF Next, Server, Finish

\* Every step of the system is, for each setting, a step of SettingPush or none.
LEMMA StepPushes ==
    ASSUME TypeOK, VersionsAgree, [Next]_vars, NEW i \in Item
    PROVE  [Pushed(i)!Next]_(Pushed(i)!vars)
<1>1. CASE /\ row'[i].sync = row[i].sync + 1 /\ row'[i].synced = row[i].synced
           /\ Copies(i)' = Copies(i)
  BY <1>1 DEF Pushed!Next, Pushed!Ask
<1>2. CASE /\ row' = row /\ row[i].sync # row[i].synced
           /\ Copies(i)' = Copies(i) \cup {row[i].sync}
  BY <1>2 DEF Pushed!Next, Pushed!Carry
<1>3. CASE /\ row'[i].sync = row[i].sync
           /\ row'[i].synced = row[i].synced \/ row'[i].synced \in Copies(i)
           /\ Copies(i)' \in SUBSET Copies(i)
  BY <1>3 DEF Pushed!Next, Pushed!Drop, Pushed!Record
<1> QED
  BY <1>1, <1>2, <1>3, StepOnNumbers

\* ValueSync implements SettingPush, for every setting: any number of connections
\* that overlap, lost links, restarts and failing database calls.
THEOREM ImplementsSettingPushHolds == Spec /\ EditsApart => ImplementsSettingPush
<1>1. Init => \A i \in Item : Pushed(i)!Init
  <2> SUFFICES ASSUME Init, NEW i \in Item PROVE Pushed(i)!Init
    OBVIOUS
  <2>1. row[i].sync \in {0, 1} /\ row[i].synced = 0
    <3>1. row[i] \in [sync : {0, 1} \cap Seqs, synced : {0}, val : Value]
      BY DEF Init
    <3> QED
      BY <3>1
  <2>2. cfg.pc = "idle" /\ \A c \in Conn : node[c] = FreshNode /\ work[c].type = "none"
    BY DEF Init, BlankCfg, NoWork
  <2>3. Copies(i) = {}
    BY <2>2 DEF Copies, FreshNode
  <2> QED
    BY <2>1, <2>3 DEF Pushed!Init
<1>2. ASSUME TypeOK, VersionsAgree, [Next]_vars
      PROVE  [\A i \in Item : [Pushed(i)!Next]_(Pushed(i)!vars)]_vars
  BY <1>2, StepPushes
<1> QED
  BY <1>1, <1>2, TypeCorrect, VersionsAlwaysAgree, StepIsNext, PTL DEF Spec, ImplementsSettingPush


-----------------------------------------------------------------------------
(* What a claim is worth: while the connection stays, the device has what   *)
(* the node says was sent.                                                   *)

\* settings d end as v in i when the messages q have been read
Ends(d, q, i, v) ==
    \/ d[i] = v /\ \A k \in 1..Len(q) : ~About(q[k], i)
    \/ \E k \in 1..Len(q) :
          /\ About(q[k], i) /\ Carried(q[k], i) = v
          /\ \A j \in (k + 1)..Len(q) : ~About(q[j], i)

\* the node of the device's connection claims the newest number of i
Claims(i) == st[link] = "keyed" /\ node[link][i].synced = row[i].sync /\ row[i].sync # 0

\* Then the newest value is under way or in force, and so is it in the answer to a
\* request for the settings that the thread has still to send.
CarriedNewest(i) ==
    /\ Ends(dev, down[link], i, row[i].val)
    /\ work[link].type = "conf" => work[link].vals[i] = row[i].val

ClaimsInv ==
    "torn" \notin faults /\ link # NoConn => \A i \in Item : Claims(i) => CarriedNewest(i)

\* Before its first edit a setting has one value, wherever it is.
FirstValue(i) ==
    /\ \A k \in 1..Len(down[link]) : About(down[link][k], i) => Carried(down[link][k], i) = row[i].val
    /\ work[link].type = "conf" => work[link].vals[i] = row[i].val
    /\ conf => dev[i] = row[i].val

\* Where nothing goes wrong but calls to the database there is one connection, and
\* nothing is recorded that its node has not sent.
OneConnection ==
    /\ \A c \in Conn : c # link => st[c] = "none" /\ work[c] = NoWork
    /\ link = NoConn => ~conf /\ \A i \in Item : row[i].synced = 0
    /\ link # NoConn =>
          /\ st[link] # "none" /\ (work[link] # NoWork => st[link] = "keyed")
          /\ \A i \in Item : row[i].synced <= node[link][i].synced

UndisturbedInv ==
    Undisturbed =>
        /\ OneConnection
        /\ link # NoConn => \A i \in Item : row[i].sync = 0 => FirstValue(i)

\* A message about i is the last word on i once it is sent; another changes nothing.
LEMMA EndsAppend ==
    ASSUME NEW d, NEW i, NEW v, NEW S, NEW q \in Seq(S), NEW m \in S, NEW r, r = Append(q, m)
    PROVE  /\ About(m, i) /\ Carried(m, i) = v => Ends(d, r, i, v)
           /\ ~About(m, i) /\ Ends(d, q, i, v) => Ends(d, r, i, v)
<1>1. Len(q) \in Nat /\ Len(r) = Len(q) + 1 /\ r[Len(q) + 1] = m
  BY AppendProperties
<1>2. \A k \in 1..Len(q) : r[k] = q[k] /\ k \in 1..Len(r)
  BY <1>1, AppendProperties
<1>3. \A k \in 1..Len(r) : k = Len(q) + 1 \/ k \in 1..Len(q)
  BY <1>1
<1>4. ASSUME About(m, i), Carried(m, i) = v PROVE Ends(d, r, i, v)
  <2>1. Len(q) + 1 \in 1..Len(r) /\ (Len(q) + 2)..Len(r) = {} /\ Len(q) + 1 + 1 = Len(q) + 2
    BY <1>1
  <2> QED BY <1>1, <1>4, <2>1 DEF Ends
<1>5. ASSUME ~About(m, i), Ends(d, q, i, v) PROVE Ends(d, r, i, v)
  <2>1. CASE d[i] = v /\ \A k \in 1..Len(q) : ~About(q[k], i)
    <3>1. \A k \in 1..Len(r) : ~About(r[k], i)
      BY <1>1, <1>2, <1>3, <1>5, <2>1
    <3> QED BY <2>1, <3>1 DEF Ends
  <2>2. ASSUME NEW k \in 1..Len(q), About(q[k], i), Carried(q[k], i) = v,
               \A j \in (k + 1)..Len(q) : ~About(q[j], i)
        PROVE  Ends(d, r, i, v)
    <3>1. k \in 1..Len(r) /\ About(r[k], i) /\ Carried(r[k], i) = v
      BY <1>2, <2>2
    <3>2. \A j \in (k + 1)..Len(r) : j = Len(q) + 1 \/ (j \in (k + 1)..Len(q) /\ j \in 1..Len(q))
      BY <1>1
    <3>3. \A j \in (k + 1)..Len(r) : ~About(r[j], i)
      BY <1>1, <1>2, <1>5, <2>2, <3>2
    <3> QED BY <3>1, <3>3 DEF Ends
  <2> QED BY <1>5, <2>1, <2>2 DEF Ends
<1> QED BY <1>4, <1>5

\* Reading the first message changes nothing in how i ends.
LEMMA EndsTail ==
    ASSUME NEW d, NEW e, NEW i, NEW v, NEW S, NEW q \in Seq(S), q # <<>>, NEW r, r = Tail(q),
           About(Head(q), i) => e[i] = Carried(Head(q), i),
           ~About(Head(q), i) => e[i] = d[i],
           Ends(d, q, i, v)
    PROVE  Ends(e, r, i, v)
<1>1. Len(q) \in Nat /\ Len(q) # 0 /\ Len(r) = Len(q) - 1 /\ Head(q) = q[1]
  BY HeadTailProperties, EmptySeq
<1>2. \A k \in 1..Len(r) : k + 1 \in 1..Len(q) /\ r[k] = q[k + 1]
  BY TailElements
<1>3. 1 \in 1..Len(q)
  BY <1>1
<1>4. CASE d[i] = v /\ \A k \in 1..Len(q) : ~About(q[k], i)
  <2>1. ~About(Head(q), i)
    BY <1>1, <1>3, <1>4
  <2>2. \A k \in 1..Len(r) : ~About(r[k], i)
    BY <1>2, <1>4
  <2> QED BY <1>4, <2>1, <2>2 DEF Ends
<1>5. ASSUME NEW k \in 1..Len(q), About(q[k], i), Carried(q[k], i) = v,
             \A j \in (k + 1)..Len(q) : ~About(q[j], i)
      PROVE  Ends(e, r, i, v)
  <2>1. CASE k = 1
    <3>1. e[i] = v
      BY <1>1, <1>5, <2>1
    <3>2. \A j \in 1..Len(r) : j + 1 \in (k + 1)..Len(q)
      BY <1>1, <2>1
    <3>3. \A j \in 1..Len(r) : ~About(r[j], i)
      BY <1>2, <1>5, <3>2
    <3> QED BY <3>1, <3>3 DEF Ends
  <2>2. CASE k # 1
    <3>0. k - 1 \in 1..Len(r) /\ k = (k - 1) + 1
      BY <1>1, <2>2
    <3>1. PICK p \in 1..Len(r) : k = p + 1
      BY <3>0
    <3>2. About(r[p], i) /\ Carried(r[p], i) = v
      BY <1>2, <1>5, <3>1
    <3>3. \A j \in (p + 1)..Len(r) : j \in 1..Len(r) /\ j + 1 \in (k + 1)..Len(q)
      BY <1>1, <3>1
    <3>4. \A j \in (p + 1)..Len(r) : ~About(r[j], i)
      BY <1>2, <1>5, <3>3
    <3> QED BY <3>2, <3>4 DEF Ends
  <2> QED BY <2>1, <2>2
<1> QED BY <1>4, <1>5 DEF Ends

\* How a setting ends, seen from the device.
LEMMA WillRunEnds == \A i, v : Ends(dev, down[link], i, v) => WillRun(i, v)
BY DEF Ends, WillRun

\* The conditions on what is carried hold at the start.
LEMMA InitCarries == Init => ClaimsInv /\ UndisturbedInv
<1> SUFFICES ASSUME Init PROVE ClaimsInv /\ UndisturbedInv
  OBVIOUS
<1>1. \A i \in Item : row[i].synced = 0
  BY DEF Init
<1>2. link = NoConn /\ conf = FALSE /\ \A c \in Conn : st[c] = "none" /\ work[c] = NoWork
  BY DEF Init
<1> QED BY <1>1, <1>2 DEF ClaimsInv, UndisturbedInv, OneConnection

\* A step that sends, reads and records nothing keeps what is carried, unless it edits,
\* and then the number is one that nobody has claimed.
LEMMA KeepsCarried ==
    ASSUME TypeOK, ClaimsInv, UndisturbedInv, UNCHANGED <<faults, st, work, down, link, dev, conf>>,
           \A c \in Conn, i \in Item : node'[c][i].synced = node[c][i].synced,
           \A i \in Item : /\ row'[i].synced = row[i].synced
                           /\ \/ row'[i] = row[i]
                              \/ row'[i].sync # 0 /\ (link # NoConn => ~Claims(i)')
    PROVE  ClaimsInv' /\ UndisturbedInv'
<1>1. link # NoConn => link \in Conn
  BY DEF TypeOK
<1>2. ClaimsInv'
  <2> SUFFICES ASSUME "torn" \notin faults, link # NoConn, NEW i \in Item, Claims(i)'
               PROVE  CarriedNewest(i)'
    BY DEF ClaimsInv
  <2>1. row'[i] = row[i]
    OBVIOUS
  <2>2. Claims(i)
    BY <1>1, <2>1 DEF Claims
  <2>3. CarriedNewest(i)
    BY <2>2 DEF ClaimsInv
  <2> QED BY <2>1, <2>3 DEF CarriedNewest
<1>3. UndisturbedInv'
  <2> SUFFICES ASSUME Undisturbed
               PROVE  /\ OneConnection'
                      /\ link # NoConn => \A i \in Item : row'[i].sync = 0 => FirstValue(i)'
    BY DEF UndisturbedInv, Undisturbed
  <2>1. OneConnection'
    BY <1>1 DEF UndisturbedInv, OneConnection
  <2>2. ASSUME link # NoConn, NEW i \in Item, row'[i].sync = 0 PROVE FirstValue(i)'
    BY <2>2 DEF UndisturbedInv, FirstValue
  <2> QED BY <2>1, <2>2
<1> QED BY <1>2, <1>3

\* An edit.
LEMMA WebCarries ==
    ASSUME TypeOK, VersionsAgree, ClaimsInv, UndisturbedInv, UNCHANGED faults,
           NEW a \in Admin, EditRead(a) \/ EditSave(a)
    PROVE  ClaimsInv' /\ UndisturbedInv'
<1>1. UNCHANGED <<st, node, work, down, link, dev, conf>>
  BY DEF EditRead, EditSave
<1>2. ASSUME NEW i \in Item
      PROVE  \/ row'[i] = row[i]
             \/ row'[i].sync = row[i].sync + 1 /\ row'[i].synced = row[i].synced
  BY EditSaves DEF EditRead
<1>3. ASSUME NEW i \in Item, row'[i].sync = row[i].sync + 1
      PROVE  row'[i].sync # 0 /\ (link # NoConn => ~Claims(i)')
  <2>1. CASE link # NoConn /\ Claims(i)'
    <3>1. link \in Conn /\ link \in Keyed
      BY <1>1, <2>1 DEF Claims, Keyed, TypeOK
    <3>2. NodeAgrees(link, i)
      BY <3>1 DEF VersionsAgree, NodeIsVersion
    <3> QED BY <1>1, <1>3, <2>1, <3>1, <3>2, NumbersTyped DEF Claims, NodeAgrees
  <2> QED BY <1>3, <2>1, NumbersTyped
<1> QED BY <1>1, <1>2, <1>3, KeepsCarried

\* A step of the timer, which stores no claim.
LEMMA TimerKeepsCarried ==
    ASSUME TypeOK, ClaimsInv, UndisturbedInv, UNCHANGED faults, Timer
    PROVE  ClaimsInv' /\ UndisturbedInv'
<1>1. UNCHANGED <<row, st, work, down, link, dev, conf>>
  BY DEF Timer, CfgUpdateTimer, CfgEnd, CfgSelect, cnm_client_update_seq, cnm_client_update_val
<1>2. \A c \in Conn : \/ node'[c] = node[c]
                      \/ node'[c] = [node[c] EXCEPT ![cfg.item].sync = cfg.sync]
                      \/ node'[c] = [node[c] EXCEPT ![cfg.item].val = cfg.val]
  BY DEF Timer, CfgUpdateTimer, CfgEnd, CfgSelect, cnm_client_update_seq, cnm_client_update_val
<1>3. \A c \in Conn, i \in Item : node'[c][i].synced = node[c][i].synced
  <2> SUFFICES ASSUME NEW c \in Conn, NEW i \in Item PROVE node'[c][i].synced = node[c][i].synced
    OBVIOUS
  <2>1. node[c] \in [Item -> NodeItem] /\ node[c][i] \in NodeItem
    BY DEF TypeOK
  <2>2. CASE node'[c] = [node[c] EXCEPT ![cfg.item].sync = cfg.sync]
    <3>1. node'[c][i] = IF i = cfg.item THEN [node[c][i] EXCEPT !.sync = cfg.sync] ELSE node[c][i]
      BY <2>1, <2>2
    <3> QED BY <2>1, <3>1 DEF NodeItem
  <2>3. CASE node'[c] = [node[c] EXCEPT ![cfg.item].val = cfg.val]
    <3>1. node'[c][i] = IF i = cfg.item THEN [node[c][i] EXCEPT !.val = cfg.val] ELSE node[c][i]
      BY <2>1, <2>3
    <3> QED BY <2>1, <3>1 DEF NodeItem
  <2> QED BY <1>2, <2>2, <2>3
<1> QED BY <1>1, <1>3, KeepsCarried

\* The 60 seconds pass.
LEMMA SyncTimeoutCarries ==
    ASSUME TypeOK, ClaimsInv, UndisturbedInv, UNCHANGED faults,
           NEW c \in Conn, NEW i \in Item, SyncTimeout(c, i)
    PROVE  ClaimsInv' /\ UndisturbedInv'
<1>1. UNCHANGED <<row, st, work, down, link, dev, conf>>
  BY DEF SyncTimeout
<1>2. ASSUME NEW d \in Conn, NEW j \in Item PROVE node'[d][j].synced = node[d][j].synced
  <2>1. node[d] \in [Item -> NodeItem] /\ node[d][j] \in NodeItem
    BY DEF TypeOK
  <2> QED BY <2>1 DEF SyncTimeout, TypeOK, NodeItem
<1> QED BY <1>1, <1>2, KeepsCarried

\* The claim is made with the message that carries what is claimed.
LEMMA SendCarries ==
    ASSUME TypeOK, VersionsAgree, ClaimsInv, UndisturbedInv, UNCHANGED faults,
           NEW c \in Conn, NEW i \in Item, send_value_to_client(c, i)
    PROVE  ClaimsInv' /\ UndisturbedInv'
<1> DEFINE m == [type |-> "notify", item |-> i, val |-> node[c][i].val]
<1>1. /\ UNCHANGED <<row, st, work, link, dev, conf>>
      /\ c \in Keyed /\ st[c] = "keyed" /\ work[c] = NoWork /\ Post(c, m)
      /\ "torn" \in faults \/ cfg.pc # "val"
  BY DEF send_value_to_client, Keyed, KeyFree
<1>2. node[c] \in [Item -> NodeItem] /\ node[c][i] \in NodeItem
  BY DEF TypeOK
<1>3. /\ node'[c][i].synced = node[c][i].sync
      /\ \A d \in Conn, j \in Item : d # c \/ j # i => node'[d][j].synced = node[d][j].synced
  BY <1>2 DEF send_value_to_client, TypeOK, NodeItem
<1>4. NodeAgrees(c, i)
  BY <1>1 DEF VersionsAgree, NodeIsVersion
<1>5. node[c][i].sync # 0 /\ node[c][i].synced <= node[c][i].sync
  BY <1>4, NumbersTyped DEF send_value_to_client, NodeAgrees
<1>6. m \in DownMsg /\ About(m, i) /\ Carried(m, i) = node[c][i].val /\ \A j \in Item : j # i => ~About(m, j)
  BY <1>2 DEF DownMsg, About, Carried, NodeItem
<1>7. IF c = link THEN down'[link] = Append(down[link], m) ELSE down' = down
  BY <1>1 DEF Post, TypeOK
<1>8. down[c] \in Seq(DownMsg) /\ (link # NoConn => link \in Conn)
  BY DEF TypeOK
<1> HIDE DEF m
<1>9. ClaimsInv'
  <2> SUFFICES ASSUME "torn" \notin faults, link # NoConn, NEW j \in Item, Claims(j)'
               PROVE  CarriedNewest(j)'
    BY <1>1 DEF ClaimsInv
  <2>1. st[link] = "keyed" /\ link \in Keyed
    BY <1>1, <1>8 DEF Claims, Keyed
  <2>2. c = link
    BY <1>1, <2>1 DEF VersionsAgree
  <2>3. CASE j = i
    <3>1. node[c][i].sync = row[i].sync
      BY <1>1, <1>3, <2>2, <2>3 DEF Claims
    <3>2. node[c][i].val = row[i].val
      BY <1>1, <1>4, <1>5, <3>1 DEF NodeAgrees
    <3>3. Ends(dev, down'[link], i, row[i].val)
      BY <1>6, <1>7, <1>8, <2>2, <3>2, EndsAppend
    <3> QED BY <1>1, <2>2, <2>3, <3>3 DEF CarriedNewest, NoWork
  <2>4. CASE j # i
    <3>1. Claims(j)
      BY <1>1, <1>3, <1>8, <2>4 DEF Claims
    <3>2. CarriedNewest(j)
      BY <3>1 DEF ClaimsInv
    <3>3. Ends(dev, down'[link], j, row[j].val)
      BY <1>6, <1>7, <1>8, <2>2, <2>4, <3>2, EndsAppend DEF CarriedNewest
    <3> QED BY <1>1, <3>2, <3>3 DEF CarriedNewest
  <2> QED BY <2>3, <2>4
<1>10. UndisturbedInv'
  <2> SUFFICES ASSUME Undisturbed
               PROVE  /\ OneConnection'
                      /\ link # NoConn => \A j \in Item : row[j].sync = 0 => FirstValue(j)'
    BY <1>1 DEF UndisturbedInv, Undisturbed
  <2>1. OneConnection'
    <3>1. OneConnection
      BY DEF UndisturbedInv
    <3>2. ASSUME NEW j \in Item, link # NoConn PROVE row[j].synced <= node'[link][j].synced
      <4>1. row[j].synced <= node[link][j].synced
        BY <3>1, <3>2 DEF OneConnection
      <4> QED BY <1>3, <1>5, <1>8, <3>2, <4>1, NumbersTyped
    <3> QED BY <1>1, <3>1, <3>2 DEF OneConnection
  <2>2. ASSUME link # NoConn, NEW j \in Item, row[j].sync = 0 PROVE FirstValue(j)'
    <3>1. FirstValue(j)
      BY <2>2 DEF UndisturbedInv
    <3>2. j # i
      BY <1>4, <1>5, <2>2, NumbersTyped DEF NodeAgrees
    <3>3. CASE c = link
      <4>1. \A k \in 1..Len(down'[link]) :
               \/ down'[link][k] = m
               \/ k \in 1..Len(down[link]) /\ down'[link][k] = down[link][k]
        BY <1>6, <1>7, <1>8, <3>3, AppendedElements
      <4> QED BY <1>1, <1>6, <3>1, <3>2, <4>1 DEF FirstValue
    <3>4. CASE c # link
      BY <1>1, <1>7, <3>1, <3>4 DEF FirstValue
    <3> QED BY <3>3, <3>4
  <2> QED BY <2>1, <2>2
<1> QED BY <1>9, <1>10

\* Taking a message makes no claim; a request for the settings is answered by the row.
LEMMA TakeCarries ==
    ASSUME TypeOK, VersionsAgree, ClaimsInv, UndisturbedInv,
           NEW c \in Conn, NEW n \in [Item -> NodeItem], NEW w, Take(c, n, w),
           UNCHANGED <<faults, row, down, link, dev, conf>>,
           \A i \in Item : n[i].synced = node[c][i].synced,
           w.type = "conf" => \A i \in Item : w.vals[i] = row[i].val
    PROVE  ClaimsInv' /\ UndisturbedInv'
<1>1. /\ st'[c] = "keyed"
      /\ \A d \in Conn \ {c} : IF d \in Keyed THEN st'[d] = "none" ELSE st'[d] = st[d]
  BY DEF Take, Keyed
<1>2. /\ node'[c] = n /\ work'[c] = w /\ st[c] # "none"
      /\ \A d \in Conn \ {c} : work'[d] = work[d]
  BY DEF Take, TypeOK
<1>3. \A d \in Conn : st'[d] = "keyed" => d = c
  BY <1>1 DEF Keyed
<1>4. link # NoConn => link \in Conn
  BY DEF TypeOK
<1>5. ClaimsInv'
  <2> SUFFICES ASSUME "torn" \notin faults, link # NoConn, NEW i \in Item, Claims(i)'
               PROVE  CarriedNewest(i)'
    BY DEF ClaimsInv
  <2>1. link = c
    BY <1>3, <1>4 DEF Claims
  <2>2. node[c][i].synced = row[i].sync /\ row[i].sync # 0
    BY <1>2, <2>1 DEF Claims
  <2>3. st[c] = "keyed"
    BY <2>2 DEF VersionsAgree, NothingBeforeSend, Keyed, FreshNode
  <2>4. CarriedNewest(i)
    BY <2>1, <2>2, <2>3 DEF ClaimsInv, Claims
  <2> QED BY <1>2, <2>1, <2>4 DEF CarriedNewest
<1>6. UndisturbedInv'
  <2> SUFFICES ASSUME Undisturbed
               PROVE  /\ OneConnection'
                      /\ link # NoConn => \A i \in Item : row[i].sync = 0 => FirstValue(i)'
    BY DEF UndisturbedInv, Undisturbed
  <2>1. OneConnection
    BY DEF UndisturbedInv
  <2>2. link = c
    BY <1>2, <2>1 DEF OneConnection
  <2>3. \A d \in Conn : d # link => st'[d] = "none" /\ work'[d] = NoWork
    BY <1>1, <1>2, <2>1, <2>2 DEF OneConnection, Keyed
  <2>4. \A i \in Item : node'[link][i].synced = node[link][i].synced
    BY <1>2, <2>2
  <2>5. OneConnection'
    BY <1>1, <2>1, <2>2, <2>3, <2>4 DEF OneConnection
  <2>6. ASSUME link # NoConn, NEW i \in Item, row[i].sync = 0 PROVE FirstValue(i)'
    BY <1>2, <2>2, <2>6 DEF UndisturbedInv, FirstValue
  <2> QED BY <2>5, <2>6
<1> QED BY <1>5, <1>6

\* The three messages a connection can bring.
LEMMA ReceiveCarries ==
    ASSUME TypeOK, VersionsAgree, ClaimsInv, UndisturbedInv, UNCHANGED faults,
           NEW c \in Conn, Receive(c)
    PROVE  ClaimsInv' /\ UndisturbedInv'
<1>1. node[c] \in [Item -> NodeItem] /\ \A i \in Item : node[c][i] \in NodeItem
  BY DEF TypeOK
<1>2. UNCHANGED <<row, down, link, dev, conf>>
  BY DEF Receive, RecvBeat, RecvAck, RecvConfRequest
<1>3. NoWork.type # "conf"
  BY DEF NoWork
<1>4. CASE RecvBeat(c)
  BY <1>1, <1>2, <1>3, <1>4, TakeCarries DEF RecvBeat
<1>5. CASE RecvAck(c)
  <2> DEFINE i == Head(up[c]).item
             n == [node[c] EXCEPT ![i].timeout = "zero"]
             w == [type |-> "ack", item |-> i, seq |-> node[c][i].synced]
  <2>1. Take(c, n, w) /\ w.type # "conf"
    BY <1>5 DEF RecvAck
  <2>2. n \in [Item -> NodeItem]
    BY <1>1 DEF NodeItem
  <2>3. \A j \in Item : n[j].synced = node[c][j].synced
    BY <1>1 DEF NodeItem
  <2> HIDE DEF n, w
  <2> QED BY <1>2, <2>1, <2>2, <2>3, TakeCarries
<1>6. CASE RecvConfRequest(c)
  <2> DEFINE w == [type |-> "conf", vals |-> [i \in Item |-> row[i].val]]
  <2>1. Take(c, node[c], w) \/ Take(c, node[c], NoWork)
    BY <1>6 DEF RecvConfRequest
  <2>2. \A i \in Item : w.vals[i] = row[i].val
    OBVIOUS
  <2> HIDE DEF w
  <2> QED BY <1>1, <1>2, <1>3, <2>1, <2>2, TakeCarries
<1> QED BY <1>4, <1>5, <1>6 DEF Receive

\* What is recorded is what the node has sent.
LEMMA UpdateCarries ==
    ASSUME TypeOK, VersionsAgree, ClaimsInv, UndisturbedInv, UNCHANGED faults,
           NEW c \in Conn, UpdateSyncedSeq(c)
    PROVE  ClaimsInv' /\ UndisturbedInv'
<1>1. /\ UNCHANGED <<st, node, down, link, dev, conf>> /\ work[c].type = "ack"
      /\ work'[c] = NoWork /\ \A d \in Conn \ {c} : work'[d] = work[d]
  BY DEF UpdateSyncedSeq, TypeOK
<1>2. ASSUME NEW i \in Item
      PROVE  /\ row'[i].sync = row[i].sync /\ row'[i].val = row[i].val
             /\ row'[i].synced = row[i].synced \/ (work[c].item = i /\ row'[i].synced = work[c].seq)
  <2>1. row \in [Item -> Row] /\ row[i] \in Row
    BY DEF TypeOK
  <2>2. row' = row \/ row' = [row EXCEPT ![work[c].item].synced = work[c].seq]
    BY DEF UpdateSyncedSeq
  <2>3. CASE row' = [row EXCEPT ![work[c].item].synced = work[c].seq]
    <3>1. row'[i] = IF i = work[c].item THEN [row[i] EXCEPT !.synced = work[c].seq] ELSE row[i]
      BY <2>1, <2>3
    <3> QED BY <2>1, <3>1 DEF Row
  <2> QED BY <2>2, <2>3
<1>3. link # NoConn => link \in Conn
  BY DEF TypeOK
<1>4. NoWork.type = "none"
  BY DEF NoWork
<1>5. ClaimsInv'
  <2> SUFFICES ASSUME "torn" \notin faults, link # NoConn, NEW i \in Item, Claims(i)'
               PROVE  CarriedNewest(i)'
    BY <1>1 DEF ClaimsInv
  <2>1. Claims(i)
    BY <1>1, <1>2 DEF Claims
  <2>2. CarriedNewest(i)
    BY <2>1 DEF ClaimsInv
  <2> QED BY <1>1, <1>2, <1>3, <1>4, <2>2 DEF CarriedNewest
<1>6. UndisturbedInv'
  <2> SUFFICES ASSUME Undisturbed
               PROVE  /\ OneConnection'
                      /\ link # NoConn => \A i \in Item : row[i].sync = 0 => FirstValue(i)'
    BY <1>1, <1>2 DEF UndisturbedInv, Undisturbed
  <2>1. OneConnection
    BY DEF UndisturbedInv
  <2>2. c = link /\ link # NoConn /\ st[link] = "keyed"
    BY <1>1, <1>4, <2>1, NoConnIsNoConn DEF OneConnection
  <2>3. ASSUME NEW i \in Item PROVE row'[i].synced <= node[link][i].synced
    <3>1. row[i].synced <= node[link][i].synced
      BY <2>1, <2>2 DEF OneConnection
    <3>2. NodeAgrees(c, i)
      BY <2>2 DEF VersionsAgree, NodeIsVersion, Keyed
    <3>3. work[c].item = i => work[c].seq = node[link][i].synced
      BY <1>1, <2>2, <3>2 DEF NodeAgrees
    <3> QED BY <1>2, <2>2, <3>1, <3>3, NumbersTyped
  <2>4. \A d \in Conn : d # link => st'[d] = "none" /\ work'[d] = NoWork
    BY <1>1, <2>1, <2>2 DEF OneConnection
  <2>5. OneConnection'
    BY <1>1, <2>1, <2>2, <2>3, <2>4 DEF OneConnection
  <2>6. ASSUME NEW i \in Item, row[i].sync = 0 PROVE FirstValue(i)'
    BY <1>1, <1>2, <1>4, <2>2, <2>6 DEF UndisturbedInv, FirstValue
  <2> QED BY <2>5, <2>6
<1> QED BY <1>5, <1>6

\* The answer to a request for the settings carries what the claims say, because the
\* thread claims nothing between reading the row and answering.
LEMMA ConfResponseCarries ==
    ASSUME TypeOK, ClaimsInv, UndisturbedInv, UNCHANGED faults,
           NEW c \in Conn, send_conf_response(c)
    PROVE  ClaimsInv' /\ UndisturbedInv'
<1> DEFINE m == [type |-> "conf", vals |-> work[c].vals]
<1>1. /\ UNCHANGED <<row, st, node, link, dev, conf>> /\ work[c].type = "conf"
      /\ work'[c] = NoWork /\ \A d \in Conn \ {c} : work'[d] = work[d]
      /\ Post(c, m) \/ down' = down
  BY DEF send_conf_response, TypeOK
<1>2. link # NoConn => link \in Conn /\ down[link] \in Seq(DownMsg)
  BY DEF TypeOK
<1>3. m \in DownMsg /\ \A i \in Item : About(m, i) /\ Carried(m, i) = work[c].vals[i]
  BY WorkTyped DEF send_conf_response, DownMsg, About, Carried
<1>4. down' = down \/ (c = link /\ down'[link] = Append(down[link], m))
  BY <1>1 DEF Post, TypeOK
<1>5. NoWork.type = "none"
  BY DEF NoWork
<1> HIDE DEF m
<1>6. \A d \in Conn : work'[d].type = "conf" => work'[d] = work[d] /\ work[d].type = "conf"
  BY <1>1, <1>5
<1>7. ClaimsInv'
  <2> SUFFICES ASSUME "torn" \notin faults, link # NoConn, NEW i \in Item, Claims(i)'
               PROVE  CarriedNewest(i)'
    BY <1>1 DEF ClaimsInv
  <2>1. Claims(i)
    BY <1>1 DEF Claims
  <2>2. CarriedNewest(i)
    BY <2>1 DEF ClaimsInv
  <2>3. Ends(dev, down'[link], i, row[i].val)
    <3>1. CASE down' = down
      BY <2>2, <3>1 DEF CarriedNewest
    <3>2. CASE c = link /\ down'[link] = Append(down[link], m)
      <4>1. About(m, i) /\ Carried(m, i) = row[i].val
        BY <1>1, <1>3, <2>2, <3>2 DEF CarriedNewest
      <4> QED BY <1>2, <1>3, <3>2, <4>1, EndsAppend
    <3> QED BY <1>4, <3>1, <3>2
  <2> QED BY <1>1, <1>2, <1>6, <2>2, <2>3 DEF CarriedNewest
<1>8. UndisturbedInv'
  <2> SUFFICES ASSUME Undisturbed
               PROVE  /\ OneConnection'
                      /\ link # NoConn => \A i \in Item : row[i].sync = 0 => FirstValue(i)'
    BY <1>1 DEF UndisturbedInv, Undisturbed
  <2>1. OneConnection'
    <3>1. OneConnection
      BY DEF UndisturbedInv
    <3>2. \A d \in Conn : work[d] = NoWork => work'[d] = NoWork
      BY <1>1
    <3> QED BY <1>1, <1>2, <3>1, <3>2 DEF OneConnection
  <2>2. ASSUME link # NoConn, NEW i \in Item, row[i].sync = 0 PROVE FirstValue(i)'
    <3>1. FirstValue(i)
      BY <2>2 DEF UndisturbedInv
    <3>2. \A k \in 1..Len(down'[link]) :
             About(down'[link][k], i) => Carried(down'[link][k], i) = row[i].val
      <4>1. CASE down' = down
        BY <3>1, <4>1 DEF FirstValue
      <4>2. CASE c = link /\ down'[link] = Append(down[link], m)
        <5>1. Carried(m, i) = row[i].val
          BY <1>1, <1>3, <3>1, <4>2 DEF FirstValue
        <5>2. \A k \in 1..Len(down'[link]) :
                 \/ down'[link][k] = m
                 \/ k \in 1..Len(down[link]) /\ down'[link][k] = down[link][k]
          BY <1>2, <1>3, <2>2, <4>2, AppendedElements
        <5> QED BY <3>1, <5>1, <5>2 DEF FirstValue
      <4> QED BY <1>4, <4>1, <4>2
    <3> QED BY <1>1, <1>2, <1>6, <2>2, <3>1, <3>2 DEF FirstValue
  <2> QED BY <2>1, <2>2
<1> QED BY <1>7, <1>8

\* A node that is deleted, and a restart, leave no claim.
LEMMA EndCarries ==
    ASSUME TypeOK, ClaimsInv, UndisturbedInv, UNCHANGED faults,
           ServerRestart \/ \E c \in Conn : _cnm_client_del(c)
    PROVE  ClaimsInv' /\ UndisturbedInv'
<1>1. UNCHANGED <<row, down, link, dev, conf>> /\ ~Undisturbed
  BY DEF ServerRestart, _cnm_client_del, Undisturbed
<1>2. \A d \in Conn : st'[d] = "keyed" => st[d] = "keyed" /\ node'[d] = node[d] /\ work'[d] = work[d]
  <2>1. CASE ServerRestart
    BY <2>1 DEF ServerRestart
  <2>2. ASSUME NEW c \in Conn, _cnm_client_del(c)
        PROVE  \A d \in Conn :
                  st'[d] = "keyed" => st[d] = "keyed" /\ node'[d] = node[d] /\ work'[d] = work[d]
    <3>1. /\ work' = work /\ st'[c] = "none"
          /\ \A d \in Conn \ {c} : st'[d] = st[d] /\ node'[d] = node[d]
      BY <2>2 DEF _cnm_client_del, TypeOK
    <3> QED BY <3>1
  <2> QED BY <2>1, <2>2
<1>3. ClaimsInv'
  <2> SUFFICES ASSUME "torn" \notin faults, link # NoConn, NEW i \in Item, Claims(i)'
               PROVE  CarriedNewest(i)'
    BY <1>1 DEF ClaimsInv
  <2>1. link \in Conn
    BY DEF TypeOK
  <2>2. Claims(i)
    BY <1>1, <1>2, <2>1 DEF Claims
  <2>3. CarriedNewest(i)
    BY <2>2 DEF ClaimsInv
  <2> QED BY <1>1, <1>2, <2>1, <2>3 DEF CarriedNewest, Claims
<1>4. UndisturbedInv'
  BY <1>1 DEF UndisturbedInv, Undisturbed
<1> QED BY <1>3, <1>4

\* A new connection has claimed nothing.
LEMMA ConnectCarries ==
    ASSUME TypeOK, VersionsAgree, ClaimsInv, UndisturbedInv, UNCHANGED faults,
           NEW c \in Conn, Connect(c)
    PROVE  ClaimsInv' /\ UndisturbedInv'
<1>1. /\ link = NoConn /\ link' = c /\ st[c] = "none" /\ st'[c] = "anon" /\ work[c] = NoWork
      /\ \A d \in Conn \ {c} : st'[d] = st[d]
      /\ UNCHANGED <<row, node, work, down, dev, conf>>
  BY DEF Connect, TypeOK
<1>2. \A d \in Conn : d # NoConn
  BY NoConnIsNoConn
<1>3. down[c] = <<>> /\ node[c] = FreshNode
  BY <1>1, <1>2 DEF VersionsAgree, NothingBeforeSend, Keyed
<1>4. ClaimsInv'
  BY <1>1 DEF ClaimsInv, Claims
<1>5. UndisturbedInv'
  <2> SUFFICES ASSUME Undisturbed
               PROVE  OneConnection' /\ \A i \in Item : FirstValue(i)'
    BY DEF UndisturbedInv, Undisturbed
  <2>1. OneConnection
    BY DEF UndisturbedInv, Undisturbed
  <2>2. ~conf /\ \A i \in Item : row[i].synced = 0 /\ node[c][i].synced = 0
    BY <1>1, <1>3, <2>1 DEF OneConnection, FreshNode
  <2>3. \A d \in Conn : d # c => st'[d] = "none" /\ work[d] = NoWork
    BY <1>1, <1>2, <2>1 DEF OneConnection
  <2>4. OneConnection'
    BY <1>1, <1>2, <2>2, <2>3 DEF OneConnection
  <2>5. ASSUME NEW i \in Item PROVE FirstValue(i)'
    <3>1. Len(down[c]) = 0
      BY <1>3
    <3> QED BY <1>1, <2>2, <3>1 DEF FirstValue, NoWork
  <2> QED BY <2>4, <2>5
<1> QED BY <1>4, <1>5

\* The device reads the next message.
LEMMA ReadCarries ==
    ASSUME TypeOK, VersionsAgree, ClaimsInv, UndisturbedInv, UNCHANGED faults,
           RecvNotify \/ RecvConf
    PROVE  ClaimsInv' /\ UndisturbedInv'
<1> DEFINE h == Head(down[link])
<1>1. /\ UNCHANGED <<row, st, node, work, link>>
      /\ link # NoConn /\ down[link] # <<>> /\ down' = [down EXCEPT ![link] = Tail(@)]
  BY DEF RecvNotify, RecvConf
<1>2. /\ link \in Conn /\ down[link] \in Seq(DownMsg) /\ down'[link] = Tail(down[link])
      /\ h \in DownMsg /\ h = down[link][1] /\ 1 \in 1..Len(down[link])
  BY <1>1, TakenElements DEF TypeOK
<1>3. ASSUME NEW i \in Item
      PROVE  IF About(h, i) THEN dev'[i] = Carried(h, i) ELSE dev'[i] = dev[i]
  <2>1. CASE RecvNotify
    <3>1. h.type = "notify" /\ dev' = [dev EXCEPT ![h.item] = h.val]
      BY <2>1 DEF RecvNotify
    <3> HIDE DEF h
    <3> QED BY <3>1 DEF About, Carried, TypeOK
  <2>2. CASE RecvConf
    <3>1. h.type = "conf" /\ dev' = h.vals
      BY <2>2 DEF RecvConf
    <3> HIDE DEF h
    <3> QED BY <3>1 DEF About, Carried
  <2> QED BY <2>1, <2>2
<1>4. conf' => conf \/ \A i \in Item : About(h, i)
  BY DEF RecvNotify, RecvConf, About
<1>5. ClaimsInv'
  <2> SUFFICES ASSUME "torn" \notin faults, link # NoConn, NEW i \in Item, Claims(i)'
               PROVE  CarriedNewest(i)'
    BY <1>1 DEF ClaimsInv
  <2>1. Claims(i)
    BY <1>1 DEF Claims
  <2>2. CarriedNewest(i)
    BY <2>1 DEF ClaimsInv
  <2>3. Ends(dev, down[link], i, row[i].val)
    BY <2>2 DEF CarriedNewest
  <2>4. (About(h, i) => dev'[i] = Carried(h, i)) /\ (~About(h, i) => dev'[i] = dev[i])
    BY <1>3
  <2>5. Ends(dev', down'[link], i, row[i].val)
    BY <1>1, <1>2, <2>3, <2>4, EndsTail
  <2> QED BY <1>1, <2>2, <2>5 DEF CarriedNewest
<1>6. UndisturbedInv'
  <2> SUFFICES ASSUME Undisturbed
               PROVE  OneConnection' /\ \A i \in Item : row[i].sync = 0 => FirstValue(i)'
    BY <1>1 DEF UndisturbedInv, Undisturbed
  <2>1. OneConnection'
    BY <1>1 DEF UndisturbedInv, OneConnection
  <2>2. ASSUME NEW i \in Item, row[i].sync = 0 PROVE FirstValue(i)'
    <3>1. FirstValue(i)
      BY <1>1, <2>2 DEF UndisturbedInv
    <3>2. About(h, i) => Carried(h, i) = row[i].val
      BY <1>2, <3>1 DEF FirstValue
    <3>3. conf' => dev'[i] = row[i].val
      <4>1. CASE About(h, i)
        BY <1>3, <3>2, <4>1
      <4>2. CASE ~About(h, i)
        BY <1>3, <1>4, <3>1, <4>2 DEF FirstValue
      <4> QED BY <4>1, <4>2
    <3>4. \A k \in 1..Len(down'[link]) : k + 1 \in 1..Len(down[link]) /\ down'[link][k] = down[link][k + 1]
      BY <1>1, TakenElements
    <3>5. \A k \in 1..Len(down'[link]) :
             About(down'[link][k], i) => Carried(down'[link][k], i) = row[i].val
      BY <3>1, <3>4 DEF FirstValue
    <3> QED BY <1>1, <3>1, <3>3, <3>5 DEF FirstValue
  <2> QED BY <2>1, <2>2
<1> QED BY <1>5, <1>6

\* Every step keeps both invariants.
LEMMA StepCarries ==
    ASSUME TypeOK, VersionsAgree, ClaimsInv, UndisturbedInv, [Next]_vars, UNCHANGED faults
    PROVE  ClaimsInv' /\ UndisturbedInv'
<1>1. CASE Web
  BY <1>1, WebCarries DEF Web
<1>2. CASE Timer
  BY <1>2, TimerKeepsCarried
<1>3. ASSUME NEW c \in Conn, Receive(c) \/ Finish(c)
      PROVE  ClaimsInv' /\ UndisturbedInv'
  BY <1>3, ReceiveCarries, UpdateCarries, ConfResponseCarries DEF Finish
<1>4. ASSUME NEW c \in Conn, NEW i \in Item, send_value_to_client(c, i) \/ SyncTimeout(c, i)
      PROVE  ClaimsInv' /\ UndisturbedInv'
  BY <1>4, SendCarries, SyncTimeoutCarries
<1>5. CASE Server
  BY <1>3, <1>4, <1>5, EndCarries DEF Server
<1>6. CASE Heartbeat \/ send_conf_request_to_server \/ UNCHANGED vars
  <2>1. UNCHANGED <<row, st, node, work, down, link, dev, conf>>
    BY <1>6 DEF Heartbeat, send_conf_request_to_server, vars
  <2> QED BY <2>1, KeepsCarried
<1>7. CASE LinkDown \/ ClientRestart
  <2>1. link' = NoConn /\ ~Undisturbed
    BY <1>7 DEF LinkDown, ClientRestart, Leave, Undisturbed
  <2> QED BY <2>1 DEF ClaimsInv, UndisturbedInv, Undisturbed
<1>8. CASE Device
  BY <1>6, <1>7, <1>8, ConnectCarries, ReadCarries DEF Device
<1> QED BY <1>1, <1>2, <1>5, <1>6, <1>8 DEF Next

\* The two invariants, where edits are apart.
LEMMA CarriesHolds == Spec /\ EditsApart => [](ClaimsInv /\ UndisturbedInv)
<1>1. ASSUME TypeOK, VersionsAgree, ClaimsInv /\ UndisturbedInv, [Next /\ UNCHANGED faults]_<<vars, faults>>
      PROVE  (ClaimsInv /\ UndisturbedInv)'
  <2>1. [Next]_vars /\ UNCHANGED faults
    BY <1>1
  <2> QED BY <1>1, <2>1, StepCarries
<1> QED BY <1>1, InitCarries, TypeCorrect, VersionsAlwaysAgree, PTL DEF Spec

\* Where no send falls between the two stores of a node update: a node that claims the
\* newest number has sent the newest value, and on a link that stays nothing older
\* comes after it, for any settings, connections and bounds, whatever ends or restarts.
THEOREM OpenLinkCarriesNewestHolds == Spec /\ EditsApart => []OpenLinkCarriesNewest
<1>1. ClaimsInv => OpenLinkCarriesNewest
  BY WillRunEnds DEF ClaimsInv, Claims, CarriedNewest, OpenLinkCarriesNewest
<1> QED BY <1>1, CarriesHolds, PTL

\* Where nothing goes wrong but calls to the database, "synchronised" in the row means
\* that a configured device that has read everything runs the row's value, for any
\* settings and bounds.
THEOREM UndisturbedMeansInForceHolds == Spec => []UndisturbedMeansInForce
<1>1. TypeOK /\ VersionsAgree /\ ClaimsInv /\ UndisturbedInv => UndisturbedMeansInForce
  <2> SUFFICES ASSUME TypeOK, VersionsAgree, ClaimsInv, UndisturbedInv, Undisturbed,
                      link # NoConn, conf, down[link] = <<>>,
                      NEW i \in Item, row[i].sync = row[i].synced
               PROVE  dev[i] = row[i].val
    BY DEF UndisturbedMeansInForce, RecordedMeansInForce
  <2>1. CASE row[i].sync = 0
    BY <2>1 DEF UndisturbedInv, FirstValue
  <2>2. CASE row[i].sync # 0
    <3>1. link \in Conn /\ row[i].synced <= node[link][i].synced
      BY DEF UndisturbedInv, OneConnection, TypeOK
    <3>2. link \in Keyed
      <4>1. node[link][i].synced # 0
        BY <2>2, <3>1, NumbersTyped
      <4> QED BY <3>1, <4>1 DEF VersionsAgree, NothingBeforeSend, FreshNode
    <3>3. NodeAgrees(link, i)
      BY <3>2 DEF VersionsAgree, NodeIsVersion
    <3>4. node[link][i].synced = row[i].sync
      BY <3>1, <3>3, NumbersTyped DEF NodeAgrees
    <3>5. Ends(dev, down[link], i, row[i].val)
      <4>1. "torn" \notin faults
        BY DEF Undisturbed
      <4> QED BY <2>2, <3>2, <3>4, <4>1 DEF ClaimsInv, Claims, CarriedNewest, Keyed
    <3>6. Len(down[link]) = 0
      OBVIOUS
    <3> QED BY <3>5, <3>6 DEF Ends
  <2> QED BY <2>1, <2>2
<1>2. ~EditsApart => UndisturbedMeansInForce
  BY DEF EditsApart, Undisturbed, UndisturbedMeansInForce
<1> QED BY <1>1, <1>2, CarriesHolds, EditsStayApart, TypeCorrect, VersionsAlwaysAgree, PTL

-----------------------------------------------------------------------------
(* What ValueSync inherits from SettingPush, told of one setting.            *)

\* The setting, which may be any.
CONSTANT SomeItem

Promise == INSTANCE SettingPushProofs WITH
    Reset <- FALSE, asked <- row[SomeItem].sync, recorded <- row[SomeItem].synced,
    carried <- Copies(SomeItem)

\* Every number of a setting that the server has a copy of was asked for by the page, and
\* an edit that was overtaken, and of which no copy is left, is never pushed or recorded
\* again, whatever is repeated, restarted or answered late.
THEOREM OvertakenEditsStayLost ==
    ASSUME SomeItem \in Item
    PROVE  Spec /\ EditsApart => []Promise!NumbersWereAsked /\ Promise!OvertakenStaysLost
<1>1. Promise!Spec => []Promise!NumbersWereAsked
  BY Promise!NumbersWereAskedHolds
<1>2. Promise!Spec => Promise!OvertakenStaysLost
  BY Promise!OvertakenStaysLostHolds
<1>3. (\A i \in Item : Pushed(i)!Init) => Promise!Init
  BY DEF Pushed!Init, Promise!Init
<1>4. [\A i \in Item : [Pushed(i)!Next]_(Pushed(i)!vars)]_vars => [Promise!Next]_(Promise!vars)
  <2> SUFFICES ASSUME [\A i \in Item : [Pushed(i)!Next]_(Pushed(i)!vars)]_vars
               PROVE  [Promise!Next]_(Promise!vars)
    OBVIOUS
  <2>1. CASE UNCHANGED vars
    BY <2>1 DEF vars, Promise!vars, Copies
  <2>2. CASE [Pushed(SomeItem)!Next]_(Pushed(SomeItem)!vars)
    BY <2>2 DEF Pushed!Next, Pushed!vars, Pushed!Ask, Pushed!Carry, Pushed!Drop, Pushed!Record,
         Promise!Next, Promise!vars, Promise!Ask, Promise!Carry, Promise!Drop, Promise!Record
  <2>3. QED
    BY <2>1, <2>2
<1>5. QED
  BY <1>1, <1>2, <1>3, <1>4, ImplementsSettingPushHolds, PTL
     DEF ImplementsSettingPush, Promise!Spec

=============================================================================
