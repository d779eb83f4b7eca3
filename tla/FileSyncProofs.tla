--------------------------- MODULE FileSyncProofs ---------------------------
(***************************************************************************)
(* What FileSync keeps for every plan, every number of web requests and of *)
(* fetching threads, and every combination of failures.                    *)
(***************************************************************************)
EXTENDS FileSync, TLAPS

\* The setup is one of the setups, and stays what it is.
SetupKnown == setup \in Setups
SetupStays == setup' = setup

\* What a setup consists of.
LEMMA SetupParts ==
    ASSUME SetupKnown
    PROVE  Kind \in {"tasks", "limits"} /\ setup.last \in 0..MaxSeq
BY SetupsAreKnown DEF SetupKnown, Kind

\* A step of the specification is one of Next that leaves the setup alone.
LEMMA StepIsNext ==
    [Next /\ UNCHANGED setup]_<<vars, setup>> => [Next]_vars /\ SetupStays
BY DEF SetupStays

\* The setup is known in every state.
LEMMA SetupAlwaysKnown == Spec => []SetupKnown
<1>1. Init => SetupKnown
  BY DEF Init, SetupKnown
<1>2. SetupKnown /\ [Next /\ UNCHANGED setup]_<<vars, setup>> => SetupKnown'
  BY DEF SetupKnown
<1> QED BY <1>1, <1>2, PTL DEF Spec

\* what the server's steps, the net and the device range over
ServerTypes ==
    /\ cfg \in [pc : {"idle", "query", "write", "node"}, sync : Seqs, content : Plan]
    /\ file \in Content
    /\ st \in {"none", "anon", "keyed"}
    /\ node \in [sync : Seqs, synced : Seqs, timeout : {"zero", "wait", "over"}]

WebTypes ==
    /\ tasks \in Plan
    /\ row \in [sync : Seqs, synced : Seqs]
    /\ adm \in [Admin -> [pc : {"idle", "saved", "read", "del", "delete"}, seen : Seqs]]

DeviceTypes ==
    /\ fetch \in [Fetch -> {"idle", "rm", "wget", "mv", "notify"}]
    /\ tmp \in Content /\ plan \in Content
    /\ pending \in BOOLEAN /\ recent \in BOOLEAN

NetTypes == down \in Nat /\ up \in Nat /\ link \in BOOLEAN

CameraTypes == notes \in Nat /\ answers \in Nat /\ loaded \in Content

\* The parts make up the type invariant.
LEMMA TypeParts ==
    TypeOK <=> ServerTypes /\ WebTypes /\ DeviceTypes /\ NetTypes /\ CameraTypes
BY DEF TypeOK, ServerTypes, WebTypes, DeviceTypes, NetTypes, CameraTypes

\* The same of the next state.
LEMMA TypePartsNext ==
    TypeOK' <=> ServerTypes' /\ WebTypes' /\ DeviceTypes' /\ NetTypes' /\ CameraTypes'
BY DEF TypeOK, ServerTypes, WebTypes, DeviceTypes, NetTypes, CameraTypes

\* The records the constants build have the types of their variables.
LEMMA BlanksTyped ==
    /\ 0 \in Seqs
    /\ FreshNode \in [sync : Seqs, synced : Seqs, timeout : {"zero", "wait", "over"}]
    /\ Idle \in [pc : {"idle", "saved", "read", "del", "delete"}, seen : Seqs]
    /\ BlankCfg \in [pc : {"idle", "query", "write", "node"}, sync : Seqs, content : Plan]
BY BoundsAreNat DEF Seqs, FreshNode, Idle, BlankCfg, Plan

\* A server that starts, with its page and its devices, is well typed.
LEMMA InitTyped == Init => TypeOK
<1> SUFFICES ASSUME Init PROVE TypeOK
  OBVIOUS
<1>1. WebTypes
  BY BlanksTyped DEF Init, WebTypes, Plan, Idle, Seqs
<1>2. ServerTypes
  BY BlanksTyped DEF Init, ServerTypes, Content
<1>3. DeviceTypes /\ NetTypes /\ CameraTypes
  BY DEF Init, DeviceTypes, NetTypes, CameraTypes, Content, Plan
<1> QED BY <1>1, <1>2, <1>3, TypeParts

\* A step of a web request keeps the types.
LEMMA WebTyped ==
    ASSUME TypeOK, SetupKnown, NEW a \in Admin,
           SaveTask(a) \/ ReadSeq(a) \/ SaveSeq(a) \/ DeleteTask(a)
    PROVE  TypeOK'
<1>1. ServerTypes' /\ DeviceTypes' /\ NetTypes' /\ CameraTypes'
  <2>1. UNCHANGED <<server, net, device, camera>>
    BY DEF SaveTask, ReadSeq, SaveSeq, DeleteTask, WebLeaves
  <2> QED BY <2>1, TypeParts DEF ServerTypes, DeviceTypes, NetTypes, CameraTypes,
              server, net, device, camera
<1>2. WebTypes'
  <2> USE DEF TypeOK, WebTypes
  <2>1. CASE SaveTask(a)
    BY <2>1 DEF SaveTask, Plan
  <2>2. CASE ReadSeq(a)
    BY <2>2 DEF ReadSeq
  <2>3. CASE SaveSeq(a)
    <3>1. adm[a].seen + 1 \in Seqs
      BY <2>3, BoundsAreNat, SetupParts DEF SaveSeq, Seqs
    <3>2. tasks' \in Plan
      BY <2>3 DEF SaveSeq
    <3>3. row' \in [sync : Seqs, synced : Seqs]
      BY <2>3, <3>1 DEF SaveSeq
    <3>4. adm' \in [Admin -> [pc : {"idle", "saved", "read", "del", "delete"}, seen : Seqs]]
      BY <2>3, BlanksTyped DEF SaveSeq
    <3> QED BY <3>2, <3>3, <3>4
  <2>4. CASE DeleteTask(a)
    BY <2>4, BlanksTyped DEF DeleteTask, Plan
  <2> QED BY <2>1, <2>2, <2>3, <2>4
<1> QED BY <1>1, <1>2, TypePartsNext

\* A step of the timer keeps the types.
LEMMA TimerTyped ==
    ASSUME TypeOK, Timer
    PROVE  TypeOK'
<1>1. WebTypes' /\ DeviceTypes' /\ NetTypes' /\ CameraTypes'
  <2>1. CfgLeaves
    BY DEF Timer, CfgSelect, CfgOpen, CfgClose, cnm_client_update_task_seq
  <2> QED BY <2>1, TypeParts DEF CfgLeaves, WebTypes, DeviceTypes, NetTypes, CameraTypes,
              net, device, camera
<1>2. ServerTypes'
  <2> USE DEF TypeOK, ServerTypes, CfgLeaves
  <2>1. CASE CfgSelect
    BY <2>1 DEF CfgSelect
  <2>2. CASE CfgOpen
    BY <2>2 DEF CfgOpen, Content
  <2>3. CASE CfgClose
    BY <2>3 DEF CfgClose, Content
  <2>4. CASE cnm_client_update_task_seq
    BY <2>4, BlanksTyped DEF cnm_client_update_task_seq
  <2> QED BY <2>1, <2>2, <2>3, <2>4 DEF Timer
<1> QED BY <1>1, <1>2, TypePartsNext

\* A step of the thread that serves the connection keeps the types.
LEMMA ServerTyped ==
    ASSUME TypeOK, Server
    PROVE  TypeOK'
<1>1. tasks' = tasks /\ adm' = adm /\ file' = file /\ link' = link
  BY DEF Server, send_tasks_to_client, SyncTimeout, RecvBeat, RecvAck, _cnm_client_del,
         ServerRestart, ServerLeaves
<1>2. UNCHANGED <<device, camera>>
  BY DEF Server, send_tasks_to_client, SyncTimeout, RecvBeat, RecvAck, _cnm_client_del,
         ServerRestart, ServerLeaves
<1>3. DeviceTypes' /\ CameraTypes'
  BY <1>2, TypeParts DEF DeviceTypes, CameraTypes, device, camera
<1>4. row' \in [sync : Seqs, synced : Seqs]
  <2>1. row' = row \/ row' = [row EXCEPT !.synced = node.synced]
    BY DEF Server, send_tasks_to_client, SyncTimeout, RecvBeat, RecvAck, _cnm_client_del,
           ServerRestart, ServerLeaves
  <2> QED BY <2>1 DEF TypeOK
<1>5. down' \in Nat /\ up' \in Nat
  <2>1. CASE send_tasks_to_client
    <3>1. down' = (IF link THEN down + 1 ELSE down) /\ up' = up
      BY <2>1 DEF send_tasks_to_client
    <3> QED BY <3>1 DEF TypeOK
  <2>2. CASE RecvAck
    <3>1. down' = down /\ up' = up - 1 /\ up > 0
      BY <2>2 DEF RecvAck
    <3> QED BY <3>1 DEF TypeOK
  <2>3. CASE SyncTimeout \/ RecvBeat \/ _cnm_client_del \/ ServerRestart
    <3>1. down' = down /\ (up' = up \/ up' = 0)
      BY <2>3 DEF SyncTimeout, RecvBeat, _cnm_client_del, ServerRestart
    <3> QED BY <3>1 DEF TypeOK
  <2> QED BY <2>1, <2>2, <2>3 DEF Server
<1>6. node' \in [sync : Seqs, synced : Seqs, timeout : {"zero", "wait", "over"}]
  <2>1. \/ node' = node \/ node' = FreshNode
        \/ node' = [node EXCEPT !.timeout = "wait", !.synced = node.sync]
        \/ node' = [node EXCEPT !.timeout = "over"]
        \/ node' = [node EXCEPT !.timeout = "zero"]
    BY DEF Server, send_tasks_to_client, SyncTimeout, RecvBeat, RecvAck, _cnm_client_del,
           ServerRestart, ServerLeaves
  <2> QED BY <2>1, BlanksTyped DEF TypeOK
<1>7. st' \in {"none", "anon", "keyed"} /\ (cfg' = cfg \/ cfg' = BlankCfg)
  BY DEF TypeOK, Server, send_tasks_to_client, SyncTimeout, RecvBeat, RecvAck,
         _cnm_client_del, ServerRestart, ServerLeaves
<1> QED BY <1>1, <1>3, <1>4, <1>5, <1>6, <1>7, BlanksTyped, TypePartsNext
        DEF TypeOK, ServerTypes, WebTypes, NetTypes

\* What the device does to the net, its files and the camera program keeps the types.
LEMMA DeviceTyped ==
    ASSUME TypeOK, Device \/ Camera
    PROVE  TypeOK'
<1>1. CASE Connect
  <2>1. link' = TRUE /\ st' = "anon" /\ UNCHANGED <<down, up, device, camera>> /\ NetLeaves
    BY <1>1 DEF Connect
  <2> QED BY <2>1 DEF TypeOK, NetLeaves, device, camera
<1>2. CASE LinkDown \/ ClientRestart
  <2>1. down' \in Nat /\ up' \in Nat /\ link' \in BOOLEAN
    <3>1. \/ link' = FALSE /\ down' = 0 /\ up' \in 0..up
          \/ down' = down /\ up' = up /\ link' = link
      <4>1. CASE LinkDown
        BY <4>1 DEF LinkDown, Leave
      <4>2. CASE ClientRestart
        <5>1. CASE link
          BY <4>2, <5>1 DEF ClientRestart, Leave
        <5>2. CASE ~link
          BY <4>2, <5>2 DEF ClientRestart, net
        <5> QED BY <5>1, <5>2
      <4> QED BY <1>2, <4>1, <4>2
    <3>2. NetTypes
      BY TypeParts
    <3>3. CASE link' = FALSE /\ down' = 0 /\ up' \in 0..up
      <4>1. up' \in Nat /\ down' \in Nat
        BY <3>2, <3>3 DEF NetTypes
      <4>2. link' \in BOOLEAN
        BY <3>3, Zenon
      <4> QED BY <4>1, <4>2
    <3>4. CASE down' = down /\ up' = up /\ link' = link
      BY <3>2, <3>4 DEF NetTypes
    <3> QED BY <3>1, <3>3, <3>4
  <2>2. UNCHANGED <<tasks, row, adm, st, node, cfg, file>> /\ UNCHANGED <<tmp, plan, loaded>>
    BY <1>2 DEF LinkDown, ClientRestart, NetLeaves, device, camera
  <2>3. fetch' \in [Fetch -> {"idle", "rm", "wget", "mv", "notify"}]
    BY <1>2 DEF LinkDown, ClientRestart, device, TypeOK
  <2>4. pending' \in BOOLEAN /\ recent' \in BOOLEAN /\ notes' \in Nat /\ answers' \in Nat
    <3>1. CASE LinkDown
      BY <3>1 DEF LinkDown, device, camera, TypeOK
    <3>2. CASE ClientRestart
      BY <3>2 DEF ClientRestart
    <3> QED BY <1>2, <3>1, <3>2
  <2> QED BY <2>1, <2>2, <2>3, <2>4 DEF TypeOK
<1>3. ASSUME NEW f \in Fetch, RecvRequest(f) \/ Thread(f) PROVE TypeOK'
  <2>1. UNCHANGED <<tasks, row, adm, server, up, link, answers, loaded>>
    BY <1>3 DEF RecvRequest, Thread, SyncRm, SyncWget, SyncMv, SyncNotify, DeviceLeaves, net, camera
  <2>2. down' = down \/ (down > 0 /\ down' = down - 1)
    <3>1. CASE RecvRequest(f)
      BY <3>1 DEF RecvRequest
    <3>2. CASE Thread(f)
      BY <3>2 DEF Thread, SyncRm, SyncWget, SyncMv, SyncNotify, net
    <3> QED BY <1>3, <3>1, <3>2
  <2>3. fetch' \in [Fetch -> {"idle", "rm", "wget", "mv", "notify"}]
    BY <1>3 DEF RecvRequest, Thread, SyncRm, SyncWget, SyncMv, SyncNotify, TypeOK
  <2>4. tmp' \in Content /\ plan' \in Content /\ pending' \in BOOLEAN
    BY <1>3 DEF RecvRequest, Thread, SyncRm, SyncWget, SyncMv, SyncNotify, TypeOK, Content
  <2>5. (notes' = notes \/ notes' = notes + 1) /\ (recent' = recent \/ recent' = TRUE)
    BY <1>3 DEF RecvRequest, Thread, SyncRm, SyncWget, SyncMv, SyncNotify, ysf_notify_plan, camera
  <2>6. ServerTypes' /\ WebTypes'
    BY <2>1, TypeParts DEF ServerTypes, WebTypes, server
  <2>7. DeviceTypes'
    BY <2>3, <2>4, <2>5, TypeParts DEF DeviceTypes
  <2>8. NetTypes'
    BY <2>1, <2>2, TypeParts DEF NetTypes
  <2>9. CameraTypes'
    BY <2>1, <2>5, TypeParts DEF CameraTypes
  <2> QED BY <2>6, <2>7, <2>8, <2>9, TypePartsNext
<1>4. CASE MainNotify \/ NotifyTimeout \/ RecvAnswer \/ CameraLoads \/ CameraLinkDown
  <2>1. UNCHANGED <<tasks, row, adm, server, down, link, fetch, tmp, plan>>
    BY <1>4 DEF MainNotify, NotifyTimeout, RecvAnswer, CameraLoads, CameraLinkDown,
                DeviceLeaves, net, device
  <2>2. pending' \in BOOLEAN /\ recent' \in BOOLEAN /\ loaded' \in Content
    BY <1>4 DEF MainNotify, NotifyTimeout, RecvAnswer, CameraLoads, CameraLinkDown,
                ysf_notify_plan, device, camera, TypeOK
  <2>3. (up' = up \/ up' = up + 1)
    BY <1>4 DEF MainNotify, NotifyTimeout, RecvAnswer, CameraLoads, CameraLinkDown, net
  <2>4. notes' = notes \/ notes' = notes + 1 \/ notes' = 0 \/ (notes > 0 /\ notes' = notes - 1)
    BY <1>4 DEF MainNotify, NotifyTimeout, RecvAnswer, CameraLoads, CameraLinkDown,
                ysf_notify_plan, camera
  <2>5. \/ answers' = answers \/ answers' = answers + 1 \/ answers' = 0
        \/ (answers > 0 /\ answers' = answers - 1)
    BY <1>4 DEF MainNotify, NotifyTimeout, RecvAnswer, CameraLoads, CameraLinkDown, camera
  <2> QED BY <2>1, <2>2, <2>3, <2>4, <2>5 DEF TypeOK, server
<1> QED BY <1>1, <1>2, <1>3, <1>4 DEF Device, Camera

\* The type invariant, for every instance.
THEOREM TypeCorrect == Spec => []TypeOK
<1>1. TypeOK /\ SetupKnown /\ [Next]_vars => TypeOK'
  <2> SUFFICES ASSUME TypeOK, SetupKnown, [Next]_vars PROVE TypeOK'
    OBVIOUS
  <2>1. CASE Web
    BY <2>1, WebTyped DEF Web
  <2>2. CASE Timer
    BY <2>2, TimerTyped
  <2>3. CASE Server
    BY <2>3, ServerTyped
  <2>4. CASE Device \/ Camera
    BY <2>4, DeviceTyped
  <2>5. CASE UNCHANGED vars
    BY <2>5 DEF vars, TypeOK, server, net, device, camera
  <2> QED BY <2>1, <2>2, <2>3, <2>4, <2>5 DEF Next
<1> QED BY <1>1, InitTyped, StepIsNext, SetupAlwaysKnown, PTL DEF Spec

-----------------------------------------------------------------------------
(* Why a device is never told of a number before the file holds what the    *)
(* number was raised for.                                                    *)

\* Whether requests of the page may overlap is part of the setup.
LEMMA EditsStayApart == Spec => []EditsApart \/ []~EditsApart
<1>1. [Next /\ UNCHANGED setup]_<<vars, setup>> => (EditsApart' <=> EditsApart)
  BY DEF EditsApart, May
<1> QED BY <1>1, PTL DEF Spec

\* What the page has saved is counted in the number.
Counted == \A a \in Admin : adm[a].pc \in {"idle", "delete"}

\* One request is in progress, which holds the number as it is in the row.
EditorsAgree ==
    \A a \in Admin :
        /\ \A b \in Admin : adm[a].pc # "idle" /\ adm[b].pc # "idle" => a = b
        /\ adm[a].pc \in {"del", "delete"} => Deletes
        /\ adm[a].pc \in {"read", "del"} => adm[a].seen = row.sync

\* The numbers never fall on their way from the row through the pass to the node.
NumbersOrdered ==
    /\ node.sync <= row.sync
    /\ cfg.pc # "idle" => node.sync <= cfg.sync /\ cfg.sync <= row.sync
    /\ st # "keyed" => node.sync = 0

\* What the pass has read is what it writes.
PassWrites == cfg.pc = "node" => file = cfg.content

\* The pass carries the edits once it has read them, ...
PassCarries ==
    /\ cfg.sync = row.sync
    /\ cfg.pc \in {"write", "node"} \/ (cfg.pc = "query" /\ Kind = "limits")
    => Carries(cfg.content)

\* ... and the file does once the node has the number.
NodeCarries ==
    st = "keyed" /\ node.sync = row.sync /\ row.sync # 0 => Carries(FileWillBe)

EditsInv ==
    /\ EditorsAgree /\ NumbersOrdered /\ PassWrites
    /\ Counted => PassCarries /\ NodeCarries

\* A step that leaves the setup alone changes neither what is sent nor what may happen.
LEMMA SameSetup ==
    ASSUME SetupStays
    PROVE  Kind' = Kind /\ (Deletes' <=> Deletes)
BY DEF SetupStays, Kind, May, Deletes

\* The numbers are numbers, and a plan is not one of the two special contents.
LEMMA SyncNumbers ==
    ASSUME TypeOK
    PROVE  /\ row.sync \in Nat /\ node.sync \in Nat /\ cfg.sync \in Nat
           /\ \A a \in Admin : adm[a].seen \in Nat
           /\ tasks \notin {Empty, Absent}
<1>1. Seqs \subseteq Nat
  BY DEF Seqs
<1>2. row.sync \in Seqs /\ node.sync \in Seqs /\ cfg.sync \in Seqs
  BY DEF TypeOK
<1>3. \A a \in Admin : adm[a].seen \in Seqs
  BY DEF TypeOK
<1>4. tasks \notin {Empty, Absent}
  BY ContentIsNotSpecial DEF TypeOK, Plan
<1> QED BY <1>1, <1>2, <1>3, <1>4

\* At the start nothing has a number and nothing is in progress.
LEMMA InitEdits == Init => EditsInv
<1> SUFFICES ASSUME Init PROVE EditsInv
  OBVIOUS
<1>1. row.sync = 0 /\ node.sync = 0 /\ cfg.pc = "idle" /\ st = "none"
  BY DEF Init, FreshNode, BlankCfg
<1>2. \A a \in Admin : adm[a].pc = "idle"
  BY DEF Init, Idle
<1>3. EditorsAgree
  BY <1>2 DEF EditorsAgree
<1>4. NumbersOrdered /\ PassWrites /\ PassCarries /\ NodeCarries
  BY <1>1 DEF NumbersOrdered, PassWrites, PassCarries, NodeCarries
<1> QED BY <1>3, <1>4 DEF EditsInv

\* A step that touches neither the page, nor the pass, nor the node.
LEMMA ElsewhereKeepsEdits ==
    ASSUME EditsInv, SetupStays, UNCHANGED <<tasks, row, adm, cfg, file>>,
           node'.sync = node.sync, st' = st
    PROVE  EditsInv'
<1>1. EditorsAgree' /\ PassWrites' /\ (Counted' <=> Counted) /\ (PassCarries' <=> PassCarries)
  BY SameSetup DEF EditsInv, EditorsAgree, PassWrites, Counted, PassCarries, Carries
<1>2. NumbersOrdered'
  BY DEF EditsInv, NumbersOrdered
<1>3. NodeCarries' <=> NodeCarries
  BY SameSetup DEF NodeCarries, Carries, FileWillBe
<1> QED BY <1>1, <1>2, <1>3 DEF EditsInv

\* A request of the page raises the number above every other one before what it
\* has saved counts as carried; where edits are apart it holds the number of the row.
LEMMA WebKeepsEdits ==
    ASSUME EditsApart, TypeOK, EditsInv, SetupStays, NEW a \in Admin,
           SaveTask(a) \/ ReadSeq(a) \/ SaveSeq(a) \/ DeleteTask(a)
    PROVE  EditsInv'
<1>1. UNCHANGED <<cfg, file, st, node>>
  BY DEF SaveTask, ReadSeq, SaveSeq, DeleteTask, WebLeaves, server
<1>2. \A b \in Admin \ {a} : adm[b].pc = "idle" /\ adm'[b] = adm[b]
  <2>1. \A b \in Admin \ {a} : adm'[b] = adm[b]
    BY DEF SaveTask, ReadSeq, SaveSeq, DeleteTask, TypeOK
  <2>2. NoEdit \/ adm[a].pc # "idle"
    BY DEF SaveTask, ReadSeq, SaveSeq, DeleteTask, Begins, EditsApart
  <2>3. \A b \in Admin \ {a} : adm[b].pc = "idle"
    BY <2>2 DEF NoEdit, EditsInv, EditorsAgree
  <2> QED BY <2>1, <2>3
<1>3. DOMAIN adm = Admin
  BY DEF TypeOK
<1>4. PassWrites'
  BY <1>1 DEF EditsInv, PassWrites
<1>5. CASE SaveTask(a) \/ ReadSeq(a)
  <2>1. /\ row' = row /\ adm'[a].pc \in {"saved", "read", "del"}
        /\ adm'[a].pc \in {"read", "del"} => adm'[a].seen = row.sync
        /\ adm'[a].pc = "del" => Deletes
    <3>1. CASE SaveTask(a)
      <4>1. row' = row /\ adm' = [adm EXCEPT ![a].pc = "saved"]
        BY <3>1 DEF SaveTask
      <4>2. adm'[a].pc = "saved"
        BY <1>3, <4>1 DEF TypeOK
      <4> QED BY <4>1, <4>2
    <3>2. CASE ReadSeq(a)
      <4>1. /\ row' = row
            /\ \/ adm' = [adm EXCEPT ![a] = [pc |-> "read", seen |-> row.sync]]
               \/ Deletes /\ adm' = [adm EXCEPT ![a] = [pc |-> "del", seen |-> row.sync]]
        BY <3>2 DEF ReadSeq
      <4>2. \/ adm'[a] = [pc |-> "read", seen |-> row.sync]
            \/ Deletes /\ adm'[a] = [pc |-> "del", seen |-> row.sync]
        BY <1>3, <4>1
      <4> QED BY <4>1, <4>2
    <3> QED BY <1>5, <3>1, <3>2
  <2>2. EditorsAgree'
    BY <1>2, <2>1, SameSetup DEF EditorsAgree
  <2>3. NumbersOrdered'
    BY <1>1, <2>1 DEF EditsInv, NumbersOrdered
  <2>4. ~Counted'
    BY <2>1 DEF Counted
  <2> QED BY <1>4, <2>2, <2>3, <2>4 DEF EditsInv
<1>6. CASE SaveSeq(a)
  <2>1. adm[a].seen = row.sync /\ (adm[a].pc = "del" => Deletes)
    BY <1>6 DEF SaveSeq, EditsInv, EditorsAgree
  <2>2. row'.sync = row.sync + 1
    BY <1>6, <2>1 DEF SaveSeq, TypeOK
  <2>3. adm'[a] = IF adm[a].pc = "del" THEN [pc |-> "delete", seen |-> 0] ELSE Idle
    BY <1>3, <1>6 DEF SaveSeq
  <2>4. adm'[a].pc \in {"idle", "delete"} /\ (adm'[a].pc = "delete" => Deletes)
    BY <2>1, <2>3 DEF Idle
  <2>5. EditorsAgree'
    BY <1>2, <2>4, SameSetup DEF EditorsAgree
  <2>6. NumbersOrdered' /\ ~(cfg'.pc # "idle" /\ cfg'.sync = row'.sync) /\ node'.sync # row'.sync
    BY <1>1, <2>2, SyncNumbers DEF EditsInv, NumbersOrdered
  <2>7. PassCarries' /\ NodeCarries'
    BY <2>6 DEF PassCarries, NodeCarries
  <2> QED BY <1>4, <2>5, <2>6, <2>7 DEF EditsInv
<1>7. CASE DeleteTask(a)
  <2>1. row' = row /\ adm[a].pc = "delete" /\ adm'[a] = Idle /\ tasks' \subseteq tasks
    BY <1>3, <1>7 DEF DeleteTask
  <2>2. Deletes /\ EditorsAgree'
    BY <1>2, <2>1 DEF EditsInv, EditorsAgree, Idle
  <2>3. NumbersOrdered'
    BY <1>1, <2>1 DEF EditsInv, NumbersOrdered
  <2>4. PassCarries /\ NodeCarries
    BY <1>2, <2>1 DEF EditsInv, Counted
  <2>5. PassCarries'
    BY <1>1, <2>1, <2>2, <2>4, SameSetup DEF PassCarries, Carries
  <2>6. NodeCarries'
    BY <1>1, <2>1, <2>2, <2>4, SameSetup DEF NodeCarries, Carries, FileWillBe
  <2> QED BY <1>4, <2>2, <2>3, <2>5, <2>6 DEF EditsInv
<1> QED BY <1>5, <1>6, <1>7

\* A pass of the timer reads the number before what it writes, and writes the
\* file before the node gets the number.
LEMMA TimerKeepsEdits ==
    ASSUME TypeOK, SetupKnown, EditsInv, SetupStays, Timer
    PROVE  EditsInv'
<1>1. UNCHANGED <<tasks, row, adm, st>>
  BY DEF Timer, CfgSelect, CfgOpen, CfgClose, cnm_client_update_task_seq, CfgLeaves
<1>2. EditorsAgree' /\ (Counted' <=> Counted)
  BY <1>1, SameSetup DEF EditsInv, EditorsAgree, Counted
<1>3. CASE CfgSelect
  <2>1. /\ cfg'.pc = "query" /\ cfg'.sync = row.sync /\ cfg'.content = tasks
        /\ file' = file /\ node' = node /\ cfg.pc = "idle"
    BY <1>3 DEF CfgSelect, TypeOK
  <2>2. NumbersOrdered' /\ PassWrites'
    BY <1>1, <2>1, SyncNumbers DEF EditsInv, NumbersOrdered, PassWrites
  <2>3. PassCarries'
    BY <1>1, <2>1, SyncNumbers DEF PassCarries, Carries
  <2>4. NodeCarries' <=> NodeCarries
    BY <1>1, <2>1, SameSetup DEF NodeCarries, Carries, FileWillBe
  <2> QED BY <1>2, <2>2, <2>3, <2>4 DEF EditsInv
<1>4. CASE CfgOpen
  <2>1. /\ cfg.pc = "query" /\ cfg'.pc = "write" /\ cfg'.sync = cfg.sync /\ node' = node
        /\ cfg'.content = IF Kind = "tasks" THEN tasks ELSE cfg.content
    BY <1>4 DEF CfgOpen, TypeOK
  <2>2. NumbersOrdered' /\ PassWrites'
    BY <1>1, <2>1 DEF EditsInv, NumbersOrdered, PassWrites
  <2>3. ASSUME Counted, cfg.sync = row.sync PROVE Carries(cfg'.content)
    BY <2>1, <2>3, SetupParts, SyncNumbers DEF EditsInv, PassCarries, Carries
  <2>4. Counted => PassCarries'
    BY <1>1, <2>1, <2>3, SameSetup DEF PassCarries, Carries
  <2>5. node.sync = row.sync => cfg.sync = row.sync
    BY <2>1, SyncNumbers DEF EditsInv, NumbersOrdered
  <2>6. FileWillBe' = cfg'.content
    BY <2>1 DEF FileWillBe
  <2>7. Counted => NodeCarries'
    BY <1>1, <2>1, <2>3, <2>5, <2>6, SameSetup DEF NodeCarries, Carries
  <2> QED BY <1>2, <2>2, <2>4, <2>7 DEF EditsInv
<1>5. CASE CfgClose
  <2>1. /\ cfg.pc = "write" /\ cfg'.pc = "node" /\ cfg'.sync = cfg.sync /\ node' = node
        /\ cfg'.content = cfg.content /\ file' = cfg.content
    BY <1>5 DEF CfgClose, TypeOK
  <2>2. NumbersOrdered' /\ PassWrites'
    BY <1>1, <2>1 DEF EditsInv, NumbersOrdered, PassWrites
  <2>3. PassCarries => PassCarries'
    BY <1>1, <2>1, SameSetup DEF PassCarries, Carries
  <2>4. NodeCarries' <=> NodeCarries
    BY <1>1, <2>1, SameSetup DEF NodeCarries, Carries, FileWillBe
  <2> QED BY <1>2, <2>2, <2>3, <2>4 DEF EditsInv
<1>6. CASE cnm_client_update_task_seq
  <2>1. /\ cfg.pc = "node" /\ cfg'.pc = "idle" /\ file' = file
        /\ (st = "keyed" /\ node'.sync = cfg.sync) \/ node' = node
        /\ st # "keyed" => node' = node
    BY <1>6 DEF cnm_client_update_task_seq, BlankCfg, TypeOK
  <2>2. NumbersOrdered' /\ PassWrites' /\ PassCarries'
    BY <1>1, <2>1, SyncNumbers DEF EditsInv, NumbersOrdered, PassWrites, PassCarries
  <2>3. FileWillBe' = cfg.content /\ FileWillBe = cfg.content
    BY <2>1 DEF FileWillBe, EditsInv, PassWrites
  <2>4. Counted => NodeCarries'
    <3>1. CASE node' = node
      BY <1>1, <2>3, <3>1, SameSetup DEF EditsInv, NodeCarries, Carries
    <3>2. CASE node'.sync = cfg.sync
      BY <1>1, <2>1, <2>3, <3>2, SameSetup DEF EditsInv, NodeCarries, PassCarries, Carries
    <3> QED BY <2>1, <3>1, <3>2
  <2> QED BY <1>2, <2>2, <2>4 DEF EditsInv
<1> QED BY <1>3, <1>4, <1>5, <1>6 DEF Timer

\* A node that is new has the number 0, and no other step of the server's
\* threads, of the net or of the device gives it one.
LEMMA OthersKeepEdits ==
    ASSUME TypeOK, EditsInv, SetupStays, Server \/ Device \/ Camera
    PROVE  EditsInv'
<1>1. CASE send_tasks_to_client \/ SyncTimeout
  <2>1. node'.sync = node.sync /\ UNCHANGED <<tasks, row, adm, cfg, file, st>>
    BY <1>1 DEF send_tasks_to_client, SyncTimeout, ServerLeaves, TypeOK
  <2> QED BY <2>1, ElsewhereKeepsEdits
<1>2. CASE RecvBeat \/ RecvAck
  <2>1. /\ node'.sync = node.sync /\ row'.sync = row.sync /\ st' = "keyed"
        /\ UNCHANGED <<tasks, adm, cfg, file>>
    BY <1>2 DEF RecvBeat, RecvAck, ServerLeaves, TypeOK
  <2>2. EditorsAgree' /\ PassWrites' /\ (Counted' <=> Counted) /\ (PassCarries' <=> PassCarries)
    BY <2>1, SameSetup DEF EditsInv, EditorsAgree, PassWrites, Counted, PassCarries, Carries
  <2>3. NumbersOrdered'
    BY <2>1 DEF EditsInv, NumbersOrdered
  <2>4. Counted => NodeCarries'
    BY <2>1, SameSetup DEF EditsInv, NumbersOrdered, NodeCarries, Carries, FileWillBe
  <2> QED BY <2>2, <2>3, <2>4 DEF EditsInv
<1>3. CASE _cnm_client_del \/ ServerRestart
  <2>1. /\ node'.sync = 0 /\ st' = "none" /\ UNCHANGED <<tasks, row, adm, file>>
        /\ cfg' = cfg \/ cfg'.pc = "idle"
    BY <1>3 DEF _cnm_client_del, ServerRestart, ServerLeaves, FreshNode, BlankCfg
  <2>2. EditorsAgree' /\ PassWrites' /\ (Counted' <=> Counted)
    BY <2>1, SameSetup DEF EditsInv, EditorsAgree, PassWrites, Counted
  <2>3. PassCarries => PassCarries'
    BY <2>1, SameSetup DEF PassCarries, Carries
  <2>4. NumbersOrdered' /\ NodeCarries'
    BY <2>1, SyncNumbers DEF EditsInv, NumbersOrdered, NodeCarries
  <2> QED BY <2>2, <2>3, <2>4 DEF EditsInv
<1>4. CASE Connect
  <2>1. st = "none" /\ st' = "anon" /\ UNCHANGED <<tasks, row, adm, cfg, file, node>>
    BY <1>4 DEF Connect, NetLeaves
  <2>2. EditorsAgree' /\ PassWrites' /\ (Counted' <=> Counted) /\ (PassCarries' <=> PassCarries)
    BY <2>1, SameSetup DEF EditsInv, EditorsAgree, PassWrites, Counted, PassCarries, Carries
  <2>3. NumbersOrdered' /\ NodeCarries'
    BY <2>1 DEF EditsInv, NumbersOrdered, NodeCarries
  <2> QED BY <2>2, <2>3 DEF EditsInv
<1>5. CASE Camera \/ (Device /\ ~Connect)
  <2>1. UNCHANGED <<tasks, row, adm, cfg, file, st, node>>
    BY <1>5 DEF Camera, Device, Connect, LinkDown, ClientRestart, RecvRequest, Thread, SyncRm,
                SyncWget, SyncMv, SyncNotify, MainNotify, NotifyTimeout, RecvAnswer,
                CameraLoads, CameraLinkDown, NetLeaves, DeviceLeaves, server
  <2> QED BY <2>1, ElsewhereKeepsEdits
<1> QED BY <1>1, <1>2, <1>3, <1>4, <1>5 DEF Server, Device

\* The strengthened invariant holds where edits are apart.
THEOREM EditsInvHolds == Spec /\ EditsApart => []EditsInv
<1>1. TypeOK /\ SetupKnown /\ EditsApart /\ EditsInv /\ [Next]_vars /\ SetupStays => EditsInv'
  <2> SUFFICES ASSUME TypeOK, SetupKnown, EditsApart, EditsInv, [Next]_vars, SetupStays
               PROVE  EditsInv'
    OBVIOUS
  <2>1. CASE Web
    BY <2>1, WebKeepsEdits DEF Web
  <2>2. CASE Timer
    BY <2>2, TimerKeepsEdits
  <2>3. CASE Server \/ Device \/ Camera
    BY <2>3, OthersKeepEdits
  <2>4. CASE UNCHANGED vars
    BY <2>4, ElsewhereKeepsEdits DEF vars, server
  <2> QED BY <2>1, <2>2, <2>3, <2>4 DEF Next
<1> QED
  BY <1>1, InitEdits, EditsStayApart, TypeCorrect, StepIsNext, SetupAlwaysKnown, PTL DEF Spec

\* Where edits are apart, whatever is lost, restarted or late: before
\* the node, and through it the device, has a number, the file on the server
\* holds (or, while a pass rewrites it, will again hold) every task the number
\* was raised for.
THEOREM FileCarriesEditsHolds == Spec /\ EditsApart => []FileCarriesEdits
<1>1. EditsInv => FileCarriesEdits
  <2>1. NoEdit => Counted
    BY DEF NoEdit, Counted
  <2> QED BY <2>1 DEF EditsInv, NodeCarries, FileCarriesEdits
<1> QED BY <1>1, EditsInvHolds, PTL

-----------------------------------------------------------------------------
(* FileSync implements SettingPush.                                         *)

\* A step that copies nothing anew out of the row only loses copies.
LEMMA CopiesShrink ==
    ASSUME cfg'.pc # "idle" => cfg'.sync \in Copies \cup {0},
           node'.sync \in Copies \cup {0}, node'.synced \in Copies \cup {0}
    PROVE  Copies' \in SUBSET Copies
BY DEF Copies

\* The numbers that the server has are copies.
LEMMA CopiesHold ==
    /\ cfg.pc # "idle" => cfg.sync \in Copies \cup {0}
    /\ node.sync \in Copies \cup {0} /\ node.synced \in Copies \cup {0}
BY DEF Copies

\* The pass of CfgUpdateTimer copies the number out of the row, and hands it to the node.
LEMMA TimerCarries ==
    ASSUME TypeOK, Timer
    PROVE  /\ row' = row
           /\ \/ Copies' \in SUBSET Copies
              \/ row.sync # row.synced /\ Copies' = Copies \cup {row.sync}
<1>1. row' = row
  BY DEF Timer, CfgSelect, CfgOpen, CfgClose, cnm_client_update_task_seq, CfgLeaves
<1>2. CASE CfgSelect
  <2>1. /\ cfg.pc = "idle" /\ row.sync # row.synced /\ node' = node
        /\ cfg'.pc = "query" /\ cfg'.sync = row.sync
    BY <1>2 DEF CfgSelect, TypeOK
  <2> QED
    BY <1>1, <2>1 DEF Copies
<1>3. CASE CfgOpen \/ CfgClose
  <2>1. cfg.pc # "idle" /\ node' = node
    BY <1>3 DEF CfgOpen, CfgClose
  <2>2. cfg'.sync = cfg.sync
    BY <1>3 DEF CfgOpen, CfgClose, TypeOK
  <2> QED
    BY <1>1, <2>1, <2>2, CopiesShrink, CopiesHold
<1>4. CASE cnm_client_update_task_seq
  <2>1. cfg.pc # "idle" /\ cfg'.pc = "idle"
    BY <1>4 DEF cnm_client_update_task_seq, BlankCfg
  <2>2. node'.sync \in {node.sync, cfg.sync} /\ node'.synced = node.synced
    BY <1>4 DEF cnm_client_update_task_seq, TypeOK
  <2> QED
    BY <1>1, <2>1, <2>2, CopiesShrink, CopiesHold
<1> QED
  BY <1>2, <1>3, <1>4 DEF Timer

\* What a step of the system does to the two numbers and the copies.
LEMMA StepOnNumbers ==
    ASSUME TypeOK, EditsInv, [Next]_vars
    PROVE  \/ row'.sync = row.sync + 1 /\ row'.synced = row.synced /\ Copies' = Copies
           \/ row' = row /\ row.sync # row.synced /\ Copies' = Copies \cup {row.sync}
           \/ /\ row'.sync = row.sync
              /\ row'.synced \in Copies \cup {row.synced, 0}
              /\ Copies' \in SUBSET Copies
<1>1. UNCHANGED <<cfg, node>> => Copies' = Copies
  BY DEF Copies
<1>2. CASE Web
  <2>1. PICK a \in Admin : SaveTask(a) \/ ReadSeq(a) \/ SaveSeq(a) \/ DeleteTask(a)
    BY <1>2 DEF Web
  <2>2. UNCHANGED <<cfg, node>>
    BY <2>1 DEF SaveTask, ReadSeq, SaveSeq, DeleteTask, WebLeaves, server
  <2>3. CASE SaveTask(a) \/ ReadSeq(a) \/ DeleteTask(a)
    BY <1>1, <2>2, <2>3 DEF SaveTask, ReadSeq, DeleteTask
  <2>4. CASE SaveSeq(a)
    <3>1. adm[a].seen = row.sync
      BY <2>4 DEF SaveSeq, EditsInv, EditorsAgree
    <3>2. row' = [row EXCEPT !.sync = row.sync + 1]
      BY <2>4, <3>1 DEF SaveSeq
    <3>3. row'.sync = row.sync + 1 /\ row'.synced = row.synced
      BY <3>2 DEF TypeOK
    <3> QED
      BY <1>1, <2>2, <3>3
  <2> QED
    BY <2>1, <2>3, <2>4
<1>3. CASE Timer
  BY <1>3, TimerCarries
<1>4. CASE send_tasks_to_client \/ SyncTimeout
  <2>1. UNCHANGED <<row, cfg>>
    BY <1>4 DEF send_tasks_to_client, SyncTimeout, ServerLeaves
  <2>2. node'.sync = node.sync /\ node'.synced \in {node.sync, node.synced}
    BY <1>4 DEF send_tasks_to_client, SyncTimeout, TypeOK
  <2> QED
    BY <2>1, <2>2, CopiesShrink, CopiesHold
<1>5. CASE RecvAck
  <2>1. /\ cfg' = cfg /\ node' = [node EXCEPT !.timeout = "zero"]
        /\ row' = [row EXCEPT !.synced = node.synced]
    BY <1>5 DEF RecvAck, ServerLeaves
  <2>2. node'.sync = node.sync /\ node'.synced = node.synced
    BY <2>1 DEF TypeOK
  <2>3. row'.sync = row.sync /\ row'.synced = node.synced
    BY <2>1 DEF TypeOK
  <2> QED
    BY <2>1, <2>2, <2>3, CopiesShrink, CopiesHold
<1>6. CASE _cnm_client_del \/ ServerRestart
  <2>1. row' = row /\ (cfg' = cfg \/ cfg'.pc = "idle") /\ node' = FreshNode
    BY <1>6 DEF _cnm_client_del, ServerRestart, ServerLeaves, BlankCfg
  <2> QED
    BY <2>1, CopiesShrink, CopiesHold DEF FreshNode
<1>7. CASE RecvBeat \/ Device \/ Camera \/ UNCHANGED vars
  <2>1. UNCHANGED <<row, cfg, node>>
    BY <1>7 DEF RecvBeat, ServerLeaves, Camera, Device, Connect, LinkDown, ClientRestart, RecvRequest,
                Thread, SyncRm, SyncWget, SyncMv, SyncNotify, MainNotify, NotifyTimeout, RecvAnswer,
                SeesEndOfFile, CameraLoads, CameraLinkDown, NetLeaves, DeviceLeaves, vars, server
  <2> QED
    BY <1>1, <2>1
<1> QED
  BY <1>2, <1>3, <1>4, <1>5, <1>6, <1>7 DEF Next, Server

\* FileSync implements SettingPush: for any tasks, deletions, fetches, lost links and
\* restarts, whatever order confirmations and retries come in.
THEOREM ImplementsSettingPushHolds == Spec /\ EditsApart => ImplementsSettingPush
<1>1. Init => Pushed!Init
  BY DEF Init, Pushed!Init, Copies, BlankCfg, FreshNode
<1>2. ASSUME TypeOK, EditsInv, [Next]_vars
      PROVE  [Pushed!Next]_(Pushed!vars)
  <2>1. CASE row'.sync = row.sync + 1 /\ row'.synced = row.synced /\ Copies' = Copies
    BY <2>1 DEF Pushed!Next, Pushed!Ask
  <2>2. CASE row' = row /\ row.sync # row.synced /\ Copies' = Copies \cup {row.sync}
    BY <2>2 DEF Pushed!Next, Pushed!Carry
  <2>3. CASE /\ row'.sync = row.sync
             /\ row'.synced \in Copies \cup {row.synced, 0}
             /\ Copies' \in SUBSET Copies
    BY <2>3 DEF Pushed!Next, Pushed!Drop, Pushed!Record
  <2> QED
    BY <1>2, <2>1, <2>2, <2>3, StepOnNumbers
<1> QED
  BY <1>1, <1>2, TypeCorrect, EditsInvHolds, StepIsNext, PTL DEF Spec, ImplementsSettingPush, Pushed!Spec

-----------------------------------------------------------------------------
(* Why, when nothing goes wrong, "synchronised" in the row means loaded.     *)

Smooth == setup.may = {}

Busy == \E f \in Fetch : fetch[f] \in {"rm", "wget", "mv"}

CameraRests == ~pending /\ notes = 0 /\ answers = 0

\* Where the one request is: nowhere, on its way down, fetched, with the camera program,
\* or on its way back.
AtNode == node.timeout = "zero" /\ down = 0 /\ ~Busy /\ CameraRests /\ up = 0
GoesDown == node.timeout = "wait" /\ down = 1 /\ ~Busy /\ CameraRests /\ up = 0
Fetched == node.timeout = "wait" /\ down = 0 /\ Busy /\ CameraRests /\ up = 0
WithCamera ==
    /\ node.timeout = "wait" /\ down = 0 /\ ~Busy /\ up = 0 /\ pending
    /\ \/ notes = 0 /\ answers = 0
       \/ recent /\ notes + answers = 1
GoesUp == node.timeout = "wait" /\ down = 0 /\ ~Busy /\ CameraRests /\ up = 1

OnePlace == AtNode \/ GoesDown \/ Fetched \/ WithCamera \/ GoesUp

\* The connection stays, and one thread fetches at a time.
OneLink ==
    /\ link <=> st # "none"
    /\ st # "keyed" => node = FreshNode
    /\ row.synced <= node.synced /\ node.synced <= node.sync
    /\ \A f, g \in Fetch : fetch[f] # "idle" /\ fetch[g] # "idle" => f = g
    /\ \A f \in Fetch : fetch[f] = "mv" => tmp # Absent

\* What has been fetched for the newest number is the plan of the page.
Loads ==
    Counted /\ node.synced = row.sync /\ row.sync # 0 =>
        /\ \A f \in Fetch : fetch[f] = "mv" => tmp = tasks
        /\ pending => plan = tasks
        /\ answers # 0 \/ up # 0 \/ node.timeout = "zero" \/ row.synced = row.sync => loaded = tasks

SmoothInv == Smooth => OnePlace /\ OneLink /\ Loads


\* Nothing goes wrong in such a setup.
LEMMA SmoothMeans == Smooth => \A what \in Happenings : ~May(what)
BY DEF Smooth, May

\* While nothing goes wrong, nothing restarts, no link ends, no answer is given up and
\* no task is deleted.
LEMMA SmoothSteps ==
    ASSUME Smooth, EditsInv, OneLink
    PROVE  /\ ~Deletes
           /\ \A a \in Admin : ~DeleteTask(a)
           /\ ~SyncTimeout /\ ~_cnm_client_del /\ ~ServerRestart
           /\ ~LinkDown /\ ~ClientRestart /\ ~CameraLinkDown
<1>1. ~May("delete") /\ ~May("outage") /\ ~May("late")
  BY SmoothMeans DEF Happenings
<1>2. ~Deletes
  BY <1>1 DEF Deletes
<1>3. \A a \in Admin : ~DeleteTask(a)
  BY <1>2 DEF DeleteTask, EditsInv, EditorsAgree
<1>4. ~SyncTimeout
  BY <1>1 DEF SyncTimeout, OneLink
<1>5. ~LinkDown /\ ~ClientRestart /\ ~CameraLinkDown /\ ~_cnm_client_del /\ ~ServerRestart
  BY <1>1 DEF LinkDown, Leave, ClientRestart, CameraLinkDown, _cnm_client_del, ServerRestart
<1> QED BY <1>2, <1>3, <1>4, <1>5

\* The numbers the row has and the node has sent are numbers.
LEMMA SentNumbers ==
    ASSUME TypeOK
    PROVE  row.sync \in Nat /\ row.synced \in Nat /\ node.sync \in Nat /\ node.synced \in Nat
BY DEF TypeOK, Seqs

\* A node that waits for an answer has its serial and its connection.
LEMMA WaitingIsLinked ==
    ASSUME OneLink, node.timeout = "wait"
    PROVE  st = "keyed" /\ link
BY DEF OneLink, FreshNode

\* Nothing is under way at the start.
LEMMA InitSmooth == Init => SmoothInv
<1> SUFFICES ASSUME Init PROVE OnePlace /\ OneLink /\ Loads
  BY DEF SmoothInv
<1>1. /\ \A f \in Fetch : fetch[f] = "idle"
      /\ row.sync = 0 /\ row.synced = 0 /\ node = FreshNode
      /\ st = "none" /\ link = FALSE /\ down = 0 /\ up = 0
      /\ pending = FALSE /\ notes = 0 /\ answers = 0
  BY DEF Init
<1>2. AtNode
  BY <1>1 DEF AtNode, Busy, CameraRests, FreshNode
<1>3. OneLink
  BY <1>1 DEF OneLink, FreshNode
<1> QED BY <1>1, <1>2, <1>3 DEF OnePlace, Loads

\* What an edit leaves behind is not counted, or raises the number above what was sent.
LEMMA WebKeepsSmooth ==
    ASSUME TypeOK, SetupKnown, EditsInv, Smooth, OnePlace, OneLink, Loads,
           NEW a \in Admin, SaveTask(a) \/ ReadSeq(a) \/ SaveSeq(a) \/ DeleteTask(a)
    PROVE  OnePlace' /\ OneLink' /\ Loads'
<1>1. UNCHANGED <<server, net, device, camera>>
  BY DEF SaveTask, ReadSeq, SaveSeq, DeleteTask, WebLeaves
<1>2. UNCHANGED <<st, node, down, up, link, fetch, tmp, plan, pending, recent, notes, answers, loaded>>
  BY <1>1 DEF server, net, device, camera
<1>3. OnePlace'
  BY <1>2 DEF OnePlace, AtNode, GoesDown, Fetched, WithCamera, GoesUp, Busy, CameraRests
<1>4. row'.synced = row.synced
  BY DEF SaveTask, ReadSeq, SaveSeq, DeleteTask, TypeOK
<1>5. OneLink'
  BY <1>2, <1>4 DEF OneLink
<1>6. adm'[a].pc \notin {"idle", "delete"} \/ row'.sync = row.sync + 1
  <2>1. CASE SaveTask(a)
    BY <2>1 DEF SaveTask, TypeOK
  <2>2. CASE ReadSeq(a)
    BY <2>2 DEF ReadSeq, TypeOK
  <2>3. CASE SaveSeq(a)
    <3>1. adm[a].seen = row.sync
      BY <2>3 DEF SaveSeq, EditsInv, EditorsAgree
    <3>2. row' = [row EXCEPT !.sync = row.sync + 1]
      BY <2>3, <3>1 DEF SaveSeq
    <3> QED BY <3>2 DEF TypeOK
  <2> QED BY <2>1, <2>2, <2>3, SmoothSteps
<1>7. CASE adm'[a].pc \notin {"idle", "delete"}
  <2>1. ~Counted'
    BY <1>7 DEF Counted
  <2> QED BY <1>3, <1>5, <2>1 DEF Loads
<1>8. CASE row'.sync = row.sync + 1
  <2>1. node'.synced # row'.sync
    BY <1>2, <1>8, SentNumbers DEF OneLink, EditsInv, NumbersOrdered
  <2> QED BY <1>3, <1>5, <2>1 DEF Loads
<1> QED BY <1>6, <1>7, <1>8

\* A pass of the timer only raises the number the node has to send.
LEMMA TimerKeepsSmooth ==
    ASSUME TypeOK, EditsInv, OnePlace, OneLink, Loads, Timer
    PROVE  OnePlace' /\ OneLink' /\ Loads'
<1>1. CfgLeaves
  BY DEF Timer, CfgSelect, CfgOpen, CfgClose, cnm_client_update_task_seq
<1>2. UNCHANGED <<tasks, row, adm, st, down, up, link, fetch, tmp, plan, pending, recent, notes,
                  answers, loaded>>
  BY <1>1 DEF CfgLeaves, net, device, camera
<1>3. /\ node'.synced = node.synced /\ node'.timeout = node.timeout
      /\ node.sync <= node'.sync
      /\ node' = node \/ st = "keyed"
  <2>1. CASE CfgSelect \/ CfgOpen \/ CfgClose
    <3>1. node' = node
      BY <2>1 DEF CfgSelect, CfgOpen, CfgClose
    <3> QED BY <3>1, SyncNumbers
  <2>2. CASE cnm_client_update_task_seq
    <3>1. node.sync <= cfg.sync
      BY <2>2 DEF cnm_client_update_task_seq, EditsInv, NumbersOrdered
    <3>2. CASE st = "keyed"
      BY <2>2, <3>1, <3>2 DEF cnm_client_update_task_seq, TypeOK
    <3>3. CASE st # "keyed"
      BY <2>2, <3>3, SyncNumbers DEF cnm_client_update_task_seq
    <3> QED BY <3>2, <3>3
  <2> QED BY <2>1, <2>2 DEF Timer
<1>4. OnePlace'
  BY <1>2, <1>3 DEF OnePlace, AtNode, GoesDown, Fetched, WithCamera, GoesUp, Busy, CameraRests
<1>5. node'.sync \in Nat
  BY <1>3, TimerTyped DEF TypeOK, Seqs
<1>6. node'.synced <= node'.sync
  BY <1>3, <1>5, SentNumbers DEF OneLink
<1>7. OneLink'
  BY <1>2, <1>3, <1>6 DEF OneLink
<1>8. Loads'
  BY <1>2, <1>3 DEF Loads, Counted
<1> QED BY <1>4, <1>7, <1>8

\* The node sends when the last request was answered, and records what it has sent.
LEMMA ServerKeepsSmooth ==
    ASSUME TypeOK, EditsInv, Smooth, OnePlace, OneLink, Loads, Server
    PROVE  OnePlace' /\ OneLink' /\ Loads'
<1>1. ServerLeaves \/ ServerRestart
  BY DEF Server, send_tasks_to_client, SyncTimeout, RecvBeat, RecvAck, _cnm_client_del
<1>2. UNCHANGED <<tasks, adm, link, fetch, tmp, plan, pending, recent, notes, answers, loaded>>
  BY <1>1, SmoothSteps DEF ServerLeaves, device, camera
<1>3. CASE send_tasks_to_client
  <2>1. /\ st = "keyed" /\ node.timeout # "wait" /\ UNCHANGED <<row, st, up>>
        /\ node.sync # node.synced \/ node.timeout # "zero"
        /\ down' = IF link THEN down + 1 ELSE down
        /\ node' = [node EXCEPT !.timeout = "wait", !.synced = node.sync]
    BY <1>3 DEF send_tasks_to_client
  <2>2. AtNode
    BY <2>1 DEF OnePlace, GoesDown, Fetched, WithCamera, GoesUp
  <2>3. node.sync # node.synced
    BY <2>1, <2>2 DEF AtNode
  <2>4. node'.sync = node.sync /\ node'.synced = node.sync /\ node'.timeout = "wait"
    BY <2>1 DEF TypeOK
  <2>5. down' = 1
    BY <2>1, <2>2 DEF AtNode, OneLink
  <2>6. GoesDown'
    BY <1>2, <2>1, <2>2, <2>4, <2>5 DEF AtNode, GoesDown, Busy, CameraRests
  <2>7. row.synced < node.sync
    BY <2>3, SentNumbers DEF OneLink
  <2>8. OneLink'
    BY <1>2, <2>1, <2>4, <2>7, SentNumbers DEF OneLink
  <2>9. Loads'
    <3>1. node'.synced = row'.sync => row'.synced # row'.sync
      BY <2>1, <2>4, <2>7, SentNumbers
    <3> QED BY <1>2, <2>1, <2>2, <2>4, <3>1 DEF Loads, AtNode, Busy, CameraRests
  <2> QED BY <2>6, <2>8, <2>9 DEF OnePlace
<1>4. CASE RecvBeat
  <2>1. st # "none" /\ st' = "keyed" /\ UNCHANGED <<row, node, down, up>>
    BY <1>4 DEF RecvBeat
  <2>2. OnePlace'
    BY <1>2, <2>1 DEF OnePlace, AtNode, GoesDown, Fetched, WithCamera, GoesUp, Busy, CameraRests
  <2>3. OneLink'
    BY <1>2, <2>1 DEF OneLink
  <2>4. Loads'
    BY <1>2, <2>1 DEF Loads, Counted
  <2> QED BY <2>2, <2>3, <2>4
<1>5. CASE RecvAck
  <2>1. /\ up > 0 /\ up' = up - 1 /\ st' = "keyed" /\ st # "none" /\ down' = down
        /\ node' = [node EXCEPT !.timeout = "zero"]
        /\ row' = [row EXCEPT !.synced = node.synced]
    BY <1>5 DEF RecvAck
  <2>2. GoesUp
    BY <2>1 DEF OnePlace, AtNode, GoesDown, Fetched, WithCamera
  <2>3. /\ node'.timeout = "zero" /\ node'.synced = node.synced /\ node'.sync = node.sync
        /\ row'.sync = row.sync /\ row'.synced = node.synced
    BY <2>1 DEF TypeOK
  <2>4. AtNode'
    BY <1>2, <2>1, <2>2, <2>3 DEF GoesUp, AtNode, Busy, CameraRests
  <2>5. OneLink'
    BY <1>2, <2>1, <2>3, SentNumbers DEF OneLink
  <2>6. Loads'
    BY <1>2, <2>1, <2>2, <2>3 DEF Loads, Counted, GoesUp
  <2> QED BY <2>4, <2>5, <2>6 DEF OnePlace
<1> QED BY <1>3, <1>4, <1>5, SmoothSteps DEF Server

\* What a step of the device or of the camera program leaves.
LEMMA DeviceStepLeaves ==
    ASSUME NEW f \in Fetch,
           \/ RecvRequest(f) \/ Thread(f) \/ MainNotify \/ NotifyTimeout
           \/ RecvAnswer \/ CameraLoads
    PROVE  UNCHANGED <<tasks, row, adm, st, node, link>>
BY DEF RecvRequest, Thread, SyncRm, SyncWget, SyncMv, SyncNotify, MainNotify, NotifyTimeout,
       RecvAnswer, CameraLoads, DeviceLeaves, server, net

\* The request reaches a device that fetches nothing.
LEMMA RequestKeepsSmooth ==
    ASSUME TypeOK, Smooth, OnePlace, OneLink, Loads, NEW f \in Fetch, RecvRequest(f)
    PROVE  OnePlace' /\ OneLink' /\ Loads'
<1>1. UNCHANGED <<tasks, row, adm, st, node, link>>
  BY DeviceStepLeaves
<1>2. /\ down > 0 /\ down' = down - 1 /\ \A g \in Fetch : fetch[g] = "idle"
      /\ UNCHANGED <<up, tmp, plan, pending, recent, notes, answers, loaded>>
  BY SmoothMeans DEF RecvRequest, Happenings, camera
<1>3. fetch'[f] = "rm" /\ \A g \in Fetch \ {f} : fetch'[g] = "idle"
  BY <1>2 DEF RecvRequest, TypeOK
<1>4. GoesDown
  BY <1>2 DEF OnePlace, AtNode, Fetched, WithCamera, GoesUp
<1>5. Fetched'
  BY <1>1, <1>2, <1>3, <1>4 DEF GoesDown, Fetched, Busy, CameraRests
<1>6. OneLink'
  BY <1>1, <1>2, <1>3 DEF OneLink
<1>7. Loads'
  BY <1>1, <1>2, <1>3 DEF Loads, Counted
<1> QED BY <1>5, <1>6, <1>7 DEF OnePlace

\* The thread that fetches is the only one.
LEMMA OneFetches ==
    ASSUME OnePlace, OneLink, NEW f \in Fetch, fetch[f] \in {"rm", "wget", "mv"}
    PROVE  Fetched /\ \A g \in Fetch \ {f} : fetch[g] = "idle"
<1>1. Busy
  BY DEF Busy
<1>2. Fetched
  BY <1>1 DEF OnePlace, AtNode, GoesDown, WithCamera, GoesUp
<1> QED BY <1>2 DEF OneLink

\* The thread removes the last file.
LEMMA RmKeepsSmooth ==
    ASSUME TypeOK, OnePlace, OneLink, Loads, NEW f \in Fetch, SyncRm(f)
    PROVE  OnePlace' /\ OneLink' /\ Loads'
<1>1. UNCHANGED <<tasks, row, adm, st, node, link>>
  BY DeviceStepLeaves DEF Thread
<1>2. fetch[f] = "rm" /\ UNCHANGED <<down, up, plan, pending, recent, notes, answers, loaded>>
  BY DEF SyncRm, net, camera
<1>3. Fetched /\ \A g \in Fetch \ {f} : fetch[g] = "idle"
  BY <1>2, OneFetches
<1>4. fetch'[f] = "wget" /\ \A g \in Fetch \ {f} : fetch'[g] = "idle"
  BY <1>3 DEF SyncRm, TypeOK
<1>5. Fetched'
  BY <1>1, <1>2, <1>3, <1>4 DEF Fetched, Busy, CameraRests
<1>6. OneLink'
  BY <1>1, <1>4 DEF OneLink
<1>7. Loads'
  BY <1>1, <1>2, <1>4 DEF Loads, Counted
<1> QED BY <1>5, <1>6, <1>7 DEF OnePlace

\* What is fetched for the newest number is what the number was raised for.
LEMMA WgetKeepsSmooth ==
    ASSUME TypeOK, EditsInv, Smooth, OnePlace, OneLink, Loads, NEW f \in Fetch, SyncWget(f)
    PROVE  OnePlace' /\ OneLink' /\ Loads'
<1>1. UNCHANGED <<tasks, row, adm, st, node, link>>
  BY DeviceStepLeaves DEF Thread
<1>2. /\ fetch[f] = "wget" /\ cfg.pc # "write"
      /\ \/ file # Absent /\ tmp' = file
         \/ file = Absent /\ tmp' = Empty
      /\ UNCHANGED <<down, up, plan, pending, recent, notes, answers, loaded>>
  BY SmoothMeans DEF SyncWget, Happenings, net, camera
<1>3. Fetched /\ \A g \in Fetch \ {f} : fetch[g] = "idle"
  BY <1>2, OneFetches
<1>4. fetch'[f] = "mv" /\ \A g \in Fetch \ {f} : fetch'[g] = "idle"
  BY <1>3 DEF SyncWget, TypeOK
<1>5. Fetched'
  BY <1>1, <1>2, <1>3, <1>4 DEF Fetched, Busy, CameraRests
<1>6. tmp' # Absent
  BY <1>2, ContentIsNotSpecial
<1>7. OneLink'
  BY <1>1, <1>4, <1>6 DEF OneLink
<1>8. ASSUME Counted, node.synced = row.sync, row.sync # 0 PROVE tmp' = tasks
  <2>1. st = "keyed"
    BY <1>3, WaitingIsLinked DEF Fetched
  <2>2. node.sync = row.sync
    BY <1>8, SentNumbers DEF OneLink, EditsInv, NumbersOrdered
  <2>3. Carries(file)
    BY <1>2, <1>8, <2>1, <2>2 DEF EditsInv, NodeCarries, FileWillBe
  <2>4. file = tasks /\ file # Absent
    BY <2>3, SmoothSteps DEF Carries
  <2> QED BY <1>2, <2>4
<1>9. Loads'
  <2>1. (Counted' <=> Counted) /\ (pending' => pending) /\ tasks' = tasks
    BY <1>1, <1>2 DEF Counted
  <2> QED BY <1>1, <1>2, <1>8, <2>1 DEF Loads
<1> QED BY <1>5, <1>7, <1>9 DEF OnePlace

\* The file that was fetched becomes the plan, and is to be confirmed.
LEMMA MvKeepsSmooth ==
    ASSUME TypeOK, OnePlace, OneLink, Loads, NEW f \in Fetch, SyncMv(f)
    PROVE  OnePlace' /\ OneLink' /\ Loads'
<1>1. UNCHANGED <<tasks, row, adm, st, node, link>>
  BY DeviceStepLeaves DEF Thread
<1>2. fetch[f] = "mv" /\ tmp # Absent
  BY DEF SyncMv, OneLink
<1>3. plan' = tmp /\ pending' = TRUE /\ UNCHANGED <<down, up, recent, notes, answers, loaded>>
  BY <1>2 DEF SyncMv, net, camera
<1>4. Fetched /\ \A g \in Fetch \ {f} : fetch[g] = "idle"
  BY <1>2, OneFetches
<1>5. fetch'[f] = "notify" /\ \A g \in Fetch \ {f} : fetch'[g] = "idle"
  BY <1>2, <1>4 DEF SyncMv, TypeOK
<1>6. WithCamera'
  BY <1>1, <1>3, <1>4, <1>5 DEF Fetched, WithCamera, Busy, CameraRests
<1>7. OneLink'
  BY <1>1, <1>5 DEF OneLink
<1>8. Loads'
  <2>1. (Counted' <=> Counted) /\ \A g \in Fetch : fetch'[g] # "mv"
    BY <1>1, <1>5 DEF Counted
  <2> QED BY <1>1, <1>2, <1>3, <2>1 DEF Loads
<1> QED BY <1>6, <1>7, <1>8 DEF OnePlace

\* A notification, of the thread or of main, goes out when there is none under way.
LEMMA NotifyKeepsSmooth ==
    ASSUME TypeOK, OnePlace, OneLink, Loads,
           MainNotify \/ \E f \in Fetch : SyncNotify(f)
    PROVE  OnePlace' /\ OneLink' /\ Loads'
<1>1. /\ UNCHANGED <<tasks, row, adm, st, node, link, down, up, tmp, plan, pending, answers, loaded>>
      /\ ysf_notify_plan
  BY DEF MainNotify, SyncNotify, DeviceLeaves, server, net
<1>2. \/ pending /\ ~recent /\ notes' = notes + 1 /\ recent' = TRUE
      \/ notes' = notes /\ recent' = recent
  BY <1>1 DEF ysf_notify_plan
<1>3. \A g \in Fetch : fetch'[g] # "idle" => fetch'[g] = fetch[g]
  BY DEF MainNotify, SyncNotify, TypeOK
<1>4. Busy' => Busy
  BY <1>3 DEF Busy
<1>5. Busy => Busy'
  <2>1. \A g \in Fetch : fetch[g] \in {"rm", "wget", "mv"} => fetch'[g] = fetch[g]
    BY DEF MainNotify, SyncNotify, TypeOK
  <2> QED BY <2>1 DEF Busy
<1>6. OnePlace'
  <2>1. CASE pending /\ ~recent /\ notes' = notes + 1 /\ recent' = TRUE
    <3>1. WithCamera /\ notes = 0 /\ answers = 0
      BY <2>1 DEF OnePlace, AtNode, GoesDown, Fetched, WithCamera, GoesUp, CameraRests
    <3>2. WithCamera'
      BY <1>1, <1>4, <2>1, <3>1 DEF WithCamera
    <3> QED BY <3>2 DEF OnePlace
  <2>2. CASE notes' = notes /\ recent' = recent
    BY <1>1, <1>4, <1>5, <2>2
       DEF OnePlace, AtNode, GoesDown, Fetched, WithCamera, GoesUp, CameraRests
  <2> QED BY <1>2, <2>1, <2>2
<1>7. OneLink'
  BY <1>1, <1>3 DEF OneLink
<1>8. Loads'
  BY <1>1, <1>3 DEF Loads, Counted
<1> QED BY <1>6, <1>7, <1>8

\* The camera program reads the plan, and its answer becomes the acknowledgement.
LEMMA AnswerKeepsSmooth ==
    ASSUME TypeOK, Smooth, OnePlace, OneLink, Loads, NotifyTimeout \/ CameraLoads \/ RecvAnswer
    PROVE  OnePlace' /\ OneLink' /\ Loads'
<1>1. UNCHANGED <<tasks, row, adm, st, node, link, down, fetch, tmp, plan>>
  BY DEF NotifyTimeout, CameraLoads, RecvAnswer, DeviceLeaves, server, net, device
<1>2. (Busy' <=> Busy) /\ (Counted' <=> Counted)
  BY <1>1 DEF Busy, Counted
<1>3. OneLink'
  BY <1>1 DEF OneLink
<1>4. CASE NotifyTimeout
  <2>1. notes = 0 /\ answers = 0 /\ UNCHANGED <<up, pending, notes, answers, loaded>>
    BY <1>4, SmoothMeans DEF NotifyTimeout, Happenings, net, camera
  <2>2. OnePlace'
    BY <1>1, <1>2, <2>1 DEF OnePlace, AtNode, GoesDown, Fetched, WithCamera, GoesUp, CameraRests
  <2>3. Loads'
    BY <1>1, <1>2, <2>1 DEF Loads
  <2> QED BY <1>3, <2>2, <2>3
<1>5. CASE CameraLoads
  <2>1. /\ notes > 0 /\ notes' = notes - 1 /\ answers' = answers + 1 /\ loaded' = plan
        /\ UNCHANGED <<up, pending, recent>>
    BY <1>5 DEF CameraLoads, net, device
  <2>2. notes \in Nat /\ answers \in Nat
    BY DEF TypeOK
  <2>3. WithCamera /\ recent /\ notes = 1 /\ answers = 0
    BY <2>1, <2>2 DEF OnePlace, AtNode, GoesDown, Fetched, WithCamera, GoesUp, CameraRests
  <2>4. WithCamera'
    BY <1>1, <1>2, <2>1, <2>3 DEF WithCamera
  <2>5. Loads'
    BY <1>1, <1>2, <2>1, <2>3 DEF Loads, WithCamera
  <2> QED BY <1>3, <2>4, <2>5 DEF OnePlace
<1>6. CASE RecvAnswer
  <2>1. /\ answers > 0 /\ answers' = answers - 1 /\ pending' = FALSE
        /\ up' = IF link /\ st # "none" THEN up + 1 ELSE up
        /\ UNCHANGED <<recent, notes, loaded>>
    BY <1>6 DEF RecvAnswer
  <2>2. notes \in Nat /\ answers \in Nat
    BY DEF TypeOK
  <2>3. WithCamera /\ notes = 0 /\ answers = 1
    BY <2>1, <2>2 DEF OnePlace, AtNode, GoesDown, Fetched, WithCamera, GoesUp, CameraRests
  <2>4. up' = 1
    BY <2>1, <2>3, WaitingIsLinked DEF WithCamera
  <2>5. GoesUp'
    BY <1>1, <1>2, <2>1, <2>3, <2>4 DEF WithCamera, GoesUp, CameraRests
  <2>6. Loads'
    BY <1>1, <1>2, <2>1, <2>3 DEF Loads
  <2> QED BY <1>3, <2>5, <2>6 DEF OnePlace
<1> QED BY <1>4, <1>5, <1>6

\* Every step of the device and of the camera program keeps the one request in its place.
LEMMA DeviceKeepsSmooth ==
    ASSUME TypeOK, EditsInv, Smooth, OnePlace, OneLink, Loads, Device \/ Camera
    PROVE  OnePlace' /\ OneLink' /\ Loads'
<1>1. CASE Connect
  <2>1. /\ st = "none" /\ st' = "anon" /\ link' = TRUE
        /\ UNCHANGED <<tasks, row, adm, node, down, up, fetch, tmp, plan, pending, recent, notes,
                       answers, loaded>>
    BY <1>1 DEF Connect, NetLeaves, device, camera
  <2>2. OnePlace'
    BY <2>1 DEF OnePlace, AtNode, GoesDown, Fetched, WithCamera, GoesUp, Busy, CameraRests
  <2>3. OneLink'
    BY <2>1 DEF OneLink
  <2>4. Loads'
    BY <2>1 DEF Loads, Counted
  <2> QED BY <2>2, <2>3, <2>4
<1>2. ASSUME NEW f \in Fetch, RecvRequest(f) \/ Thread(f)
      PROVE  OnePlace' /\ OneLink' /\ Loads'
  BY <1>2, RequestKeepsSmooth, RmKeepsSmooth, WgetKeepsSmooth, MvKeepsSmooth, NotifyKeepsSmooth
     DEF Thread
<1>3. CASE MainNotify
  BY <1>3, NotifyKeepsSmooth
<1>4. CASE NotifyTimeout \/ CameraLoads \/ RecvAnswer
  BY <1>4, AnswerKeepsSmooth
<1> QED BY <1>1, <1>2, <1>3, <1>4, SmoothSteps DEF Device, Camera

\* The invariant of the undisturbed system.
LEMMA SmoothInvHolds == Spec /\ EditsApart => []SmoothInv
<1>1. ASSUME TypeOK, SetupKnown, EditsInv, SmoothInv, [Next]_vars, SetupStays
      PROVE  SmoothInv'
  <2> SUFFICES ASSUME Smooth, OnePlace, OneLink, Loads
               PROVE  OnePlace' /\ OneLink' /\ Loads'
    BY <1>1 DEF SmoothInv, Smooth, SetupStays
  <2>1. CASE Web
    BY <1>1, <2>1, WebKeepsSmooth DEF Web
  <2>2. CASE Timer
    BY <1>1, <2>2, TimerKeepsSmooth
  <2>3. CASE Server
    BY <1>1, <2>3, ServerKeepsSmooth
  <2>4. CASE Device \/ Camera
    BY <1>1, <2>4, DeviceKeepsSmooth
  <2>5. CASE UNCHANGED vars
    <3>1. UNCHANGED <<tasks, row, adm, st, node, down, up, link, fetch, tmp, plan, pending, recent,
                      notes, answers, loaded>>
      BY <2>5 DEF vars, server, net, device, camera
    <3>2. OnePlace'
      BY <3>1 DEF OnePlace, AtNode, GoesDown, Fetched, WithCamera, GoesUp, Busy, CameraRests
    <3>3. OneLink'
      BY <3>1 DEF OneLink
    <3>4. Loads'
      BY <3>1 DEF Loads, Counted
    <3> QED BY <3>2, <3>3, <3>4
  <2> QED BY <1>1, <2>1, <2>2, <2>3, <2>4, <2>5 DEF Next
<1> QED
  BY <1>1, InitSmooth, TypeCorrect, EditsInvHolds, StepIsNext, SetupAlwaysKnown, PTL DEF Spec

\* With nothing going wrong and edits apart, the row never says
\* "synchronised" before the camera program works by the plan of the page, for any
\* plan and number of edits, and any bound on the messages under way.
THEOREM RecordedAfterLoadedHolds == Spec => []RecordedAfterLoaded
<1>1. TypeOK /\ EditsInv /\ SmoothInv => RecordedAfterLoaded
  <2> SUFFICES ASSUME TypeOK, EditsInv, SmoothInv,
                      Smooth, NoEdit, row.sync = row.synced, row.sync # 0
               PROVE  loaded = tasks
    BY DEF RecordedAfterLoaded, Smooth
  <2>1. OneLink /\ Loads
    BY DEF SmoothInv
  <2>2. Counted
    BY DEF NoEdit, Counted
  <2>3. node.synced = row.sync
    BY <2>1, SentNumbers DEF OneLink, EditsInv, NumbersOrdered
  <2> QED BY <2>1, <2>2, <2>3 DEF Loads
<1>2. ~EditsApart => RecordedAfterLoaded
  BY DEF EditsApart, May, RecordedAfterLoaded
<1> QED BY <1>1, <1>2, EditsStayApart, TypeCorrect, EditsInvHolds, SmoothInvHolds, PTL

-----------------------------------------------------------------------------
(* What FileSync inherits from SettingPush.                                  *)

Promise == INSTANCE SettingPushProofs WITH
    Reset <- TRUE, asked <- row.sync, recorded <- row.synced, carried <- Copies

\* Every number of the plan that the server has a copy of was asked for by the page, and
\* an edit of the plan that was overtaken, and of which no copy is left, is never pushed
\* or recorded again, however often connections are replaced and plans fetched twice.
THEOREM OvertakenPlansStayLost ==
    Spec /\ EditsApart => []Promise!NumbersWereAsked /\ Promise!OvertakenStaysLost
<1>1. Promise!Spec => []Promise!NumbersWereAsked
  BY Promise!NumbersWereAskedHolds
<1>2. Promise!Spec => Promise!OvertakenStaysLost
  BY Promise!OvertakenStaysLostHolds
<1>3. Pushed!Init => Promise!Init
  BY DEF Pushed!Init, Promise!Init
<1>4. [Pushed!Next]_(Pushed!vars) => [Promise!Next]_(Promise!vars)
  BY DEF Pushed!Next, Pushed!vars, Pushed!Ask, Pushed!Carry, Pushed!Drop, Pushed!Record,
         Promise!Next, Promise!vars, Promise!Ask, Promise!Carry, Promise!Drop, Promise!Record
<1>5. QED
  BY <1>1, <1>2, <1>3, <1>4, ImplementsSettingPushHolds, PTL
     DEF ImplementsSettingPush, Pushed!Spec, Promise!Spec

=============================================================================
