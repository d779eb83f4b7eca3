------------------------------ MODULE FileSync ------------------------------
(***************************************************************************)
(* How the shooting plan and the shooting limits of a device get from the  *)
(* web page into its camera program.  They travel as files:                *)
(*                                                                         *)
(*   web page --(content, then number)--> CfgUpdateTimer --(plan.csv,      *)
(*   number)--> data_handle_thread --(request)--> cnm_client --(wget)-->   *)
(*   --(notification)--> camera program --(answer)--> cnm_client           *)
(*   --(acknowledgement)--> set_recv_data --(number recorded)              *)
(*                                                                         *)
(* The server has one node for the device; what happens while two          *)
(* connections of the device overlap is the subject of ValueSync.          *)
(***************************************************************************)
EXTENDS Naturals

CONSTANTS
    Setups,        \* the behaviours that are considered, see below
    Task,          \* what an administrator can put into the plan
    Admin,         \* web requests that can be in progress at the same time
    Fetch,         \* bound: fetching threads of cnm_client at the same time
    MaxSeq,        \* bound: the plan is edited until its number is MaxSeq
    MaxQueue,      \* bound: messages under way in one direction
    Empty,         \* the content of a file that was truncated and not yet written
    Absent         \* no file

\* A setup says what is sent (the rows of the task table, or the limits, which are
\* columns of the device's row), the number the edits stop at, and what may happen:
\* "delete": tasks are deleted
\* "torn": a fetch falls between fopen and fclose of the server
\* "fail": wget fails
\* "late": answers take longer than the retry that waits for them
\* "overlap": a fetch begins while another one is under way
\* "outage": links end, nodes expire and the programs restart
\* "crowd": a request of the page begins while another one is in progress
Happenings == {"delete", "torn", "fail", "late", "overlap", "outage", "crowd"}

ASSUME SetupsAreKnown ==
    Setups \subseteq [kind : {"tasks", "limits"}, last : 0..MaxSeq, may : SUBSET Happenings]
ASSUME ContentIsNotSpecial ==
    /\ Empty # Absent
    /\ \A p \in SUBSET Task : p # Empty /\ p # Absent
ASSUME BoundsAreNat == MaxSeq \in Nat /\ MaxQueue \in Nat

VARIABLES
    setup,   \* the behaviour's setup; it never changes
    tasks,   \* the device's rows of the task table, or the columns of its limits
    row,     \* the numbers sync (asked for) and synced (recorded) in the device's row
    adm,     \* the web requests in progress
    cfg,     \* the pass of CfgUpdateTimer, which holds the database lock
    file,    \* plan.csv on the server
    st,      \* server: what it knows of the device's connection
    node,    \* server: the synchronisation fields of the connection's node
    down,    \* requests under way to the device
    up,      \* acknowledgements under way to the server
    link,    \* device: link_ok
    fetch,   \* device: the threads that run sync_tasks
    tmp,     \* device: /tmp/.plan.csv
    plan,    \* device: /home/ysf/.camera/plan.csv
    pending, \* device: ysf_notify_plan_success = 0
    recent,  \* device: less than 10 seconds since the last notification
    notes,   \* notifications under way to the camera program
    answers, \* answers of the camera program under way to cnm_client
    loaded   \* what the camera program works by

server == <<st, node, cfg, file>>
device == <<fetch, tmp, plan, pending, recent>>
camera == <<notes, answers, loaded>>
net == <<down, up, link>>
vars == <<tasks, row, adm, server, net, device, camera>>

-----------------------------------------------------------------------------
Kind == setup.kind
May(what) == what \in setup.may
Deletes == May("delete")

Seqs == 0..MaxSeq
Plan == SUBSET Task

\* (mutant) malloc without memset
FreshNodeUncleared == [sync |-> 0, synced |-> MaxSeq + 1, timeout |-> "zero"]

\* malloc and memset of a new node
FreshNode == [sync |-> 0, synced |-> 0, timeout |-> "zero"]

Idle == [pc |-> "idle", seen |-> 0]
BlankCfg == [pc |-> "idle", sync |-> 0, content |-> {}]

Init ==
    /\ setup \in Setups
    /\ tasks = {} /\ row = [sync |-> 0, synced |-> 0]
    /\ adm = [a \in Admin |-> Idle]
    /\ cfg = BlankCfg /\ file = Absent
    /\ st = "none" /\ node = FreshNode
    /\ down = 0 /\ up = 0 /\ link = FALSE
    /\ fetch = [f \in Fetch |-> "idle"]
    /\ tmp = Absent /\ plan = {} /\ pending = FALSE /\ recent = FALSE
    /\ notes = 0 /\ answers = 0 /\ loaded = {}

-----------------------------------------------------------------------------
(* The web page.  Each request is a few statements to the database, which   *)
(* other requests and the server may interleave.                            *)

WebLeaves == UNCHANGED <<server, net, device, camera>>

NoEdit == \A a \in Admin : adm[a].pc = "idle"

\* a request comes in
Begins(a) == adm[a].pc = "idle" /\ (May("crowd") \/ NoEdit)

\* (mutant) the handler forgets to raise the number
SaveTaskUncounted(a) ==
    /\ Kind = "tasks" /\ Begins(a) /\ row.sync < setup.last
    /\ \E t \in Task \ tasks : tasks' = tasks \cup {t}
    /\ UNCHANGED <<adm, row>> /\ WebLeaves

\* taskAddHandle inserts a row, taskEditHandle changes one; the number follows
SaveTask(a) ==
    /\ Kind = "tasks" /\ Begins(a) /\ row.sync < setup.last
    /\ \E t \in Task \ tasks, gone \in SUBSET tasks :
          /\ \A x, y \in gone : x = y
          /\ tasks' = (tasks \ gone) \cup {t}
    /\ adm' = [adm EXCEPT ![a].pc = "saved"]
    /\ UNCHANGED row /\ WebLeaves

\* SELECT tasks_sync_seq; taskDel and parameterTaskHandle begin with it
ReadSeq(a) ==
    /\ \/ adm[a].pc = "saved" /\ adm' = [adm EXCEPT ![a] = [pc |-> "read", seen |-> row.sync]]
       \/ /\ Kind = "tasks" /\ Deletes
          /\ Begins(a) /\ adm' = [adm EXCEPT ![a] = [pc |-> "del", seen |-> row.sync]]
       \/ Begins(a) /\ adm' = [adm EXCEPT ![a] = [pc |-> "read", seen |-> row.sync]]
    /\ row.sync < setup.last
    /\ UNCHANGED <<tasks, row>> /\ WebLeaves

\* UPDATE tasks_sync_seq; the limits are saved by the same statement
SaveSeq(a) ==
    /\ adm[a].pc \in {"read", "del"} /\ adm[a].seen < setup.last
    /\ row' = [row EXCEPT !.sync = adm[a].seen + 1]
    /\ IF Kind = "limits" THEN tasks' \in Plan ELSE UNCHANGED tasks
    /\ adm' = [adm EXCEPT ![a] = IF adm[a].pc = "del" THEN [pc |-> "delete", seen |-> 0] ELSE Idle]
    /\ WebLeaves

\* taskDel deletes the row after it has raised the number; another request may
\* have deleted it already
DeleteTask(a) ==
    /\ adm[a].pc = "delete"
    /\ \E t \in Task : tasks' = tasks \ {t}
    /\ adm' = [adm EXCEPT ![a] = Idle]
    /\ UNCHANGED row /\ WebLeaves

-----------------------------------------------------------------------------
(* The server's main thread, which holds the database lock while it writes  *)
(* the file.  The file is truncated by fopen and has its content at fclose. *)

DbFree == cfg.pc = "idle"

CfgLeaves == UNCHANGED <<tasks, row, adm, st, net, device, camera>>

CfgSelect ==
    /\ cfg.pc = "idle" /\ row.sync # row.synced
    /\ cfg' = [cfg EXCEPT !.pc = "query", !.sync = row.sync, !.content = tasks]
    /\ UNCHANGED <<file, node>> /\ CfgLeaves

\* the SELECT of the tasks comes after that of the number, the limits come with it
CfgOpen ==
    /\ cfg.pc = "query"
    /\ cfg' = [cfg EXCEPT !.pc = "write", !.content = IF Kind = "tasks" THEN tasks ELSE @]
    /\ file' = Empty
    /\ UNCHANGED node /\ CfgLeaves

CfgClose ==
    /\ cfg.pc = "write"
    /\ cfg' = [cfg EXCEPT !.pc = "node"]
    /\ file' = cfg.content
    /\ UNCHANGED node /\ CfgLeaves

cnm_client_update_task_seq ==
    /\ cfg.pc = "node"
    /\ cfg' = BlankCfg
    /\ node' = IF st = "keyed" THEN [node EXCEPT !.sync = cfg.sync] ELSE node
    /\ UNCHANGED file /\ CfgLeaves

-----------------------------------------------------------------------------
(* The server's data_handle_thread.                                         *)

ServerLeaves == UNCHANGED <<tasks, adm, cfg, file, link, device, camera>>

\* send_tasks_to_client; what is sent on a link that has ended is lost
send_tasks_to_client ==
    /\ st = "keyed" /\ node.timeout # "wait" /\ down < MaxQueue
    /\ node.sync # node.synced \/ node.timeout # "zero"
    /\ down' = IF link THEN down + 1 ELSE down
    /\ node' = [node EXCEPT !.timeout = "wait", !.synced = node.sync]
    /\ UNCHANGED <<row, st, up>> /\ ServerLeaves

\* 60 seconds have passed since the request
SyncTimeout ==
    /\ May("late") \/ ~link
    /\ st = "keyed" /\ node.timeout = "wait"
    /\ node' = [node EXCEPT !.timeout = "over"]
    /\ UNCHANGED <<row, st, down, up>> /\ ServerLeaves

\* a heartbeat; the first message gives the node its serial
RecvBeat ==
    /\ link /\ st # "none" /\ up = 0
    /\ st' = "keyed"
    /\ UNCHANGED <<row, node, down, up>> /\ ServerLeaves

\* (mutant) an answer that comes after the 60 seconds is not recorded
RecvAckInTime ==
    /\ st # "none" /\ up > 0 /\ DbFree
    /\ st' = "keyed" /\ up' = up - 1
    /\ node' = [node EXCEPT !.timeout = "zero"]
    /\ row' = IF node.timeout = "wait" THEN [row EXCEPT !.synced = node.synced] ELSE row
    /\ UNCHANGED down /\ ServerLeaves

\* (mutant) the number the row asked for is recorded
RecvAckNewest ==
    /\ st # "none" /\ up > 0 /\ DbFree
    /\ st' = "keyed" /\ up' = up - 1
    /\ node' = [node EXCEPT !.timeout = "zero"]
    /\ row' = [row EXCEPT !.synced = row.sync]
    /\ UNCHANGED down /\ ServerLeaves

\* CNM_TASKS_SYNC_ACTION: the number sent last is recorded, 0 on a new node
RecvAck ==
    /\ st # "none" /\ up > 0 /\ DbFree
    /\ st' = "keyed" /\ up' = up - 1
    /\ node' = [node EXCEPT !.timeout = "zero"]
    /\ row' = [row EXCEPT !.synced = node.synced]
    /\ UNCHANGED down /\ ServerLeaves

\* the node expires, its connection fails or the device's next one replaces it
_cnm_client_del ==
    /\ May("outage") /\ st # "none"
    /\ st' = "none" /\ node' = FreshNode /\ up' = 0
    /\ UNCHANGED <<row, down>> /\ ServerLeaves

\* the file stays as it is, perhaps truncated
ServerRestart ==
    /\ May("outage")
    /\ st' = "none" /\ node' = FreshNode /\ up' = 0 /\ cfg' = BlankCfg
    /\ UNCHANGED <<tasks, row, adm, file, down, link, device, camera>>

-----------------------------------------------------------------------------
(* The device: cnm_client.                                                  *)

NetLeaves == UNCHANGED <<tasks, row, adm, node, cfg, file>>

Connect ==
    /\ ~link /\ st = "none"
    /\ link' = TRUE /\ st' = "anon"
    /\ UNCHANGED <<down, up, device, camera>> /\ NetLeaves

\* some of what the device has sent is lost, and all it has not read
Leave ==
    /\ May("outage") /\ link
    /\ link' = FALSE /\ down' = 0 /\ up' \in 0..up

LinkDown == Leave /\ UNCHANGED <<st, device, camera>> /\ NetLeaves

SeesEndOfFile == link /\ st = "none" /\ LinkDown

\* a restart, of the process or of the device: ysf_notify_plan_success = 1
ClientRestart ==
    /\ May("outage")
    /\ IF link THEN Leave ELSE UNCHANGED net
    /\ fetch' = [f \in Fetch |-> "idle"]
    /\ pending' = FALSE /\ recent' = FALSE /\ notes' = 0 /\ answers' = 0
    /\ UNCHANGED <<st, tmp, plan, loaded>> /\ NetLeaves

DeviceLeaves == UNCHANGED <<tasks, row, adm, server>>

\* CNM_TASKS_SYNC_REQUEST: sync_tasks_action starts a thread
RecvRequest(f) ==
    /\ link /\ down > 0 /\ fetch[f] = "idle"
    /\ May("overlap") \/ \A g \in Fetch : fetch[g] = "idle"
    /\ down' = down - 1
    /\ fetch' = [fetch EXCEPT ![f] = "rm"]
    /\ UNCHANGED <<up, link, tmp, plan, pending, recent, camera>> /\ DeviceLeaves

SyncRm(f) ==
    /\ fetch[f] = "rm"
    /\ fetch' = [fetch EXCEPT ![f] = "wget"]
    /\ tmp' = Absent
    /\ UNCHANGED <<net, plan, pending, recent, camera>> /\ DeviceLeaves

\* wget -O leaves an empty file when it fails, and reads what the server's
\* file holds when it does not
SyncWget(f) ==
    /\ fetch[f] = "wget" /\ (May("torn") \/ cfg.pc # "write")
    /\ fetch' = [fetch EXCEPT ![f] = "mv"]
    /\ \/ file # Absent /\ tmp' = file
       \/ (May("fail") \/ file = Absent) /\ tmp' = Empty
    /\ UNCHANGED <<net, plan, pending, recent, camera>> /\ DeviceLeaves

\* mv, ysf_notify_plan_success = 0; another thread may have taken the file
SyncMv(f) ==
    /\ fetch[f] = "mv"
    /\ fetch' = [fetch EXCEPT ![f] = IF tmp = Absent THEN "idle" ELSE "notify"]
    /\ plan' = IF tmp = Absent THEN plan ELSE tmp
    /\ pending' = (pending \/ tmp # Absent)
    /\ tmp' = Absent
    /\ UNCHANGED <<net, recent, camera>> /\ DeviceLeaves

\* ysf_notify_plan, from the fetching thread and every 10 seconds from main
ysf_notify_plan ==
    IF pending /\ ~recent
    THEN notes < MaxQueue /\ notes' = notes + 1 /\ recent' = TRUE
    ELSE UNCHANGED <<notes, recent>>

SyncNotify(f) ==
    /\ fetch[f] = "notify"
    /\ fetch' = [fetch EXCEPT ![f] = "idle"]
    /\ ysf_notify_plan
    /\ UNCHANGED <<net, tmp, plan, pending, answers, loaded>> /\ DeviceLeaves

MainNotify ==
    /\ pending /\ ~recent
    /\ ysf_notify_plan
    /\ UNCHANGED <<net, fetch, tmp, plan, pending, answers, loaded>> /\ DeviceLeaves

\* 10 seconds have passed since the notification
NotifyTimeout ==
    /\ recent /\ (May("late") \/ (notes = 0 /\ answers = 0))
    /\ recent' = FALSE
    /\ UNCHANGED <<net, fetch, tmp, plan, pending, camera>> /\ DeviceLeaves

\* the camera program reads the file it is notified of and answers
CameraLoads ==
    /\ notes > 0 /\ answers < MaxQueue
    /\ notes' = notes - 1 /\ answers' = answers + 1 /\ loaded' = plan
    /\ UNCHANGED <<net, device>> /\ DeviceLeaves

\* ysf_data_handle, reason 3: the flag is set, whichever file was confirmed, and
\* the acknowledgement goes out if there is a link
RecvAnswer ==
    /\ answers > 0 /\ up < MaxQueue
    /\ answers' = answers - 1 /\ pending' = FALSE
    /\ up' = IF link /\ st # "none" THEN up + 1 ELSE up
    /\ UNCHANGED <<down, link, fetch, tmp, plan, recent, notes, loaded>> /\ DeviceLeaves

\* the socket to the camera program ends and is opened again
CameraLinkDown ==
    /\ May("outage")
    /\ notes' = 0 /\ answers' = 0
    /\ UNCHANGED <<net, device, loaded>> /\ DeviceLeaves

-----------------------------------------------------------------------------
Web == \E a \in Admin : SaveTask(a) \/ ReadSeq(a) \/ SaveSeq(a) \/ DeleteTask(a)

Timer == CfgSelect \/ CfgOpen \/ CfgClose \/ cnm_client_update_task_seq

Server == \/ send_tasks_to_client \/ SyncTimeout \/ RecvBeat \/ RecvAck
          \/ _cnm_client_del \/ ServerRestart

Thread(f) == SyncRm(f) \/ SyncWget(f) \/ SyncMv(f) \/ SyncNotify(f)

Device == \/ Connect \/ LinkDown \/ ClientRestart
          \/ \E f \in Fetch : RecvRequest(f) \/ Thread(f)
          \/ MainNotify \/ NotifyTimeout \/ RecvAnswer

Camera == CameraLoads \/ CameraLinkDown

Next == Web \/ Timer \/ Server \/ Device \/ Camera

Spec == Init /\ [][Next /\ UNCHANGED setup]_<<vars, setup>>

(* Threads that loop for ever take their next step; requests of the page    *)
(* that have begun end.  New edits, lost links and restarts are not fair.   *)
Fairness ==
    /\ WF_vars(Timer) /\ SF_vars(RecvAck) /\ WF_vars(RecvBeat)
    /\ \A a \in Admin : WF_vars((adm[a].pc # "idle" /\ ReadSeq(a)) \/ SaveSeq(a) \/ DeleteTask(a))
    /\ SF_vars(send_tasks_to_client) /\ WF_vars(SyncTimeout)
    /\ WF_vars(~link /\ _cnm_client_del) /\ WF_vars(Connect) /\ WF_vars(SeesEndOfFile)
    /\ \A f \in Fetch : SF_vars(RecvRequest(f)) /\ SF_vars(Thread(f))
    /\ WF_vars(MainNotify) /\ WF_vars(NotifyTimeout) /\ WF_vars(CameraLoads) /\ SF_vars(RecvAnswer)

FairSpec == Spec /\ Fairness

-----------------------------------------------------------------------------
(* Properties                                                               *)

Content == {Empty, Absent} \cup Plan

\* Every variable keeps its shape.
TypeOK ==
    /\ tasks \in Plan
    /\ row \in [sync : Seqs, synced : Seqs]
    /\ adm \in [Admin -> [pc : {"idle", "saved", "read", "del", "delete"}, seen : Seqs]]
    /\ cfg \in [pc : {"idle", "query", "write", "node"}, sync : Seqs, content : Plan]
    /\ file \in Content
    /\ st \in {"none", "anon", "keyed"}
    /\ node \in [sync : Seqs, synced : Seqs, timeout : {"zero", "wait", "over"}]
    /\ down \in Nat /\ up \in Nat /\ link \in BOOLEAN
    /\ fetch \in [Fetch -> {"idle", "rm", "wget", "mv", "notify"}]
    /\ tmp \in Content /\ plan \in Content
    /\ pending \in BOOLEAN /\ recent \in BOOLEAN
    /\ notes \in Nat /\ answers \in Nat
    /\ loaded \in Content

\* no two requests of the page are in progress at the same time, which the page does
\* not see to: without it a number goes back, or counts for an edit it was not raised for
EditsApart == ~May("crowd")

\* what the file holds once the pass of CfgUpdateTimer that writes it is over
FileWillBe == IF cfg.pc = "write" THEN cfg.content ELSE file

\* content is what a file has to hold: no task is missing, and none is left that
\* was not deleted
Carries(content) ==
    /\ content \notin {Empty, Absent} /\ tasks \subseteq content
    /\ ~Deletes => content = tasks

\* Before a device can be told of a number, the file holds what the number was
\* raised for: the page saves before it counts, the timer reads the number
\* before the tasks and writes the file before it stores the number in the node.
FileCarriesEdits ==
    NoEdit /\ st = "keyed" /\ node.sync = row.sync /\ row.sync # 0 => Carries(FileWillBe)

\* the numbers of which the server has a copy, in the pass of CfgUpdateTimer and in
\* the node
Copies == ({s \in {cfg.sync} : cfg.pc # "idle"} \cup {node.sync, node.synced}) \ {0}

Pushed == INSTANCE SettingPush WITH
    Reset <- TRUE, asked <- row.sync, recorded <- row.synced, carried <- Copies

\* The plan is pushed as SettingPush says, but that a confirmation on a node that has
\* sent nothing records 0: no number is recorded that was overtaken and forgotten.
ImplementsSettingPush == Pushed!Spec

\* nothing is under way anywhere
Quiet ==
    /\ NoEdit /\ cfg.pc = "idle" /\ down = 0 /\ up = 0 /\ notes = 0 /\ answers = 0
    /\ ~pending /\ \A f \in Fetch : fetch[f] = "idle"

\* "Already synchronised" in the row means that the camera program works by the
\* plan of the page, once nothing is under way.
RecordedMeansLoaded ==
    Quiet /\ row.sync = row.synced /\ row.sync # 0 => loaded = tasks

\* The undisturbed system keeps a stronger promise: the row is never ahead of the
\* camera program, not even while messages are under way.
RecordedAfterLoaded ==
    setup.may = {} /\ NoEdit /\ row.sync = row.synced /\ row.sync # 0 => loaded = tasks

\* from some time on the device keeps its connection and its camera program
StableLink == <>[][link' = link /\ ~CameraLinkDown]_vars

\* from some time on a fetch ends before the next one begins
FetchesEnd == <>[](\A f, g \in Fetch : fetch[f] # "idle" /\ fetch[g] # "idle" => f = g)

\* When the edits and the outages stop, the row stops asking for the file,
\* although a first answer on a new node records the number 0.  If nothing has
\* gone wrong at all, the camera program then works by the plan of the page.
EventuallyRecorded ==
    StableLink /\ FetchesEnd =>
        <>[](/\ row.sync = row.synced
             /\ setup.may = {} /\ row.sync # 0 => loaded = tasks)

=============================================================================
