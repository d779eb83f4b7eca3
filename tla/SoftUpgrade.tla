----------------------------- MODULE SoftUpgrade -----------------------------
(***************************************************************************)
(* How the server brings a new cnm_client to the devices, a limited number *)
(* at a time.                                                              *)
(*                                                                         *)
(* Every message of a device makes the thread that reads it look at the    *)
(* table of the upgrades in progress (client_software_check).  A device    *)
(* with an older version gets a slot of the table and a request; it        *)
(* answers, downloads, says that it has downloaded, which frees the slot,  *)
(* and runs update.sh, which restarts it.  A slot that has not moved for   *)
(* 1800 seconds is freed by the main thread.                               *)
(***************************************************************************)
EXTENDS Naturals, Sequences, FiniteSets

CONSTANTS
    Setups,     \* the behaviours that are considered, see below
    Device,     \* the devices, which all begin with an older version
    Thread,     \* the data_handle_threads
    Job,        \* bound: threads running update_software on one device
    MaxQueue,   \* bound: messages a device has sent that were not read
    NoDevice    \* an idle thread's device

\* A setup gives upgrade_limit, CNM_UPDATE_DEVICE_NUM_MAX, the devices that are
\* switched on, those with auto_upgrade = 1, and what may happen:
\* "slow": an upgrade takes more than 1800 seconds
\* "late": a message is read between the end of the download and update.sh
\* "fail": wget fails
\* "db": the database cannot be reached
\* "window": the hour, or the page, forbids upgrades for a while
\* "outage": links end and the programs restart
Happenings == {"slow", "late", "fail", "db", "window", "outage"}

ASSUME SetupsAreKnown ==
    Setups \subseteq [limit : Nat, table : Nat, on : SUBSET Device, auto : SUBSET Device,
                 may : SUBSET Happenings]
ASSUME NoDeviceIsNoDevice == NoDevice \notin Device
ASSUME FiniteSystem == IsFiniteSet(Device) /\ IsFiniteSet(Thread)
ASSUME BoundIsNat == MaxQueue \in Nat

VARIABLES
    setup,   \* the behaviour's setup; it never changes
    slot,    \* cnm_update_status: each device's entry, and its status
    aged,    \* the entry has not changed its status for 1800 seconds
    held,    \* cnm_update_status.lock was taken and will never be released
    work,    \* what each data_handle_thread is at
    known,   \* the version in each device's node
    down,    \* requests under way to each device
    up,      \* messages under way to the server
    link,    \* link_ok of each device
    job,     \* what each update_software thread of a device is at
    archive, \* /tmp/firmware.tar.gz of each device
    runs     \* the version each device runs, and reports

table == <<slot, aged, held>>
net == <<down, up, link>>
device == <<job, archive, runs>>
vars == <<table, work, known, net, device>>

-----------------------------------------------------------------------------
May(what) == what \in setup.may

NoWork == [pc |-> "idle", dev |-> NoDevice, msg |-> "none"]

Init ==
    /\ setup \in Setups
    /\ slot = [d \in Device |-> "none"] /\ aged = [d \in Device |-> FALSE] /\ held = FALSE
    /\ work = [t \in Thread |-> NoWork]
    /\ known = [d \in Device |-> "none"]
    /\ down = [d \in Device |-> 0] /\ up = [d \in Device |-> <<>>]
    /\ link = [d \in Device |-> FALSE]
    /\ job = [d \in Device |-> [j \in Job |-> "idle"]]
    /\ archive = [d \in Device |-> "absent"]
    /\ runs = [d \in Device |-> "old"]

Working(d) == {j \in Job : job[d][j] # "idle"}

\* a request of the device, or an answer to one, is under way
UnderWay(d) ==
    \/ down[d] > 0
    \/ \E k \in 1..Len(up[d]) : up[d][k] \in {"response", "action"}
    \/ \E t \in Thread : work[t].dev = d /\ work[t].msg \in {"response", "action"}

-----------------------------------------------------------------------------
(* The table of upgrades in progress.                                       *)

\* cnm_update_status.client_num
client_num == Cardinality({d \in Device : slot[d] # "none"})

\* (mutant) the table is taken for full one entry early
SetStatusFullEarly(d, status) ==
    /\ ~held
    /\ \/ /\ slot[d] = "none" /\ client_num >= setup.table
          /\ held' = TRUE /\ UNCHANGED <<slot, aged>>
       \/ /\ slot[d] = "none" /\ client_num < setup.table
          /\ slot' = [slot EXCEPT ![d] = status] /\ aged' = [aged EXCEPT ![d] = FALSE]
          /\ UNCHANGED held
       \/ /\ slot[d] = "request" /\ status = "ack"
          /\ slot' = [slot EXCEPT ![d] = status] /\ aged' = [aged EXCEPT ![d] = FALSE]
          /\ UNCHANGED held
       \/ /\ slot[d] = status \/ slot[d] = "ack"
          /\ UNCHANGED <<slot, aged, held>>

\* (mutant) a refused call refreshes last_use_time
SetStatusRefreshes(d, status) ==
    /\ ~held
    /\ \/ /\ slot[d] = "none" /\ client_num > setup.table
          /\ held' = TRUE /\ UNCHANGED <<slot, aged>>
       \/ /\ slot[d] = "none" /\ client_num <= setup.table
          /\ slot' = [slot EXCEPT ![d] = status] /\ aged' = [aged EXCEPT ![d] = FALSE]
          /\ UNCHANGED held
       \/ /\ slot[d] = "request" /\ status = "ack"
          /\ slot' = [slot EXCEPT ![d] = status] /\ aged' = [aged EXCEPT ![d] = FALSE]
          /\ UNCHANGED held
       \/ /\ slot[d] = status \/ slot[d] = "ack"
          /\ aged' = [aged EXCEPT ![d] = FALSE] /\ UNCHANGED <<slot, held>>

\* cnm_set_update_soft_status with a status that is not the last one: a new
\* entry, or a status that goes forward; a full table keeps the lock
SetStatus(d, status) ==
    /\ ~held
    /\ \/ /\ slot[d] = "none" /\ client_num > setup.table
          /\ held' = TRUE /\ UNCHANGED <<slot, aged>>
       \/ /\ slot[d] = "none" /\ client_num <= setup.table
          /\ slot' = [slot EXCEPT ![d] = status] /\ aged' = [aged EXCEPT ![d] = FALSE]
          /\ UNCHANGED held
       \/ /\ slot[d] = "request" /\ status = "ack"
          /\ slot' = [slot EXCEPT ![d] = status] /\ aged' = [aged EXCEPT ![d] = FALSE]
          /\ UNCHANGED held
       \/ /\ slot[d] = status \/ slot[d] = "ack"
          /\ UNCHANGED <<slot, aged, held>>

\* CNM_UPDATE_SOFT_UPDATE_ACTION: the entry is removed
RemoveEntry(d) ==
    /\ ~held
    /\ slot' = [slot EXCEPT ![d] = "none"] /\ aged' = [aged EXCEPT ![d] = FALSE]
    /\ UNCHANGED held

\* 1800 seconds have passed since the status changed
Age(d) ==
    /\ slot[d] # "none" /\ ~aged[d]
    /\ May("slow") \/ (Working(d) = {} /\ ~UnderWay(d))
    /\ aged' = [aged EXCEPT ![d] = TRUE]
    /\ UNCHANGED <<slot, held, work, known, net, device>>

\* (mutant) an entry that was answered does not time out
TimeoutCheckUnanswered ==
    /\ ~held /\ \E d \in Device : aged[d]
    /\ slot' = [d \in Device |-> IF aged[d] /\ slot[d] = "request" THEN "none" ELSE slot[d]]
    /\ aged' = [d \in Device |-> FALSE]
    /\ UNCHANGED <<held, work, known, net, device>>

\* the main thread frees every entry that has not moved for 1800 seconds
cnm_update_soft_status_timeout_check ==
    /\ ~held /\ \E d \in Device : aged[d]
    /\ slot' = [d \in Device |-> IF aged[d] THEN "none" ELSE slot[d]]
    /\ aged' = [d \in Device |-> FALSE]
    /\ UNCHANGED <<held, work, known, net, device>>

-----------------------------------------------------------------------------
(* The server's data_handle_threads.                                        *)

\* (mutant) the limit is not looked at
MayUpgradeUnlimited(d) == known[d] = "old"

\* (mutant) a device that has answered is not counted any more
MayUpgradeWaiting(d) == Cardinality({e \in Device : slot[e] = "request"}) <= setup.limit /\ known[d] = "old"

\* client_software_check up to the call that takes the entry: client_num is
\* read without the lock
MayUpgrade(d) == client_num <= setup.limit /\ known[d] = "old"

\* a thread reads the next message of d; a connection has one thread
Recv(t, d) ==
    /\ work[t] = NoWork /\ up[d] # <<>>
    /\ \A u \in Thread : work[u].dev # d
    /\ \E pc \in {"take", "handle"} :
          /\ pc = "take" => MayUpgrade(d)
          /\ pc = "handle" => ~MayUpgrade(d) \/ May("window")
          /\ work' = [work EXCEPT ![t] = [pc |-> pc, dev |-> d, msg |-> Head(up[d])]]
    /\ up' = [up EXCEPT ![d] = Tail(@)]
    /\ UNCHANGED <<table, known, down, link, device>>

\* (mutant) requests pile up
SendRequestQueued(d) == down' = IF link[d] THEN [down EXCEPT ![d] = @ + 1] ELSE down

\* send() with MSG_DONTWAIT: a full buffer refuses the request, a link that has
\* ended loses it
SendRequest(d) ==
    \/ down' = IF link[d] THEN [down EXCEPT ![d] = 1] ELSE down
    \/ down[d] > 0 /\ UNCHANGED down

\* GetAutoUpgrade asks the row, or is wrong in either direction without a database
AutoUpgrade(d) == IF May("db") THEN BOOLEAN ELSE {d \in setup.auto}

\* (mutant) the request goes out although the device has an entry
TakeSlotAgain(t) ==
    /\ work[t].pc = "take"
    /\ LET d == work[t].dev
       IN /\ SetStatus(d, "request")
          /\ \/ TRUE \in AutoUpgrade(d) /\ SendRequest(d)
             \/ FALSE \in AutoUpgrade(d) /\ UNCHANGED down
    /\ work' = [work EXCEPT ![t].pc = "handle"]
    /\ UNCHANGED <<known, up, link, device>>

\* the rest of client_software_check: the entry is taken before the row is asked
\* whether the device is to be upgraded
TakeSlot(t) ==
    /\ work[t].pc = "take"
    /\ LET d == work[t].dev
       IN /\ SetStatus(d, "request")
          /\ \/ slot'[d] # slot[d] /\ TRUE \in AutoUpgrade(d) /\ SendRequest(d)
             \/ (slot'[d] = slot[d] \/ FALSE \in AutoUpgrade(d)) /\ UNCHANGED down
    /\ work' = [work EXCEPT ![t].pc = "handle"]
    /\ UNCHANGED <<known, up, link, device>>

\* set_recv_data: a heartbeat, an answer to a request, the end of a download
Handle(t) ==
    /\ work[t].pc = "handle"
    /\ LET d == work[t].dev
           m == work[t].msg
       IN \/ /\ m \in {"old", "new"} /\ known' = [known EXCEPT ![d] = m]
             /\ UNCHANGED table
          \/ m = "response" /\ SetStatus(d, "ack") /\ UNCHANGED known
          \/ m = "action" /\ RemoveEntry(d) /\ UNCHANGED known
    /\ work' = [work EXCEPT ![t] = NoWork]
    /\ UNCHANGED <<net, device>>

ServerRestart ==
    /\ May("outage")
    /\ slot' = [d \in Device |-> "none"] /\ aged' = [d \in Device |-> FALSE] /\ held' = FALSE
    /\ work' = [t \in Thread |-> NoWork]
    /\ known' = [d \in Device |-> "none"]
    /\ up' = [d \in Device |-> <<>>]
    /\ link' = [d \in Device |-> FALSE] /\ down' = [d \in Device |-> 0]
    /\ UNCHANGED device

-----------------------------------------------------------------------------
(* The devices.                                                             *)

ServerLeaves == UNCHANGED <<table, work>>

\* bound: a device connects when the server is done with its last connection
Connect(d) ==
    /\ d \in setup.on /\ ~link[d] /\ up[d] = <<>> /\ \A t \in Thread : work[t].dev # d
    /\ link' = [link EXCEPT ![d] = TRUE]
    /\ known' = [known EXCEPT ![d] = "none"]
    /\ UNCHANGED <<down, up, device>> /\ ServerLeaves

\* some of what the device has sent is lost, and all it has not read
Leave(d) ==
    /\ link' = [link EXCEPT ![d] = FALSE] /\ down' = [down EXCEPT ![d] = 0]
    /\ \E n \in 0..Len(up[d]) : up' = [up EXCEPT ![d] = SubSeq(@, 1, n)]

LinkDown(d) ==
    /\ May("outage") /\ link[d] /\ Leave(d)
    /\ UNCHANGED <<known, device>> /\ ServerLeaves

\* cnm_client ends; system monitor starts it again
ClientRestart(d) ==
    /\ May("outage") /\ Leave(d)
    /\ job' = [job EXCEPT ![d] = [j \in Job |-> "idle"]]
    /\ UNCHANGED <<archive, runs, known>> /\ ServerLeaves

Write(d, m) ==
    /\ link[d] /\ Len(up[d]) < MaxQueue
    /\ up' = [up EXCEPT ![d] = Append(@, m)]

\* bound: the next heartbeat comes when the last one was read
Heartbeat(d) ==
    /\ up[d] = <<>> /\ \A t \in Thread : work[t].dev # d
    /\ May("late") \/ \A j \in Job : job[d][j] # "unpack"
    /\ Write(d, runs[d])
    /\ UNCHANGED <<known, down, link, device>> /\ ServerLeaves

DeviceLeaves == UNCHANGED <<known, link, runs>> /\ ServerLeaves

\* update_software_action starts a thread
RecvRequest(d, j) ==
    /\ link[d] /\ down[d] > 0 /\ job[d][j] = "idle"
    /\ down' = [down EXCEPT ![d] = 0]
    /\ job' = [job EXCEPT ![d][j] = "rm"]
    /\ UNCHANGED <<up, archive>> /\ DeviceLeaves

Goes(d, j, from, to) == job[d][j] = from /\ job' = [job EXCEPT ![d][j] = to]

UpdateRm(d, j) ==
    /\ Goes(d, j, "rm", "respond")
    /\ archive' = [archive EXCEPT ![d] = "absent"]
    /\ UNCHANGED <<down, up>> /\ DeviceLeaves

send_update_response_to_server(d, j) ==
    /\ Goes(d, j, "respond", "wget") /\ Write(d, "response")
    /\ UNCHANGED <<down, archive>> /\ DeviceLeaves

UpdateWget(d, j) ==
    /\ Goes(d, j, "wget", "fetch")
    /\ archive' = [archive EXCEPT ![d] = "part"]
    /\ UNCHANGED <<down, up>> /\ DeviceLeaves

\* wget ends; another thread may have removed the file, or write into it too
UpdateFetched(d, j) ==
    /\ Goes(d, j, "fetch", "action")
    /\ \/ archive' = [archive EXCEPT ![d] = IF @ = "absent" THEN @ ELSE "whole"]
       \/ (May("fail") \/ Working(d) # {j}) /\ UNCHANGED archive
    /\ UNCHANGED <<down, up>> /\ DeviceLeaves

send_update_action_to_server(d, j) ==
    /\ Goes(d, j, "action", "unpack") /\ Write(d, "action")
    /\ UNCHANGED <<down, archive>> /\ DeviceLeaves

\* tar and update.sh, which is among the last members of the archive: without
\* it nothing happens, with it the programs are replaced and the device restarts
UpdateInstall(d, j) ==
    /\ job[d][j] = "unpack"
    /\ IF archive[d] = "whole"
       THEN /\ runs' = [runs EXCEPT ![d] = "new"]
            /\ job' = [job EXCEPT ![d] = [i \in Job |-> "idle"]]
            /\ archive' = [archive EXCEPT ![d] = "absent"]
            /\ Leave(d)
       ELSE /\ job' = [job EXCEPT ![d][j] = "idle"]
            /\ UNCHANGED <<runs, archive, net>>
    /\ UNCHANGED known /\ ServerLeaves

-----------------------------------------------------------------------------
Upgrading(d, j) ==
    \/ RecvRequest(d, j) \/ UpdateRm(d, j) \/ send_update_response_to_server(d, j)
    \/ UpdateWget(d, j) \/ UpdateFetched(d, j) \/ send_update_action_to_server(d, j)
    \/ UpdateInstall(d, j)

Devices == \E d \in Device :
    \/ Connect(d) \/ LinkDown(d) \/ ClientRestart(d) \/ Heartbeat(d)
    \/ \E j \in Job : Upgrading(d, j)

Server ==
    \/ \E t \in Thread : TakeSlot(t) \/ Handle(t) \/ \E d \in Device : Recv(t, d)
    \/ \E d \in Device : Age(d)
    \/ cnm_update_soft_status_timeout_check \/ ServerRestart

Next == Server \/ Devices

Spec == Init /\ [][Next /\ UNCHANGED setup]_<<vars, setup>>

(* The threads of both programs take their next step, time passes, and a    *)
(* device whose link has ended connects again.  Which device finds a free   *)
(* entry first is left to chance.                                           *)
Fairness ==
    /\ WF_vars(cnm_update_soft_status_timeout_check)
    /\ \A t \in Thread : WF_vars(TakeSlot(t) \/ Handle(t))
    /\ \A d \in Device :
          /\ WF_vars(Age(d)) /\ WF_vars(Connect(d)) /\ SF_vars(Heartbeat(d))
          /\ SF_vars(\E t \in Thread : Recv(t, d))
          /\ \A j \in Job : SF_vars(Upgrading(d, j))

FairSpec == Spec /\ Fairness

-----------------------------------------------------------------------------
(* Properties                                                               *)

Messages == {"old", "new", "response", "action"}

\* Every variable keeps its shape.
TypeOK ==
    /\ slot \in [Device -> {"none", "request", "ack"}]
    /\ aged \in [Device -> BOOLEAN] /\ held \in BOOLEAN
    /\ work \in [Thread -> {NoWork} \cup [pc : {"take", "handle"}, dev : Device, msg : Messages]]
    /\ known \in [Device -> {"none", "old", "new"}]
    /\ down \in [Device -> {0, 1}]
    /\ up \in [Device -> Seq(Messages)]
    /\ link \in [Device -> BOOLEAN]
    /\ job \in [Device -> [Job -> {"idle", "rm", "respond", "wget", "fetch", "action", "unpack"}]]
    /\ archive \in [Device -> {"absent", "part", "whole"}]
    /\ runs \in [Device -> {"old", "new"}]

Requested == {d \in Device : slot[d] = "request"}

Taking == {t \in Thread : work[t].pc = "take"}

\* The limit is compared without the lock, and with <= where < would do: each
\* thread can let one device through at the same moment.  Whatever is lost, slow
\* or restarted, requests without an answer never exceed the limit by more.
RequestsBounded ==
    Cardinality(Requested) + Cardinality(Taking) <= setup.limit + Cardinality(Thread)

\* the devices that have a request and have not said that they have downloaded
Downloading ==
    {d \in Device : \E j \in Job : job[d][j] \in {"rm", "respond", "wget", "fetch", "action"}}

\* upgrades end within 1800 seconds, and nothing restarts under them
Calm == {"slow", "late", "outage"} \cap setup.may = {}

\* The table stands for the devices: one that is downloading has an entry, and
\* one thread, so that what bounds the table bounds the load.
EntryCoversDownload ==
    Calm => \A d \in Device :
        /\ d \in Downloading => slot[d] # "none"
        /\ Cardinality(Working(d)) <= 1

\* What the limit is worth for the load: the devices that download at the same moment
\* exceed it by one for each thread at most, as long as their entries last.
LoadBounded == Calm => Cardinality(Downloading) <= setup.limit + Cardinality(Thread)

\* The lock is lost in a full table only, and with room for the limit and one
\* more device a thread the table does not get full.
LockIsReleased ==
    Calm /\ setup.limit + Cardinality(Thread) <= setup.table + 1 => ~held

\* "The number of devices that upgrade at the same time" of the page.
UpgradesWithinLimit == Cardinality(Downloading) <= setup.limit

Outage == ServerRestart \/ \E d \in Device : LinkDown(d) \/ ClientRestart(d)

\* An entry does not stay: a device that is gone, a request that was lost and an
\* answer that was late hold a slot for 1800 seconds, twice at most, although
\* the device's messages find the entry again and again.
EntriesEnd == \A d \in Device : slot[d] # "none" ~> slot[d] = "none"

\* When the outages stop and every device may be upgraded, every device ends up
\* with the new version, though links were lost at any point of an upgrade.
EventuallyUpgraded ==
    {"slow", "late", "fail", "db", "window"} \cap setup.may = {} /\ setup.on \subseteq setup.auto
        /\ <>[][~Outage]_vars
        => <>(\A d \in setup.on : runs[d] = "new")

=============================================================================
