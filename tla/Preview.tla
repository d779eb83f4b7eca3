------------------------------- MODULE Preview -------------------------------
(***************************************************************************)
(* A preview picture: the administrator asks for it with parameters of the *)
(* lens, and the camera's picture comes back to the page.                  *)
(*                                                                         *)
(*   web page --(row)--> UpdatePreview --(preview.ini, number)           *)
(*   --> data_handle_thread --(request)--> preview_tasks --(notification)  *)
(*   --> camera program --(answer, later the picture)--> preview_tasks     *)
(*   --(rsync of the picture, then the result)--> set_recv_data --> row    *)
(*                                                                         *)
(* The row waits for the request to be confirmed; until then the server    *)
(* carries the number to the device's connection, and makes the request    *)
(* once of each connection and again when no confirmation comes.           *)
(*                                                                         *)
(* A picture and the file it is taken by are named by the number of the    *)
(* request, 0 for none.  One device, one administrator, one connection.    *)
(***************************************************************************)
EXTENDS Naturals, Sequences

CONSTANTS
    Setups,        \* the behaviours that are considered, see below
    Fetch,         \* bound: threads running preview_tasks at the same time
    MaxSeq,        \* bound: requests of the administrator
    MaxQueue       \* bound: messages under way in one direction

\* A setup says how many previews are asked for, and what may happen:
\* "again": the administrator asks before the last preview has come to rest
\* "link": links end while nothing is under way on them
\* "loss": they end while messages are under way, and the server gives up
\* connections and restarts
\* "cut": links end, and so may what the other happenings end, between the device's taking
\* a request and the server's recording of its confirmation; without "cut" they do so at
\* any other time.  A request that is cut is made twice of the device
\* "camera": the camera program's socket ends and it restarts
\* "late": answers take longer than the waits for them; "early": a picture comes
\* before the thread that has asked for it waits
\* "rsync": the upload fails
\* "wget": preview.ini is not fetched, or it is while the server rewrites it
\* "restart": cnm_client restarts
Happenings == {"again", "link", "loss", "cut", "camera", "late", "early", "rsync", "wget", "restart"}

ASSUME SetupsAreKnown == Setups \subseteq [last : 0..MaxSeq, may : SUBSET Happenings]
ASSUME BoundsAreNat == MaxSeq \in Nat /\ MaxQueue \in Nat

VARIABLES
    setup,    \* the behaviour's setup; it never changes
    row,      \* preview_sync_seq, preview_synced_seq and status_preview
    shown,    \* the picture in the device's directory on the server
    upd,      \* the number UpdatePreview carries to the node, with the database lock
    ini,      \* preview.ini on the server
    st,       \* server: what it knows of the device's connection
    node,     \* server: the synchronisation fields of its node
    down,     \* requests under way to the device
    up,       \* results under way to the server
    link,     \* device: link_ok
    fetch,    \* device: the threads that run preview_tasks
    tmp,      \* device: /tmp/.preview.ini, of which all these threads have one
    got,      \* device: the camera's preview.ini
    pending,  \* device: ysf_notify_preview_success = 0
    response, \* device: ysf_notify_preview_response, 0 for any count below 3
    unsent,   \* device: cnm_notify_preview_success = 0
    sending,  \* device: main has sent the result and is about to say so
    notes,    \* notifications under way to the camera program
    shoot,    \* the picture the camera is taking
    answers,  \* answers of the camera program under way to cnm_client
    jpeg      \* /tmp/preview.jpeg

server == <<upd, ini, st, node>>
net == <<down, up, link>>
device == <<fetch, tmp, got, pending, response, unsent, sending>>
camera == <<notes, shoot, answers, jpeg>>
vars == <<row, shown, server, net, device, camera>>

-----------------------------------------------------------------------------
May(what) == what \in setup.may

Seqs == 0..MaxSeq

\* the file that is there and has nothing in it
Empty == MaxSeq + 1

Files == Seqs \cup {Empty}

\* values of status_preview
NoAction == 0
Generating == 1
Generated == 2
Failed == 3

\* values of ysf_notify_preview_response
Waiting == 0
TimedOut == 3
Taken == 4

\* (mutant) malloc without memset
FreshNodeUncleared == [sync |-> 0, synced |-> MaxSeq + 1, timeout |-> "zero"]

\* malloc and memset of a new node
FreshNode == [sync |-> 0, synced |-> 0, timeout |-> "zero"]

Init ==
    /\ setup \in Setups
    /\ row = [sync |-> 0, synced |-> 0, status |-> NoAction]
    /\ shown = 0
    /\ upd = 0 /\ ini = 0 /\ st = "none" /\ node = FreshNode
    /\ down = 0 /\ up = <<>> /\ link = FALSE
    /\ fetch = [f \in Fetch |-> "idle"]
    /\ tmp = 0 /\ got = 0 /\ pending = FALSE /\ response = Waiting /\ unsent = FALSE /\ sending = FALSE
    /\ notes = 0 /\ shoot = 0 /\ answers = <<>> /\ jpeg = 0

-----------------------------------------------------------------------------
(* The web page.                                                            *)

\* nothing of a preview is under way in the device
DeviceRests ==
    /\ \A f \in Fetch : fetch[f] = "idle"
    /\ ~unsent /\ ~sending /\ notes = 0 /\ shoot = 0 /\ answers = <<>>

\* parameterEditHandle of a device that is online: the old picture is deleted, the
\* request saved
RequestPreview ==
    /\ row.sync < setup.last /\ st = "keyed"
    /\ \/ May("again")
       \/ row.sync = 0
       \/ row.status \in {Generated, Failed} /\ DeviceRests /\ down = 0 /\ up = <<>>
    /\ shown' = 0
    /\ row' = [row EXCEPT !.sync = @ + 1, !.status = NoAction]
    /\ UNCHANGED <<server, net, device, camera>>

-----------------------------------------------------------------------------
(* The server: cnm_web_socket and data_handle_thread.                       *)

\* UpdatePreview holds the database lock until it has stored the number
DbFree == upd = 0

\* (mutant) a number that has been stored once is not stored again
UpdatePreviewOnce ==
    /\ DbFree
    /\ IF row.sync # row.synced /\ row.status = NoAction /\ ini # row.sync
       THEN upd' = row.sync /\ ini' = row.sync
       ELSE UNCHANGED <<upd, ini>>
    /\ UNCHANGED <<row, shown, st, node, net, device, camera>>

\* cnm_web_socket calls it for every datagram of the page, and CfgUpdateTimer at the end
\* of every pass of 10 seconds, whether a datagram has come or not: a row that is still
\* at 0 is taken again, its file written and its number stored
UpdatePreview ==
    /\ DbFree
    /\ IF row.sync # row.synced /\ row.status = NoAction
       THEN upd' = row.sync /\ ini' = row.sync
       ELSE UNCHANGED <<upd, ini>>
    /\ UNCHANGED <<row, shown, st, node, net, device, camera>>

cnm_client_update_preview_seq ==
    /\ upd # 0
    /\ upd' = 0
    /\ node' = IF st = "keyed" THEN [node EXCEPT !.sync = upd] ELSE node
    /\ UNCHANGED <<row, shown, ini, st, net, device, camera>>

ServerLeaves == UNCHANGED <<shown, upd, ini, link, device, camera>>

\* what is sent on a link that has ended is lost (bound: one request under way)
send_preview_to_client ==
    /\ st = "keyed" /\ node.timeout # "wait" /\ down = 0
    /\ node.sync # node.synced \/ node.timeout # "zero"
    /\ down' = IF link THEN down + 1 ELSE down
    /\ node' = [node EXCEPT !.timeout = "wait", !.synced = node.sync]
    /\ UNCHANGED <<row, st, up>> /\ ServerLeaves

\* 60 seconds have passed since the request
SyncTimeout ==
    /\ ~link \/ May("late") \/ May("camera") \/ May("wget")
    /\ st = "keyed" /\ node.timeout = "wait"
    /\ node' = [node EXCEPT !.timeout = "over"]
    /\ UNCHANGED <<row, st, down, up>> /\ ServerLeaves

\* a heartbeat; the first message gives the node its serial
RecvBeat ==
    /\ link /\ st # "none" /\ up = <<>>
    /\ st' = "keyed"
    /\ UNCHANGED <<row, node, down, up>> /\ ServerLeaves

\* the next message from the device leaves the node as n; the row becomes r, once
\* UpdatePreviewSyncedSeq has the database lock
Take(type, n, r) ==
    /\ st # "none" /\ up # <<>> /\ Head(up) = type /\ DbFree
    /\ st' = "keyed" /\ up' = Tail(up)
    /\ node' = n /\ row' = r
    /\ UNCHANGED down /\ ServerLeaves

\* (mutant) the number the row asks for is recorded
RecvResponseNewest ==
    Take("response", [node EXCEPT !.timeout = "zero"],
         [row EXCEPT !.synced = row.sync, !.status = Generating])

\* CNM_PREVIEW_SYNC_RESPONSE: the camera has the parameters.  UpdatePreviewSyncedSeq
\* leaves the number alone when it is given 0, which is what a new node has.
RecvResponse ==
    Take("response", [node EXCEPT !.timeout = "zero"],
         [row EXCEPT !.synced = IF node.synced # 0 THEN node.synced ELSE @, !.status = Generating])

\* CNM_PREVIEW_SYNC_ACTION and CNM_PREVIEW_SYNC_FAIL
RecvAction == Take("action", node, [row EXCEPT !.status = Generated])

RecvFail == Take("fail", node, [row EXCEPT !.status = Failed])

\* the device has the request, and the row does not say so yet
Unconfirmed == row.status = NoAction /\ (up # <<>> \/ \E f \in Fetch : fetch[f] # "idle")

\* the server sees the end of the connection, or has given it up
_cnm_client_del ==
    /\ st # "none"
    /\ \/ ~link /\ up = <<>>
       \/ May("loss") /\ (Unconfirmed \/ down # 0 => May("cut"))
    /\ st' = "none" /\ node' = FreshNode /\ up' = <<>>
    /\ UNCHANGED <<row, down>> /\ ServerLeaves

\* nodes and messages are lost, the rows and the files stay
ServerRestart ==
    /\ May("loss") /\ (Unconfirmed \/ down # 0 => May("cut"))
    /\ st' = "none" /\ node' = FreshNode /\ up' = <<>> /\ upd' = 0
    /\ UNCHANGED <<row, shown, ini, down, link, device, camera>>

-----------------------------------------------------------------------------
(* The device: cnm_client.                                                  *)

Connect ==
    /\ ~link /\ st = "none"
    /\ link' = TRUE /\ st' = "anon"
    /\ UNCHANGED <<row, shown, upd, ini, node, down, up, device, camera>>

Leave ==
    /\ link' = FALSE /\ down' = 0
    /\ \E n \in 0..Len(up) : up' = SubSeq(up, 1, n)

\* the link ends, or the device sees that the server has closed it (bound: it is cut
\* while another thread can be started)
LinkDown ==
    /\ link
    /\ \/ st = "none"
       \/ /\ May("loss") \/ (down = 0 /\ up = <<>>)
          /\ \/ ~Unconfirmed /\ (May("link") \/ May("loss"))
             \/ Unconfirmed /\ May("cut") /\ \E f \in Fetch : fetch[f] = "idle"
    /\ Leave
    /\ UNCHANGED <<row, shown, server, device, camera>>

ClientRestart ==
    /\ May("restart") /\ (Unconfirmed => May("cut"))
    /\ Leave
    /\ fetch' = [f \in Fetch |-> "idle"]
    /\ pending' = FALSE /\ response' = Waiting /\ unsent' = FALSE /\ sending' = FALSE
    /\ notes' = 0 /\ answers' = <<>>
    /\ UNCHANGED <<row, shown, server, tmp, got, shoot, jpeg>>

DeviceLeaves == UNCHANGED <<row, server>>

\* threads have no identity, a new one takes the first that is free
FreeThread == CHOOSE f \in Fetch : fetch[f] = "idle"

\* CNM_PREVIEW_SYNC_REQUEST: sync_preview_action starts a thread (bound: one at a time,
\* where neither requests overlap nor links are cut)
RecvRequest(f) ==
    /\ link /\ down > 0 /\ fetch[f] = "idle" /\ f = FreeThread
    /\ May("cut") \/ May("again") \/ \A g \in Fetch : fetch[g] = "idle"
    /\ down' = down - 1
    /\ fetch' = [fetch EXCEPT ![f] = "rm"]
    /\ UNCHANGED <<shown, up, link, tmp, got, pending, response, unsent, sending, camera>> /\ DeviceLeaves

PreviewRm(f) ==
    /\ fetch[f] = "rm"
    /\ fetch' = [fetch EXCEPT ![f] = "wget"]
    /\ tmp' = 0
    /\ UNCHANGED <<shown, net, got, pending, response, unsent, sending, camera>> /\ DeviceLeaves

\* wget -O leaves an empty file when it fails or finds one that is being rewritten
PreviewWget(f) ==
    /\ fetch[f] = "wget"
    /\ fetch' = [fetch EXCEPT ![f] = "access"]
    /\ tmp' = ini \/ (May("wget") /\ tmp' = Empty)
    /\ UNCHANGED <<shown, net, got, pending, response, unsent, sending, camera>> /\ DeviceLeaves

\* another thread may have taken the file; without one the camera is not notified
PreviewAccess(f) ==
    /\ fetch[f] = "access"
    /\ fetch' = [fetch EXCEPT ![f] = IF tmp = 0 THEN "reset" ELSE "mv"]
    /\ UNCHANGED <<shown, net, tmp, got, pending, response, unsent, sending, camera>> /\ DeviceLeaves

\* mv, which may find no file now, and the flags of the notification
PreviewMv(f) ==
    /\ fetch[f] = "mv"
    /\ fetch' = [fetch EXCEPT ![f] = "notify"]
    /\ got' = IF tmp = 0 THEN got ELSE tmp
    /\ tmp' = 0 /\ pending' = TRUE /\ response' = Waiting
    /\ UNCHANGED <<shown, net, unsent, sending, camera>> /\ DeviceLeaves

\* ysf_notify_preview; when another notification was sent less than 10 seconds ago, or
\* the camera program has no socket, main sends this one later
PreviewNotify(f) ==
    /\ fetch[f] = "notify"
    /\ fetch' = [fetch EXCEPT ![f] = "reset"]
    /\ \/ pending /\ notes = 0 /\ notes' = 1
       \/ UNCHANGED notes
    /\ UNCHANGED <<shown, net, tmp, got, pending, response, unsent, sending, shoot, answers, jpeg>>
    /\ DeviceLeaves

\* the statement before the loop that waits
PreviewReset(f) ==
    /\ fetch[f] = "reset"
    /\ fetch' = [fetch EXCEPT ![f] = "wait"]
    /\ response' = Waiting
    /\ UNCHANGED <<shown, net, tmp, got, pending, unsent, sending, camera>> /\ DeviceLeaves

\* the loop ends: the picture is there, or 30 seconds have passed
PreviewWaited(f) ==
    /\ fetch[f] = "wait" /\ response # Waiting
    /\ fetch' = [fetch EXCEPT ![f] = IF response = Taken THEN "rsync" ELSE "finish"]
    /\ unsent' = (unsent \/ response # Taken)
    /\ UNCHANGED <<shown, net, tmp, got, pending, response, sending, camera>> /\ DeviceLeaves

\* (mutant) a failed rsync leaves the response as it is
PreviewUploadUnchecked(f) ==
    /\ fetch[f] = "rsync"
    /\ fetch' = [fetch EXCEPT ![f] = "finish"]
    /\ unsent' = TRUE
    /\ \/ jpeg # 0 /\ shown' = jpeg /\ jpeg' = 0
       \/ (jpeg = 0 \/ May("rsync")) /\ UNCHANGED <<shown, jpeg>>
    /\ UNCHANGED <<net, tmp, got, pending, response, sending, notes, shoot, answers>> /\ DeviceLeaves

\* rsync of the picture, and its result; without a picture rsync fails
PreviewUpload(f) ==
    /\ fetch[f] = "rsync"
    /\ fetch' = [fetch EXCEPT ![f] = "finish"]
    /\ unsent' = TRUE
    /\ \/ /\ jpeg # 0
          /\ shown' = jpeg /\ jpeg' = 0
          /\ UNCHANGED response
       \/ /\ jpeg = 0 \/ May("rsync")
          /\ response' = TimedOut
          /\ UNCHANGED <<shown, jpeg>>
    /\ UNCHANGED <<net, tmp, got, pending, sending, notes, shoot, answers>> /\ DeviceLeaves

\* the message is chosen by the value response has when it is sent
Result == IF response = Taken THEN "action" ELSE "fail"

\* bytes written to a connection the server has closed go nowhere
Write(m) ==
    /\ Len(up) < MaxQueue
    /\ up' = IF st = "none" THEN up ELSE Append(up, m)

\* (mutant) the flag is cleared before the link is looked at
PreviewFinishUnlinked(f) ==
    /\ fetch[f] = "finish"
    /\ IF unsent /\ link
       THEN Write(Result) /\ fetch' = [fetch EXCEPT ![f] = "sent"]
       ELSE UNCHANGED up /\ fetch' = [fetch EXCEPT ![f] = "idle"]
    /\ unsent' = FALSE
    /\ UNCHANGED <<shown, down, link, tmp, got, pending, response, sending, camera>> /\ DeviceLeaves

\* send_preview_finish_to_server, which the thread calls once and main every 10 seconds:
\* nothing to send, no link, or the message is sent and the flag is set after that
PreviewFinish(f) ==
    /\ fetch[f] = "finish"
    /\ IF unsent /\ link
       THEN Write(Result) /\ fetch' = [fetch EXCEPT ![f] = "sent"]
       ELSE UNCHANGED up /\ fetch' = [fetch EXCEPT ![f] = "idle"]
    /\ UNCHANGED <<shown, down, link, tmp, got, pending, response, unsent, sending, camera>>
    /\ DeviceLeaves

PreviewSent(f) ==
    /\ fetch[f] = "sent"
    /\ fetch' = [fetch EXCEPT ![f] = "idle"]
    /\ unsent' = FALSE
    /\ UNCHANGED <<shown, net, tmp, got, pending, response, sending, camera>> /\ DeviceLeaves

MainFinish ==
    /\ unsent /\ link /\ ~sending
    /\ Write(Result)
    /\ sending' = TRUE
    /\ UNCHANGED <<shown, down, link, fetch, tmp, got, pending, response, unsent, camera>> /\ DeviceLeaves

MainSent ==
    /\ sending
    /\ sending' = FALSE /\ unsent' = FALSE
    /\ UNCHANGED <<shown, net, fetch, tmp, got, pending, response, camera>> /\ DeviceLeaves

\* the notification is repeated every 10 seconds until it is answered (bound: when the
\* camera program has read the last one)
MainNotify ==
    /\ pending /\ notes = 0
    /\ May("late") \/ (answers = <<>> /\ \A f \in Fetch : fetch[f] # "notify")
    /\ notes' = notes + 1
    /\ UNCHANGED <<shown, net, device, shoot, answers, jpeg>> /\ DeviceLeaves

\* main counts to 3 in 30 seconds, whether a thread waits or not
MainCount ==
    /\ response = Waiting
    /\ May("late") \/ (~pending /\ notes = 0 /\ shoot = 0 /\ answers = <<>>) \/ May("camera")
    /\ response' = TimedOut
    /\ UNCHANGED <<shown, net, fetch, tmp, got, pending, unsent, sending, camera>> /\ DeviceLeaves

\* ysf_data_handle: the parameters are confirmed
RecvConfirmed ==
    /\ answers # <<>> /\ Head(answers) = "confirmed"
    /\ answers' = Tail(answers) /\ pending' = FALSE
    /\ IF link THEN Write("response") ELSE UNCHANGED up
    /\ UNCHANGED <<shown, down, link, fetch, tmp, got, response, unsent, sending, notes, shoot, jpeg>>
    /\ DeviceLeaves

\* ysf_data_handle: the picture is in /tmp
RecvTaken ==
    /\ answers # <<>> /\ Head(answers) = "taken"
    /\ answers' = Tail(answers) /\ response' = Taken
    /\ UNCHANGED <<shown, net, fetch, tmp, got, pending, unsent, sending, notes, shoot, jpeg>>
    /\ DeviceLeaves

-----------------------------------------------------------------------------
(* The camera program.                                                      *)

CameraLeaves == UNCHANGED <<row, shown, server, net, device>>

CameraConfirms ==
    /\ notes > 0 /\ shoot = 0 /\ Len(answers) < MaxQueue
    /\ notes' = notes - 1 /\ shoot' = got
    /\ answers' = Append(answers, "confirmed")
    /\ UNCHANGED jpeg /\ CameraLeaves

CameraTakes ==
    /\ shoot # 0 /\ Len(answers) < MaxQueue
    /\ May("early") \/ \A f \in Fetch : fetch[f] # "reset"
    /\ jpeg' = shoot /\ shoot' = 0
    /\ answers' = Append(answers, "taken")
    /\ UNCHANGED notes /\ CameraLeaves

CameraDown ==
    /\ May("camera")
    /\ notes' = 0 /\ answers' = <<>> /\ shoot' = 0
    /\ UNCHANGED jpeg /\ CameraLeaves

-----------------------------------------------------------------------------
Receive == RecvBeat \/ RecvResponse \/ RecvAction \/ RecvFail

Server == \/ UpdatePreview \/ cnm_client_update_preview_seq
          \/ send_preview_to_client \/ SyncTimeout \/ Receive
          \/ _cnm_client_del \/ ServerRestart

preview_tasks(f) == \/ PreviewRm(f) \/ PreviewWget(f) \/ PreviewAccess(f) \/ PreviewMv(f)
                    \/ PreviewNotify(f) \/ PreviewReset(f) \/ PreviewWaited(f) \/ PreviewUpload(f)
                    \/ PreviewFinish(f) \/ PreviewSent(f)

Main == MainFinish \/ MainSent \/ MainNotify \/ MainCount

Device == \/ Connect \/ LinkDown \/ ClientRestart \/ Main \/ RecvConfirmed \/ RecvTaken
          \/ \E f \in Fetch : RecvRequest(f) \/ preview_tasks(f)

Camera == CameraConfirms \/ CameraTakes \/ CameraDown

Next == RequestPreview \/ Server \/ Device \/ Camera

Spec == Init /\ [][Next /\ UNCHANGED setup]_<<vars, setup>>

(* Threads take their next step, the timer and the camera program do, and a  *)
(* message is read in the end; requests, links that are lost and restarts    *)
(* are not fair.                                                             *)
Fairness ==
    /\ WF_vars(UpdatePreview) /\ WF_vars(cnm_client_update_preview_seq)
    /\ WF_vars(send_preview_to_client) /\ WF_vars(SyncTimeout) /\ SF_vars(Receive)
    /\ WF_vars(~link /\ _cnm_client_del)
    /\ WF_vars(Connect) /\ WF_vars(st = "none" /\ LinkDown)
    /\ \A f \in Fetch : WF_vars(RecvRequest(f)) /\ WF_vars(preview_tasks(f))
    /\ WF_vars(Main) /\ WF_vars(RecvConfirmed) /\ WF_vars(RecvTaken)
    /\ WF_vars(CameraConfirms) /\ WF_vars(CameraTakes)

FairSpec == Spec /\ Fairness

-----------------------------------------------------------------------------
(* Properties                                                               *)

Answer == {"confirmed", "taken"}
UpMsg == {"response", "action", "fail"}

\* Every variable keeps its shape.
TypeOK ==
    /\ row \in [sync : Seqs, synced : Seqs, status : NoAction..Failed]
    /\ shown \in Files
    /\ upd \in Seqs /\ ini \in Seqs
    /\ st \in {"none", "anon", "keyed"}
    /\ node \in [sync : Seqs, synced : Seqs, timeout : {"zero", "wait", "over"}]
    /\ down \in Nat /\ up \in Seq(UpMsg) /\ link \in BOOLEAN
    /\ fetch \in [Fetch -> {"idle", "rm", "wget", "access", "mv", "notify", "reset", "wait", "rsync", "finish", "sent"}]
    /\ tmp \in Files /\ got \in Files /\ pending \in BOOLEAN /\ response \in {Waiting, TimedOut, Taken}
    /\ unsent \in BOOLEAN /\ sending \in BOOLEAN
    /\ notes \in Nat /\ shoot \in Files /\ answers \in Seq(Answer) /\ jpeg \in Files

Happens(what) == setup.may \subseteq what

\* the result of the preview is still to come: a thread works on it, or its message
\* is still to be sent or to be read
ResultComes ==
    \/ \E f \in Fetch : fetch[f] \notin {"idle", "sent"}
    \/ unsent
    \/ \E k \in 1..Len(up) : up[k] \in {"action", "fail"}

\* status_preview 1 means "being generated": as long as the page says so, somebody is
\* at work who will say otherwise, also when the link ends and a new connection with
\* a new node carries the result.  A request that is made twice of the device ("cut")
\* is left out: its second confirmation may come when both threads have ended.
GeneratingIsTrue ==
    Happens({"link", "early", "rsync"}) /\ row.status = Generating => ResultComes

\* status_preview 2 means "generated": the picture the page then shows is there, and
\* it is the one that was asked for last, also when requests and results are lost and the
\* server makes the request again.  Two threads at work on it ("cut") are left out: they
\* share the response, and one may report success before the other has uploaded.
GeneratedIsShown ==
    Happens({"link", "loss", "early", "rsync", "restart"}) /\ row.status = Generated => shown = row.sync

\* The numbers of the requests are synchronised as SettingPush says, in every behaviour.
Copies == {upd, node.sync, node.synced} \ {0}

Pushed == INSTANCE SettingPush WITH
    Reset <- FALSE, asked <- row.sync, recorded <- row.synced, carried <- Copies

ImplementsSettingPush == Pushed!Spec

\* how a request ends: with its picture when nothing goes wrong, with a result over links
\* that end, and with a result or the picture when a cut link has made the server repeat it
Ended ==
    \/ row.status = Generated /\ shown = row.sync
    \/ setup.may # {} /\ row.status \in {Generated, Failed}
    \/ May("cut") /\ shown = row.sync

\* Once a link lasts, every request is recorded: whatever of it was lost on the way to
\* the device, the server makes it again.  And it ends.
PreviewEnds ==
    <>[]link =>
        /\ Happens({"link", "loss", "early", "rsync", "wget", "restart"}) ~> row.synced = row.sync
        /\ (Happens({"link", "early", "rsync"}) \/ Happens({"cut"})) /\ row.sync # 0 ~> Ended

=============================================================================
