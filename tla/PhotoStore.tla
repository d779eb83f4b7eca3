------------------------------ MODULE PhotoStore ------------------------------
(***************************************************************************)
(* The way of the photos from the device to the server, and what holds     *)
(* them back: the device's quota of the day, with its warning, and the     *)
(* server's check of the disk.                                             *)
(*                                                                         *)
(*   camera --> /home/ysf/photos --(rsync, then rsync of an empty .ok)-->  *)
(*   raw/ --(ysf_convert_photo)--> jpg/                                    *)
(*                                                                         *)
(* One device, whose photos have one size.                                 *)
(***************************************************************************)
EXTENDS Naturals, FiniteSets

CONSTANTS
    Photo,     \* photos the camera takes
    NoPhoto,   \* none of them
    Size,      \* bound: the size of a photo in MB
    MaxSize,   \* bound: what is counted on a day on which cnm_client starts again
    MaxDay,    \* bound: the last day
    Limits,    \* bound: values of upload_limit_day, 0 for none
    Setups     \* the behaviours that are considered, see below

\* A setup gives the photos, the limit and the size of the disk (0 for none), and says what may
\* happen:
\* "fail": rsync and the conversion fail
\* "loss": messages are lost with their connection
\* "edit": the administrator changes the limit
\* "disk": the administrator takes the size of the disk away
\* "restart": cnm_client and cnm_server stop and start again
\* "early": uploads are allowed by the answer to a heartbeat before the device has its
\* configuration
\* "race": the main thread changes what the upload thread has just read
\* "late": a warning is answered after the device has begun a new day
Happenings == {"fail", "loss", "edit", "disk", "restart", "early", "race", "late"}

ASSUME NoPhotoIsNone == NoPhoto \notin Photo
ASSUME SizeAssumption == Size \in Nat \ {0}
ASSUME BoundsAreNat == MaxDay \in Nat /\ MaxSize \in Nat /\ Limits \subseteq Nat
ASSUME SetupsAreKnown == Setups \subseteq [photos : SUBSET Photo, limit : Limits, disk : Nat, may : SUBSET Happenings]

VARIABLES
    setup,     \* the behaviour's setup; it never changes
    day,       \* today
    taken,     \* the photos that were taken
    dir, ok,   \* device: the photos and the markers (.ok) in its directory
    raw, marks, \* server: the same
    jpg,       \* server: per photo what is in its converted file
    conv,      \* server: the photo ysf_convert_photo works on, and its step
    row,       \* upload_status, upload_limit_day and disk_size
    alarms,    \* days on which event 9, quota used up, was added
    status,    \* device: ysf_upload_status, 1 for no uploads
    limit,     \* device: ysf_upload_limit_day
    conf,      \* device: cnm_conf_init_success
    quota,     \* device: ysf_upload_size, the day it is of and ysf_upload_warnning
    saved,     \* device: the file that keeps these three
    overflow,  \* device: ysf_upload_overflow
    notify,    \* device: cnm_notify_upload_limit_day_warnning
    up,        \* device: ysf_rsync_photo, its step and the file it works on
    beat, cmd, \* the status in a heartbeat, and in a command, under way; 2 for none
    warning    \* the warning under way, or its answer

photos == <<taken, dir, ok, raw, marks>>
server == <<jpg, conv, row, alarms>>
settings == <<status, limit, conf>>
day_vars == <<quota, saved, overflow, notify>>
net == <<beat, cmd, warning>>
vars == <<day, photos, server, settings, day_vars, up, net>>

-----------------------------------------------------------------------------
May(what) == what \in setup.may

Nothing == 2
Resting == [pc |-> "look", file |-> NoPhoto, marker |-> FALSE]
Idle == [pc |-> "idle", photo |-> NoPhoto]

Init ==
    /\ setup \in Setups
    /\ day = 0
    /\ taken = {} /\ dir = {} /\ ok = {} /\ raw = {} /\ marks = {}
    /\ jpg = [p \in Photo |-> "none"] /\ conv = Idle
    /\ row = [status |-> 0, limit |-> setup.limit, disk |-> setup.disk]
    /\ alarms = {}
    /\ status = 1 /\ limit = 0 /\ conf = FALSE
    /\ quota = [size |-> 0, day |-> 0, warned |-> FALSE] /\ saved = quota
    /\ overflow = FALSE /\ notify = FALSE
    /\ up = Resting
    /\ beat = Nothing /\ cmd = Nothing /\ warning = "none"

-----------------------------------------------------------------------------
(* The upload thread of the device: ysf_rsync_photo.                        *)

UploadLeaves == UNCHANGED <<day, server, settings, saved, net>>

\* (mutant) the flags are looked at by the outer loop only
UploadUnbroken(p, marker) ==
    /\ up.pc = "next" \/ (up.pc = "look" /\ status = 0)
    /\ May("early") \/ conf
    /\ IF marker THEN p \in ok /\ marks' = marks \union {p} /\ UNCHANGED raw
                 ELSE p \in dir /\ raw' = raw \union {p} /\ UNCHANGED marks
    /\ up' = [pc |-> "count", file |-> p, marker |-> marker]
    /\ UNCHANGED <<taken, dir, ok, quota, overflow, notify>> /\ UploadLeaves

\* The next file of the directory is sent, a photo or a marker left from before.  The
\* flags are looked at before every file but the one that follows a marker, which
\* leaves the turn of the loop by continue.  A rsync that fails changes nothing.
Upload(p, marker) ==
    /\ up.pc = "next" \/ (up.pc = "look" /\ status = 0 /\ ~overflow)
    /\ May("early") \/ conf
    /\ IF marker THEN p \in ok /\ marks' = marks \union {p} /\ UNCHANGED raw
                 ELSE p \in dir /\ raw' = raw \union {p} /\ UNCHANGED marks
    /\ up' = [pc |-> "count", file |-> p, marker |-> marker]
    /\ UNCHANGED <<taken, dir, ok, quota, overflow, notify>> /\ UploadLeaves

Exceeded == limit > 0 /\ quota.size > limit

Count ==
    /\ up.pc = "count"
    /\ quota' = [quota EXCEPT !.size = @ + IF up.marker THEN 0 ELSE Size]
    /\ up' = [up EXCEPT !.pc = "check"]
    /\ UNCHANGED <<photos, overflow, notify>> /\ UploadLeaves

Check ==
    /\ up.pc = "check"
    /\ up' = [up EXCEPT !.pc = IF Exceeded THEN "stop" ELSE "remove"]
    /\ UNCHANGED <<photos, quota, overflow, notify>> /\ UploadLeaves

Stop ==
    /\ up.pc = "stop"
    /\ overflow' = TRUE /\ notify' = (notify \/ ~quota.warned)
    /\ up' = [up EXCEPT !.pc = "remove"]
    /\ UNCHANGED <<photos, quota>> /\ UploadLeaves

Remove ==
    /\ up.pc = "remove"
    /\ IF up.marker
       THEN ok' = ok \ {up.file} /\ UNCHANGED dir /\ up' = [Resting EXCEPT !.pc = "next"]
       ELSE dir' = dir \ {up.file} /\ UNCHANGED ok /\ up' = [up EXCEPT !.pc = "touch"]
    /\ UNCHANGED <<taken, raw, marks, quota, overflow, notify>> /\ UploadLeaves

Touch ==
    /\ up.pc = "touch"
    /\ ok' = ok \union {up.file}
    /\ up' = [up EXCEPT !.pc = "mark"]
    /\ UNCHANGED <<taken, dir, raw, marks, quota, overflow, notify>> /\ UploadLeaves

\* (mutant) the marker is removed whether rsync has sent it or not
MarkUnchecked ==
    /\ up.pc = "mark"
    /\ \/ marks' = marks \union {up.file} /\ up' = [up EXCEPT !.pc = "unmark"]
       \/ May("fail") /\ up' = [up EXCEPT !.pc = "unmark"] /\ UNCHANGED marks
    /\ UNCHANGED <<taken, dir, ok, raw, quota, overflow, notify>> /\ UploadLeaves

\* a marker that could not be sent stays, and is sent like a photo later
Mark ==
    /\ up.pc = "mark"
    /\ \/ marks' = marks \union {up.file} /\ up' = [up EXCEPT !.pc = "unmark"]
       \/ May("fail") /\ up' = Resting /\ UNCHANGED marks
    /\ UNCHANGED <<taken, dir, ok, raw, quota, overflow, notify>> /\ UploadLeaves

Unmark ==
    /\ up.pc = "unmark"
    /\ ok' = ok \ {up.file} /\ up' = Resting
    /\ UNCHANGED <<taken, dir, raw, marks, quota, overflow, notify>> /\ UploadLeaves

\* the directory had no file after the marker
CloseDir ==
    /\ up.pc = "next" /\ up' = Resting
    /\ UNCHANGED <<photos, quota, overflow, notify>> /\ UploadLeaves

ysf_rsync_photo ==
    \/ \E p \in Photo, marker \in BOOLEAN : Upload(p, marker)
    \/ CloseDir \/ Count \/ Check \/ Stop \/ Remove \/ Touch \/ Mark \/ Unmark

-----------------------------------------------------------------------------
(* The other threads of the device.                                         *)

DeviceLeaves == UNCHANGED <<day, photos, jpg, conv, row>>

\* what the upload thread has read is still true when it acts on it
Undisturbed == up.pc \notin {"count", "check", "stop"}

\* (mutant) the new day does not ask for its own warning
NewDayWarned == [size |-> 0, day |-> day, warned |-> quota.warned]

NewDay == [size |-> 0, day |-> day, warned |-> FALSE]

\* (mutant) the new day leaves the stop of the old one
upload_size_update_stopped ==
    /\ IF day # quota.day
       THEN /\ May("late") \/ warning = "none"
            /\ May("race") \/ Undisturbed
            /\ quota' = NewDay /\ notify' = FALSE /\ UNCHANGED overflow
       ELSE saved # quota /\ UNCHANGED <<quota, overflow, notify>>
    /\ saved' = quota'
    /\ UNCHANGED <<alarms, settings, up, net>> /\ DeviceLeaves

\* every 10 seconds: a new day begins, or what has changed is saved.  The addition of
\* the upload thread may write yesterday's size over the reset.
upload_size_update ==
    /\ IF day # quota.day
       THEN /\ May("late") \/ warning = "none"
            /\ May("race") \/ Undisturbed
            /\ \/ quota' = NewDay
               \/ May("race") /\ up.pc = "count" /\ quota' = [NewDay EXCEPT !.size = quota.size]
            /\ overflow' = FALSE /\ notify' = FALSE
       ELSE saved # quota /\ UNCHANGED <<quota, overflow, notify>>
    /\ saved' = quota'
    /\ UNCHANGED <<alarms, settings, up, net>> /\ DeviceLeaves

\* repeated every 10 seconds until it is answered
send_upload_warnning_to_server ==
    /\ notify /\ warning = "none"
    /\ warning' = "up"
    /\ UNCHANGED <<alarms, settings, day_vars, up, beat, cmd>> /\ DeviceLeaves

\* CNM_UPLOAD_LIMIT_DAY_WARNNING_RESPONSE
RecvWarningResponse ==
    /\ warning = "down" /\ warning' = "none"
    /\ notify' = FALSE /\ quota' = [quota EXCEPT !.warned = TRUE] /\ saved' = quota'
    /\ UNCHANGED <<alarms, settings, overflow, up, beat, cmd>> /\ DeviceLeaves

\* CNM_UPLOAD_LIMIT_DAY_SYNC_NOTIFY, which ValueSync brings when the row has changed
RecvLimit ==
    /\ limit # row.limit
    /\ May("race") \/ Undisturbed
    /\ limit' = row.limit
    /\ IF row.limit = 0 \/ quota.size < row.limit
       THEN overflow' = FALSE /\ notify' = FALSE
       ELSE UNCHANGED <<overflow, notify>>
    /\ UNCHANGED <<alarms, status, conf, quota, saved, up, net>> /\ DeviceLeaves

\* CNM_CONF_REQUSET and its response, after the device has started
RecvConf ==
    /\ ~conf
    /\ conf' = TRUE /\ status' = row.status /\ limit' = row.limit
    /\ UNCHANGED <<alarms, day_vars, up, net>> /\ DeviceLeaves

\* (bound: when the answer to the last one has been read)
Heartbeat ==
    /\ beat = Nothing /\ cmd = Nothing
    /\ beat' = status
    /\ UNCHANGED <<alarms, settings, day_vars, up, cmd, warning>> /\ DeviceLeaves

\* CNM_UPLOAD_STATUS_ACTION
RecvStatus ==
    /\ cmd # Nothing /\ cmd' = Nothing
    /\ status' = cmd
    /\ UNCHANGED <<alarms, limit, conf, day_vars, up, beat, warning>> /\ DeviceLeaves

\* cnm_client starts again with what it has saved
ClientRestart ==
    /\ May("restart") /\ quota.size < MaxSize
    /\ quota' = saved /\ overflow' = FALSE /\ notify' = FALSE
    /\ status' = 1 /\ limit' = 0 /\ conf' = FALSE
    /\ up' = Resting
    /\ beat' = Nothing /\ cmd' = Nothing /\ warning' = "none"
    /\ UNCHANGED <<alarms, saved>> /\ DeviceLeaves

-----------------------------------------------------------------------------
(* The server.                                                              *)

ServerLeaves == UNCHANGED <<day, taken, dir, ok, settings, day_vars, up>>

\* (mutant) only a stop is sent
RecvBeatStops ==
    /\ beat # Nothing /\ beat' = Nothing
    /\ IF row.status = 1 /\ beat = 0 THEN cmd' = row.status ELSE UNCHANGED cmd
    /\ UNCHANGED <<raw, marks, server, warning>> /\ ServerLeaves

\* parse_heardbeat_body compares the device's status with the row's, and sends the
\* row's if they differ
RecvBeat ==
    /\ beat # Nothing /\ beat' = Nothing
    /\ IF beat # row.status THEN cmd' = row.status ELSE UNCHANGED cmd
    /\ UNCHANGED <<raw, marks, server, warning>> /\ ServerLeaves

RecvWarning ==
    /\ warning = "up" /\ warning' = "down"
    /\ alarms' = alarms \union {day}
    /\ UNCHANGED <<raw, marks, jpg, conv, row, beat, cmd>> /\ ServerLeaves

\* (mutant) the size is written for the status
DiskStatusSize == Size * Cardinality(raw)

\* the last 50 MB count as used up
DiskStatus == IF row.disk # 0 /\ Size * Cardinality(raw) >= row.disk THEN 1 ELSE 0

DiskCheckTimer ==
    /\ row.status # DiskStatus
    /\ row' = [row EXCEPT !.status = DiskStatus]
    /\ UNCHANGED <<raw, marks, jpg, conv, alarms, net>> /\ ServerLeaves

\* (mutant) a photo whose jpg exists is taken for converted
ConvertStartOnce(p) ==
    /\ conv = Idle /\ p \in marks /\ jpg[p] = "none"
    /\ conv' = [pc |-> "convert", photo |-> p]
    /\ jpg' = [jpg EXCEPT ![p] = "torn"]
    /\ UNCHANGED <<raw, marks, row, alarms, net>> /\ ServerLeaves

\* the jpg is written as it is made, over one that was left half made
ConvertStart(p) ==
    /\ conv = Idle /\ p \in marks
    /\ conv' = [pc |-> "convert", photo |-> p]
    /\ jpg' = [jpg EXCEPT ![p] = "torn"]
    /\ UNCHANGED <<raw, marks, row, alarms, net>> /\ ServerLeaves

\* (mutant) the marker is removed after a conversion that failed, too
ConvertEndAlways ==
    /\ conv.pc = "convert" /\ conv' = [conv EXCEPT !.pc = "remove"]
    /\ \/ jpg' = [jpg EXCEPT ![conv.photo] = "done"]
       \/ May("fail") /\ UNCHANGED jpg
    /\ UNCHANGED <<raw, marks, row, alarms, net>> /\ ServerLeaves

ConvertEnd ==
    /\ conv.pc = "convert"
    /\ \/ conv' = [conv EXCEPT !.pc = "remove"] /\ jpg' = [jpg EXCEPT ![conv.photo] = "done"]
       \/ May("fail") /\ conv' = Idle /\ UNCHANGED jpg
    /\ UNCHANGED <<raw, marks, row, alarms, net>> /\ ServerLeaves

ConvertRemove ==
    /\ conv.pc = "remove"
    /\ marks' = marks \ {conv.photo} /\ conv' = Idle
    /\ UNCHANGED <<raw, jpg, row, alarms, net>> /\ ServerLeaves

ServerRestart ==
    /\ May("restart")
    /\ conv' = Idle /\ beat' = Nothing /\ cmd' = Nothing /\ warning' = "none"
    /\ UNCHANGED <<raw, marks, jpg, row, alarms>> /\ ServerLeaves

-----------------------------------------------------------------------------
(* The rest of the world.                                                   *)

WorldLeaves == UNCHANGED <<ok, raw, marks, jpg, conv, alarms, settings, day_vars, up>>

TakePhoto(p) ==
    /\ p \in setup.photos \ taken
    /\ taken' = taken \union {p} /\ dir' = dir \union {p}
    /\ UNCHANGED <<day, row, net>> /\ WorldLeaves

Midnight ==
    /\ day < MaxDay
    /\ day' = day + 1
    /\ UNCHANGED <<taken, dir, row, net>> /\ WorldLeaves

LimitEdit(v) ==
    /\ May("edit") /\ row.limit # v
    /\ row' = [row EXCEPT !.limit = v]
    /\ UNCHANGED <<day, taken, dir, net>> /\ WorldLeaves

DiskEdit ==
    /\ May("disk") /\ row.disk # 0
    /\ row' = [row EXCEPT !.disk = 0]
    /\ UNCHANGED <<day, taken, dir, net>> /\ WorldLeaves

Loss ==
    /\ May("loss")
    /\ beat' = Nothing /\ cmd' = Nothing /\ warning' = "none"
    /\ UNCHANGED <<day, taken, dir, row>> /\ WorldLeaves

-----------------------------------------------------------------------------
Device == upload_size_update \/ send_upload_warnning_to_server \/ RecvWarningResponse
          \/ RecvLimit \/ RecvConf \/ Heartbeat \/ RecvStatus \/ ClientRestart

Convert == ConvertEnd \/ ConvertRemove \/ \E p \in Photo : ConvertStart(p)

Server == RecvBeat \/ RecvWarning \/ DiskCheckTimer \/ Convert \/ ServerRestart

World == Midnight \/ DiskEdit \/ Loss
         \/ (\E p \in Photo : TakePhoto(p)) \/ (\E v \in Limits : LimitEdit(v))

Next == ysf_rsync_photo \/ Device \/ Server \/ World

Spec == Init /\ [][Next /\ UNCHANGED setup]_<<vars, setup>>

(* Threads take their next step, days pass, and a message, an rsync or a    *)
(* conversion that is tried again and again succeeds.                       *)
Fairness ==
    /\ WF_vars(ysf_rsync_photo)
    /\ WF_vars(Midnight) /\ WF_vars(upload_size_update)
    /\ SF_vars(send_upload_warnning_to_server) /\ SF_vars(RecvWarning) /\ SF_vars(RecvWarningResponse)
    /\ WF_vars(RecvLimit) /\ WF_vars(RecvConf)
    /\ WF_vars(Heartbeat) /\ SF_vars(RecvBeat) /\ SF_vars(RecvStatus) /\ WF_vars(DiskCheckTimer)
    /\ WF_vars(Convert) /\ SF_vars(ConvertEnd /\ conv'.pc = "remove")

FairSpec == Spec /\ Fairness

-----------------------------------------------------------------------------
(* Properties                                                               *)

Quota == [size : Nat, day : 0..MaxDay, warned : BOOLEAN]

Step == [pc : {"look", "next", "count", "check", "stop", "remove", "touch", "mark", "unmark"},
         file : Photo \union {NoPhoto}, marker : BOOLEAN]

\* Every variable keeps its shape.
TypeOK ==
    /\ day \in 0..MaxDay /\ alarms \subseteq 0..MaxDay
    /\ taken \subseteq Photo /\ dir \subseteq Photo /\ ok \subseteq Photo
    /\ raw \subseteq Photo /\ marks \subseteq Photo
    /\ jpg \in [Photo -> {"none", "torn", "done"}]
    /\ conv \in [pc : {"idle", "convert", "remove"}, photo : Photo \union {NoPhoto}]
    /\ row \in [status : {0, 1}, limit : Limits, disk : Nat]
    /\ status \in {0, 1} /\ limit \in Limits \union {0} /\ conf \in BOOLEAN
    /\ quota \in Quota /\ saved \in Quota /\ overflow \in BOOLEAN /\ notify \in BOOLEAN
    /\ up \in Step
    /\ beat \in {0, 1, Nothing} /\ cmd \in {0, 1, Nothing}
    /\ warning \in {"none", "up", "down"}

Happens(what) == setup.may \subseteq what

\* Whatever fails or stops between two steps, a photo that was taken is on the device
\* or on the server, a marker has its photo, and a half converted picture is converted
\* again because its marker is still there.
PhotosKept ==
    /\ taken \subseteq dir \union raw
    /\ marks \union ok \subseteq raw
    /\ \A p \in Photo : jpg[p] = "torn" => p \in marks

\* the photos with a complete picture
Converted == {p \in Photo : jpg[p] = "done"}

Sent == INSTANCE HandOver WITH
    Item <- Photo, Overwrites <- FALSE, source <- dir, target <- raw
Marked == INSTANCE HandOver WITH
    Item <- Photo, Overwrites <- FALSE, source <- ok, target <- marks \union Converted
Pictured == INSTANCE HandOver WITH
    Item <- Photo, Overwrites <- TRUE, source <- marks, target <- Converted

\* The photo, its marker and the work the marker stands for are handed over as HandOver
\* says: each is removed from its place only when the next one has it, although rsync and
\* the conversion fail, both programs restart, and markers are sent again.
ImplementsHandOver == Sent!Spec /\ Marked!Spec /\ Pictured!Spec

\* A photo that has left the device has a marker that leads to its conversion, or the
\* upload thread is about to make one: only a stop of cnm_client between the two
\* leaves a photo behind.
NoneLeftBehind ==
    "restart" \notin setup.may =>
        \A p \in raw \ dir : jpg[p] = "done" \/ p \in marks \union ok \/ (up.pc = "touch" /\ up.file = p)

\* Uploads are stopped for the day only when its quota is used up, also when the limit
\* was changed and when a day has passed.  A limit that is taken away before the answer
\* with the configuration comes is the exception: the answer starts nothing again.
StoppedForReason ==
    "race" \notin setup.may /\ ~({"early", "edit"} \subseteq setup.may) =>
        (overflow => limit > 0 /\ quota.size >= limit)

\* The quota is exceeded by the one photo that is found to exceed it.
QuotaKept ==
    Happens({"fail", "loss", "disk", "late"}) /\ limit > 0 => quota.size <= limit + Size

\* When the quota of a day is used up, the administrator hears of it on that day,
\* unless uploads go on first.
WarningComes ==
    Happens({"fail", "loss", "edit", "disk", "early"}) =>
        (overflow ~> (quota.day \in alarms \/ ~overflow))

\* In the end the device follows the status that the check of the disk gives its row,
\* whatever the order in which heartbeats and commands were read.
StatusSettles == "restart" \notin setup.may => <>[](status = row.status)

RoomLeft ==
    /\ taken = setup.photos /\ row.disk = 0
    /\ setup.limit = 0 \/ (day < MaxDay /\ Size * Cardinality(dir) <= setup.limit)

\* Every photo is converted in the end, over failures, full quotas and a disk that was
\* full, once the quota of the next day has room for the photos that wait.  A marker that
\* could not be sent waits for a day that is not used up, too.
PhotosConverted ==
    Happens({"fail", "loss", "disk", "early", "late"}) =>
        (RoomLeft ~> \A p \in setup.photos : jpg[p] = "done")

=============================================================================
