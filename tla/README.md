# Verification of the remote shooting system

The system runs cameras at remote sites.  An administrator edits settings,
shooting tasks and parameters on a web page; a server process brings them to
the devices over TCP and UDP; a program on each device hands them to the camera
program and uploads photos.  This directory holds TLA+ models of its protocols,
TLC configurations that check them on small instances, and TLAPS proofs.

## 1. Inventory

| part | where | state it keeps | operations | talks to |
|---|---|---|---|---|
| web page | `src/page/Application/Admin` (PHP) | none of its own: the MySQL tables | add/edit/delete a device, edit tasks, limits, base parameters, request a preview, upload device software | the tables; UDP to `cnm_server` (preview) |
| database | `dev_info`, tasks, limits, events | per device: for each setting `*_sync_seq` (asked for), `*_synced_seq` (acknowledged) and its value; `device_ip` (0 = offline), `status_preview`, `auto_upgrade`, `tasks_status`, `upload_status` | reads and updates, each one statement | page, server, `mail.php` |
| `cnm_server` | `src/sysapp/cnm_server` (C++) | a node per TCP connection in an fd hash and a key (serial) hash, each with its mutex; per node and setting: `sync_seq`, `synced_seq`, `sync_timeout`, value; the list of devices being upgraded; one database connection under a mutex | main loop (`CfgUpdateTimer`, upgrade timeouts), accepting thread, 8 `data_handle_thread`s, web (UDP) thread, photo conversion, disk check | tables; devices |
| `cnm_client` | `src/sysapp/cnm_client` (C) | `cent_sockfd`, `cnm_conf_init_success`, `bwlimit`, `upload_limit_day`, `upload_size`, files `sch_task`, `photo_limit`, `photo_param`, pending notifications to the camera program | receive thread, heartbeat thread, rsync thread, camera UDP thread, main loop | server (TCP), rsync/wget (HTTP), camera program (UDP) |
| camera program | `src/sysapp/demo` (stand-in) | - | answers the notifications of `cnm_client` | `cnm_client` |
| system monitor | `src/sysapp/systemmonitor` | process table | restarts what has died | processes |
| mail | `src/mail` | - | sends alarms | PHPMailer |

What is hard, part by part, and what makes each part correct:

- **Settings pushed by value** (`bwlimit`, `upload_limit_day`).  Six actors
  (page, timer, sending thread, network, device, acknowledging thread) and four
  copies of a version number; the acknowledgement has no number.  Correct if a row
  that says *synchronised* is true of the device, if every edit ends up in force,
  and if the row stops asking.
- **Settings pushed as files** (tasks, limits, base parameters).  As above, but the
  message only says "fetch"; the page writes the number and the rows separately, the
  device fetches later, and the camera program confirms later still, perhaps over
  another connection.
- **Device registry.**  Two hashes, eight threads, descriptors that are reused, a
  device that reconnects before its old connection is noticed.  Correct if a serial
  has one node, and if a device is not shown offline while a node of it lives.
- **Mutexes.**  The three mutexes are taken in different orders by different threads;
  correct if no set of threads waits for itself.
- **Preview.**  `status_preview` is written by the page, the server and (through the
  server) the camera; the timer makes a request again every 10 seconds until it is
  confirmed; correct if a request ends in success or failure, and if the picture the page
  shows is the one that was asked for.
- **Software upgrade.**  At most `upgrade_limit` devices at a time, inside a window of
  the day, each for at most 30 minutes.
- **Photo pipeline.**  A photo is sent, removed from the device, given an empty marker
  (`.ok`) that is sent after it, converted because of the marker, and the marker is
  removed: correct if a stop or a failure between any two steps loses nothing.
- **Daily quota, status sync, disk check.**  Uploads are stopped by the device when its
  quota of the day is used up and by the server when the disk is; correct if a stop has
  its reason, if it ends with the reason, and if the administrator is warned of it.
- **System monitor.**  A loop that starts what is missing; no state from turn to turn.

## 2. Plan

In this order; a module marked * exists.

| module | what | composed with | runs | proved (*) or worth proving |
|---|---|---|---|---|
| `ValueSync`* | one device, the settings sent by value | implements `SettingPush` | `values_*` | types*, version agreement*, order of recorded numbers*, refinement*, a claim is carried out while the link stays*, recorded means in force*; liveness |
| `FileSync`* | tasks and limits: page, rows, file, fetch, camera confirmation | implements `SettingPush` | `files_*` | types*, `FileCarriesEdits`*, refinement*, recorded means loaded*; liveness |
| `SoftUpgrade`* | table of upgrades, limit, 1800 s timeout, the device's update threads | - | `upgrade_*` | types*, `RequestsBounded`*, `EntryCoversDownload`*, `LoadBounded`*, `LockIsReleased`*; liveness |
| `SettingPush`* | abstract: a number asked for, a number recorded, which numbers may be recorded | implemented by `ValueSync`, `FileSync` and `Preview` | a PROPERTY of `values_safety`, `files_safety` and `preview` | only numbers that were asked for are recorded*; a number that was overtaken does not come back* |
| `ClientRegistry`* | fd and key hashes, descriptor reuse, `SetDeviceOffline`, the order of the key and database mutexes | implements `Presence`; `ValueSync` keeps its per-device view of it | `registry` | types*, the hashes*, no freed node*, online while connected*, refinement* |
| `Presence`* | abstract: which connection stands for a device, and what its row says | implemented by `ClientRegistry`, for each device | a PROPERTY of `registry` | offline only without a connection*, online only with one* |
| `Preview`* | `status_preview` 0/1/2/3, the camera's answers, retries | implements `SettingPush` | `preview` | types*, refinement*, the picture is the one asked for*, a result is to come* |
| `PhotoStore`* | upload, conversion; the quota of the day and its warning; upload status and disk check | implements `HandOver`, at three places | `photos` | types*, no photo lost* or left*, refinement*, stops have a reason*, the quota* |
| `HandOver`* | abstract: copy to the next place, then remove | implemented by `PhotoStore` | a PROPERTY of `photos` | nothing put into a place is lost* |
| base settings, `tasks_status`, upgrade hours | what goes the way of a setting that is modelled; the window of hours as a pure operator | - | - | - |

Constants are parameters with named assumptions, each operation is one action,
and none of the modules that are proved about uses a RECURSIVE operator.

## 3. What models what

A behaviour's *setup* (in `ValueSync`: `faults`) is a variable that is chosen
initially and never changes (`Spec == Init /\ [][Next /\ UNCHANGED setup]_...`).
It says which failures the behaviour has, so that one run covers several
configurations and a property can say "if nothing goes wrong".

### ValueSync - `bwlimit`, `upload_limit_day`

One device; its connections overlap when the server has not noticed the end of
the older one.

| variable | code |
|---|---|
| `row` | `*_sync_seq`, `*_synced_seq` and the value in `dev_info` |
| `adm` | what a `devEditHandle` in progress has read |
| `cfg` | the pass of `CfgUpdateTimer`, which holds the database mutex; between the two stores of a node update (`pc = "val"`) it holds the key mutex as well |
| `st`, `node` | the connection's `cnm_client_list` node: none, without serial, with serial; `sync_seq`, `synced_seq`, `sync_timeout`, value |
| `work` | a `data_handle_thread` between reading a message and the database call, or the send, that it leads to |
| `down`, `up`, `link` | socket contents, `cent_sockfd` |
| `dev`, `conf` | the globals of `cnm_client`, `cnm_conf_init_success` |

Actions: `EditRead`/`EditSave` (the page), `CfgUpdateTimer`, `CfgSelect`,
`cnm_client_update_seq`/`_val`, `CfgEnd` (main thread),
`send_value_to_client`, `SyncTimeout`, `Recv*`, `UpdateSyncedSeq`,
`send_conf_response`, `_cnm_client_del` (data threads), `Connect`, `Heartbeat`,
`RecvNotify`, `RecvConf`, ... (device), `LinkDown`, `ClientRestart`,
`ServerRestart`.  `sync_timeout` is "zero" (nothing is awaited), "wait" or
"over" (60 seconds have passed).

### FileSync - shooting plan and limits

`tasks` is what the page edits (rows of the task table, or the limits in the
device's row), `row` the two numbers, `file` the CSV file on the server with the
moments at which it is truncated (`CfgOpen`) and complete (`CfgClose`).  The
server's view of the device is one node.  On the device each request starts a
thread that runs `rm`, `wget`, `mv` and the notification (`fetch`), with the
temporary file `tmp` shared between the threads; `pending` is
`ysf_notify_plan_success = 0`, `recent` its 10 second pause, and `loaded` what
the camera program works by.

### SoftUpgrade

`slot`, `aged` and `held` are `cnm_update_status`: an entry for each device with
its status, whether `CNM_UPDATE_TIMEOUT` has passed since it changed, and the lock
that `cnm_set_update_soft_status` keeps when the table is full.  A
`data_handle_thread` reads a message (`Recv`: the comparison with the limit,
without the lock), takes the entry and sends the request (`TakeSlot`), and then
handles the message (`Handle`).  A device starts one thread per request
(`RecvRequest`), which removes the archive, answers, fetches, reports and
installs it.  Versions are "old" and "new"; whether upgrades are allowed now
(hours, switch in the page) is a free choice when the setup has "window".

### SettingPush - what the three protocols have in common

`asked` is `*_sync_seq`, `recorded` is `*_synced_seq`, `carried` the set of numbers of
which the server has a copy anywhere: the pass of `CfgUpdateTimer` or `UpdatePreview`,
nodes, threads that wait for the database.  `Ask` is an edit, `Carry` a pass, `Drop` a
copy that is overwritten or freed, `Record` an acknowledgement.  The constant `Reset`
says whether a node that has sent nothing may have its 0 recorded: true of files, where
any node of the device takes the confirmation; false of values, of which a node
acknowledges only what it has sent, and of previews, where 0 leaves the row alone.

### Preview - a picture on request

`row` is `preview_sync_seq`, `preview_synced_seq` and `status_preview`; `upd` the number
`UpdatePreview` carries with the database lock; `ini` `preview.ini`, which is named by the
number it was written for.  `CfgUpdateTimer` calls `UpdatePreview` at the end of each pass of
10 seconds (`cnm_db.cpp:489`), `cnm_web_socket` for each datagram of the page: the action may
happen whenever the database lock is free, and as long as the row is at 0 it writes the file
and stores the number again.  The datagram has no variable of its own, because all it does
is to bring a pass forward.  So a request that got lost, or whose connection ended, is made
again of the next connection, as often as it takes until the row is confirmed.

On the device `fetch` are the threads of `preview_tasks`, which share one temporary file
(`tmp`, `/tmp/.preview.ini`: `rm`, `wget`, `access` and `mv` are steps of their own), one
picture (`jpeg`) and the flags `pending`, `response` and `unsent`, through which they, the
main loop (`Main*`) and the camera's thread (`RecvConfirmed`, `RecvTaken`) work; `notes`,
`shoot`, `answers` and `jpeg` stand for the camera program.  A picture is the number of
the request it was taken for.

`Unconfirmed` says that the device has a request and the row does not know.  What goes
wrong then is a happening of its own, "cut": the request is made twice, and two threads
share what is meant for one.  The setups "link", "loss" and "restart" without "cut" have
links that end, requests that are lost on the way and made again, and restarts, at any other
moment.

### ClientRegistry - connections, nodes, threads and mutexes

`sock` is what the kernel knows of a descriptor ("gone": the end was seen, "lost": it was
not), `link` the device's end.  `node` are the `cnm_client_list` nodes in memory, which
have a descriptor (0 stands for -1), a thread, a serial and two flags; `hash` those that
are in the key hash.  A `data_handle_thread` has a `pc`: it handles `events`, has read a
first message ("register") or a heartbeat ("update"), is about to delete a node ("close"),
or waits for the database with the key mutex held ("offline").  `key` and `pushing` are
the key mutex, as long as it is held over several steps, and the database mutex.
`online` is `device_ip` # 0.

### Presence - what the registry is for

One device.  `holder` is the connection that stands for it, `busy` those with a message that
is read and not yet recorded, `closing` that the holder has ended and its thread waits to
put the device offline, `reported` that a message was recorded over the holder, `online` the
row.  In `ClientRegistry` the holder is the open node in the key hash with the device's
serial; a node there that is closed is `closing`.  `Claim` is a first message, `Record` is
`UpdateDevice`, `PutOffline` is `SetDeviceOffline`; closing and deleting a replaced node is a
stutter, recording a message read over it is not.  `may` carries over the two happenings
that matter ("slow", "db").

### PhotoStore - photos, quota, disk

`dir`, `ok`, `raw`, `marks` and `jpg` are the directories: photos and markers on the
device, both on the server, converted pictures.  `up` is the upload thread
(`ysf_rsync_photo`) with a step for each place where another thread, or a stop, can come
in between: look at the flags, send, add the size (`Count`), compare (`Check`), stop the
day (`Stop`), `Remove`, `Touch`, send the marker (`Mark`), `Unmark`.  `quota`, `saved`,
`overflow`, `notify` are the day's size with its file, the stop and the warning; `row`,
`beat`, `cmd` and `status` the upload status on its way from `DiskCheckTimer` through the
comparison with a heartbeat to the device.  `conv` is `ysf_convert_photo`.

### HandOver - copy first, remove later

The three places of `PhotoStore` that something waits in: `dir` hands photos to `raw`, `ok`
hands markers to `marks`, and `marks` hands work to the finished pictures (a marker that has
become a picture counts as handed over by `ok`).  The constant `Overwrites` says that a copy
made again is written over the first one: true of `dcraw ... > x.jpeg`, false of `rsync`.

## 4. Runs

| run | instance | distinct states | shows |
|---|---|---|---|
| `values_safety` | 1 setting, 2 values, 2 administrators, 2 connections, numbers to 2, 1 message per queue, outages and database failures | 1.00 M | `TypeOK`; `VersionsAgree`; `OpenLinkCarriesNewest`: claiming a number at the send is safe while the link lasts; `SyncedGoesBackOnlyLate` |
| `values_live` | 1 connection; nothing wrong, failing database calls, or outages and torn node updates | 101 k | `EventuallySynced`, `UndisturbedMeansInForce` |
| `values_stale_ack` | 2 messages per queue, outages | until found | finding 1 |
| `files_safety` | 2 administrators, 2 tasks, numbers to 2; deletions, torn and failed fetches, outages | 1.17 M | `TypeOK`; `FileCarriesEdits` |
| `files_live` | 1 task; two edits undisturbed, two whose requests overlap ("crowd"), one with outages, one with late answers and overlapping fetches | 144 k | `RecordedAfterLoaded`, `EventuallyRecorded` |
| `files_delete_order` | 2 tasks, deletions only | until found | finding 2 |
| `upgrade_safety` | 3 devices, 2 server threads, 2 update threads per device; six families of setups | 129 k | `TypeOK`; `RequestsBounded`; `EntryCoversDownload`; `LoadBounded`; `LockIsReleased` |
| `upgrade_live` | 2 devices, 2 threads | 17 k | `EntriesEnd`, `EventuallyUpgraded` |
| `upgrade_limit` | limit 1, 2 devices | until found | finding 3 |
| `preview` | 2 threads on the device; 2 requests in five setups, one in the three with "cut", "camera" and "late" | 295 k | `TypeOK`; `GeneratingIsTrue`, `GeneratedIsShown`; `ImplementsSettingPush`; `PreviewEnds` |
| `registry` | 2 devices, 3 descriptors, 2 threads; five setups | 56 k | `TypeOK`; `NothingDangles`, `HashesAgree`, `ConnectedIsOnline`; `ImplementsPresence`; `KeyIsReleased`, `PresenceSettles` |
| `photos` | 2 photos, 2 days, quota of one photo; seven setups | 104 k | `TypeOK`; `PhotosKept`, `NoneLeftBehind`; `ImplementsHandOver`; `StoppedForReason`, `QuotaKept`; `WarningComes`, `StatusSettles`, `PhotosConverted` |

`values_safety`, `files_safety` and `preview` also check that the protocol implements
`SettingPush`.

**Bounds.**  Two numbers (`MaxSeq = 2`) are one that is being pushed and one that
overtakes it.  Two connections are the one in use and the one the server has not
given up.  With a limit of 0 two
threads can let two devices through at once and a third is refused; three devices
also overfill a table that has room for one or two, and with room for three show that
nothing but the limit bounds the load (`LoadBounded`).  Queues of one
message suffice for the safety runs because what matters is which message is
last; `values_stale_ack` needs two to let an acknowledgement wait behind a
repeated one.  Periodic messages are written when the queue is empty
(`Quiet`; in `ClientRegistry` and `PhotoStore` when the last one has been read), a device connects again in `SoftUpgrade` when the server is done with
its last connection, and the number of threads on a device is bounded by `Fetch`
and `Job`: each of these is marked "bound" in its module.  Descriptors 1 and 3 of `registry` fall to
one thread and 2 to the other, so that a device's connections overlap within one thread
and across two, and each is reused; what fails is counted by the setup (two failures with
restarts, one otherwise).  In `photos` one photo exceeds the quota of a day or the quota is
twice its size, a second photo waits for the stop to end, and two days have one midnight,
which comes at every step.  Two previews are one and the one that overtakes it; the setups
with "cut", "camera" and "late" have one, because there the server makes one request several
times and two threads already work on it.  "cut" together with restarts is too large for a
run; the theorems about types and about the refinement cover it.

**Deadlock** is checked in every run but two, where the code can stop.  In
`upgrade_safety` a full table keeps the lock and every thread waits for it.  In `registry` a
thread that deletes a node holds the key mutex and waits for the database mutex, while
`CfgUpdateTimer` or `UpdatePreview` hold that and wait for the key mutex; `KeyIsReleased`
says that the key mutex is kept in no other way.

**Fairness.**  Loops of threads take their next step (weak fairness).  A step that
waits for a mutex held only for moments, for room in a buffer that is drained, or
for a message that comes again and again is strongly fair.  Edits, lost links,
expiries and restarts are not fair; where a property needs them to end it says
so (`StableLink`, `<>[][~Outage]_vars`).  Which device finds a free entry first is
not fair, so `EventuallyUpgraded` holds because devices that were upgraded stop
asking.  `EventuallyRecorded` has the premise `FetchesEnd`: see section 6.  In `PhotoStore` an
rsync, a message or a conversion that is tried again and again succeeds in the end (strong
fairness), and days pass; in `ClientRegistry` a device that is switched on connects again,
and `EPOLLHUP`, expiry and retries of threads are fair while failures are bounded by the
setup.  Liveness properties name what they need with `Happens`: the setups in which they
hold.

### Findings

1. `values_stale_ack`: an acknowledgement has no number.  A request that is sent
   again after 60 seconds is answered twice; the second answer is recorded for the
   edit sent in between, the link ends before that edit arrives, and the row says
   synchronised for good (`cnm_server.cpp:2225`).
2. `files_delete_order`: `taskDel` raises the number before it deletes the row; a
   pass of `CfgUpdateTimer` in between pushes the deleted task under the new number
   (`ShootingTaskController.class.php:332`).
3. `upgrade_limit`: one device more than the limit, and one for each further
   thread, is upgraded at a time (`cnm_server.cpp:1369`), where the page says
   "number of devices upgraded at the same time".

## 5. Proofs

All theorems hold for every value of the constants that satisfies the named
assumptions of the module.

| theorem | says | argument |
|---|---|---|
| `ValueSyncProofs!TypeCorrect` | types | inductive by itself |
| `ValueSyncProofs!VersionsAlwaysAgree`† | `[]VersionsAgree` | `VersionsAgree` with `TypeOK` is inductive |
| `ValueSyncProofs!SyncedGoesBackOnlyLateHolds`† | the action property | from `VersionsAgree` |
| `ValueSyncProofs!ImplementsSettingPushHolds`† | each setting implements `SettingPush` | from `VersionsAgree` |
| `ValueSyncProofs!OpenLinkCarriesNewestHolds`† | `[]OpenLinkCarriesNewest` | `ClaimsInv`, inductive with `VersionsAgree` |
| `ValueSyncProofs!UndisturbedMeansInForceHolds` | `[]UndisturbedMeansInForce`, with failing database calls | `UndisturbedInv`, inductive with both |
| `ValueSyncProofs!OvertakenEditsStayLost`† | each setting keeps the promises of `SettingPush` | from the refinement |
| `FileSyncProofs!TypeCorrect` | types | inductive by itself |
| `FileSyncProofs!EditsInvHolds`, `FileCarriesEditsHolds`† | `[]FileCarriesEdits` | from the inductive `EditsInv` |
| `FileSyncProofs!ImplementsSettingPushHolds`† | files implement `SettingPush` | from `EditsInv` |
| `FileSyncProofs!OvertakenPlansStayLost`† | so does the plan | from the refinement |
| `FileSyncProofs!RecordedAfterLoadedHolds` | `[]RecordedAfterLoaded` | `SmoothInv`, inductive with `EditsInv` |
| `SettingPushProofs!NumbersWereAskedHolds`, `OvertakenStaysLostHolds` | the promises of the abstract module | inductive; from each step |
| `SoftUpgradeProofs!TypeCorrect` | types | inductive by itself |
| `SoftUpgradeProofs!RequestsBoundedHolds` | `[]RequestsBounded` | inductive with `TypeOK` |
| `SoftUpgradeProofs!EntryCoversDownloadHolds` | `[]EntryCoversDownload` | `StageInv` is inductive |
| `SoftUpgradeProofs!LoadBoundedHolds` | `[]LoadBounded` | from `EntryCoversDownload` and `RoomInv` |
| `SoftUpgradeProofs!LockIsReleasedHolds` | `[]LockIsReleased` | `RoomInv`, with `StageInv` |
| `ClientRegistryProofs!TypeCorrect`, `NothingDanglesHolds`, `HashesAgreeHolds`, `ConnectedIsOnlineHolds` | the safety properties of the registry | all from one inductive invariant, `Inv` |
| `ClientRegistryProofs!ImplementsPresenceHolds` | each device's presence implements `Presence` | `Inv` with `ClosedIsHeld` and `ReplacedIsGone` |
| `PresenceProofs!RowAgreesHolds`, `OfflineWithoutHolderHolds` | the promises of `Presence` | `PresenceInv` is inductive |
| `ClientRegistryProofs!DeviceIsTended` | the registry keeps them for any device | from the refinement |
| `PreviewProofs!TypeCorrect` | types | inductive by itself |
| `PreviewProofs!ImplementsSettingPushHolds` | previews implement `SettingPush`, in every setup | numbers fall from row to node, again and again (`NumbersBounded`) |
| `PreviewProofs!OvertakenRequestsStayLost` | and keep its promises | from the refinement |
| `PreviewProofs!GeneratedIsShownHolds`, `GeneratingIsTrueHolds` | what `status_preview` says of the picture and of the result | from `PreviewInv`, for the setups of each property: a request that is cut and made twice is in neither |
| `PhotoStoreProofs!TypeCorrect` | types | inductive by itself |
| `PhotoStoreProofs!PhotosKeptHolds`, `NoneLeftBehindHolds` | no photo is lost or left | `Followable` is inductive |
| `PhotoStoreProofs!ImplementsHandOverHolds`, `NothingIsLost` | the three places implement `HandOver` and keep its promise | `HandedInv`, inductive with `Followable` |
| `PhotoStoreProofs!StoppedForReasonHolds`, `QuotaKeptHolds` | stops and the quota | `Reasonable` and, with it, `Bounded` are inductive |

† under the condition `EditsApart`: `Spec /\ EditsApart => ...`.  A setup without "crowd" is one in
which the requests of the page for one device do not overlap, from any number of
administrators; `EditsApart` says that the behaviour has such a setup.  The code does not
enforce it, and with "crowd" the properties are false: both requests write the number they
read plus one, and a slow one puts the number back.  `UndisturbedMeansInForce` and
`RecordedAfterLoaded` name the condition themselves and need no other.  In every theorem the
sets of administrators, settings, devices, connections, threads and photos are any a module
has as constants.

`VersionsAgree` is about the row, the pass of `CfgUpdateTimer`, the nodes, the threads
that wait for the database, and both queues, because a recorded number is only as
good as the place it was copied from: `CfgIsVersion` (the pass), `NodeIsVersion`
(nodes with a serial), `WorkIsOld` (waiting acknowledgements, also of connections
that were replaced) and `NothingBeforeSend` (a queue holds nothing about a setting
the node has not sent).

`ClaimsInv` is about the claim (`synced_seq := sync_seq`) that a send makes.  If the node
of the device's connection claims the newest number, the newest value is in force or the
last word about the setting on its way (`Ends`, with one lemma for a message that is
appended and one for a message that is read), and an answer to `CNM_CONF_REQUSET` that the
thread has read from the row and not yet sent carries it too.  The last part is needed
because such an answer overtakes nothing: the thread that has it sends no claim before.
With a send between the two stores of a node update ("torn") it is false, and the
property excludes that.  `UndisturbedInv` adds, where nothing goes wrong but calls to the database,
that there is one connection and nothing recorded that its node has not sent (`OneConnection`), and that
a setting that was never edited has one value everywhere (`FirstValue`), because nothing
is ever sent for the number 0.

`FileCarriesEdits` alone is not inductive: the node gets its number from a pass that
read the tasks earlier.  `EditsInv` adds that an editor holds the row's number,
that numbers fall from row to pass to node, that the pass writes what it has read
(`PassWrites`), and that once it has read the tasks under the newest number they
carry the edits (`PassCarries`).  It is decisive that `CfgUpdateTimer` selects the number
before the tasks and that the page saves the tasks before the number.

`SmoothInv` says, where nothing goes wrong, that the one request is at one of five places
(`OnePlace`: with the node, on its way down, being fetched, with the camera program, on its
way back), that the row, the node's claim and the node are in this order (`OneLink`), and
that what has been fetched for the newest number is the plan of the page at each of these
places (`Loads`).  `wget` is the step that needs `EditsInv`: the node claims the newest
number, so the file carries its edits.

`RequestsBounded` counts, besides the entries without an answer, the threads that
have compared and not yet taken.  `TradeKeepsBound` says that taking an entry exchanges one
for the other, `ComparisonBounds` that a successful comparison bounds the entries
by the limit, so that even all threads together add one each.

`StageInv` says of each device how far its upgrade is: nothing under way but perhaps an
entry, a request on its way, one thread at work whose messages come in order, or the end of
the download still to be read; and that all but the first is covered by an entry.  It needs
that a heartbeat is sent only when everything before it was read (a bound of the module),
that the 1800 seconds do not end before the download does ("slow") and that no message is
read between the end of the download and `update.sh` ("late"): `Calm` excludes the last two.
It follows that an answer finds its entry, so the only threads that add one are those that
have passed the comparison; `ListedBounded` counts them with the entries, and a table with
room for `limit` and for one device of each thread but one does
not fill up, which is what would leave the mutex locked.  `LoadBounded` is the two
together: a device that downloads has an entry, and the entries are bounded.  It would fail
if only requests without an answer were counted, which `RequestsBounded` would not notice.

The refinements use the same invariants: a number that is recorded is one that is
carried because threads that wait for the database hold copies of what their node held
(`WorkIsOld`, with numbers that are not 0), and a pass carries the newest number because
an editor holds the row's number.  `SettingPushProofs` proves the promises
of the abstract module once, and each protocol inherits them by an instance of that module
(`Promise`): nothing is ever recorded that was not asked for, and an edit which was
overtaken and of which no copy is left is not pushed or recorded again
(`OvertakenEditsStayLost`, `OvertakenPlansStayLost`, `OvertakenRequestsStayLost`).  A theorem
about every setting cannot cite an instance with a parameter, so the setting is a constant
there, `SomeItem`, of which nothing is assumed but that it is one.

`Inv` of `ClientRegistry` has five parts besides the types, because none of the properties
is inductive alone: an open descriptor belongs to its device (`SocksInv`); a node that is
not closed has the descriptor that falls to its thread, and each open descriptor has
exactly one node (`NodesInv`); the hash has one node for a serial, and every node that is
open or has still to put its device offline is in it (`HashInv`), which is why the late
deletion of a replaced node, marked `no_update_db`, cannot put a device offline that has
connected again; a thread works on a live node of its own, and whoever is about to put a
device offline holds the key mutex over a closed node that is still in the hash
(`WorkInv`).

That the registry implements `Presence` needs two more facts.  A closed node that is still
found by its serial is the one whose device is being put offline, by the thread that holds
the key mutex (`ClosedIsHeld`); registrations need that mutex, so no connection can claim
the device in between.  And a node that was replaced has left the hash (`ReplacedIsGone`), so
the heartbeat it may still record never counts as one of its successor.  The steps of a
device's threads are then divided by whether the node they work on is the holder (`Busy`,
`Elsewhere`).  `Presence` is small enough for its own invariant to be read at a glance
(`PresenceInv`), and `DeviceIsTended` carries what follows from it back to the registry:
nobody who is connected is shown offline, and where no thread is late and the database
answers, whoever is shown online has a connection or is about to be put offline.
That the row is right in the end is `PresenceSettles`, which TLC checks.

`PreviewInv` has two parts besides the types, each for the setups of one property.  Where
requests do not overlap, none is cut before it is recorded, and the camera program neither
fails nor is late, `Flow` says that the timer's repetitions do no harm (`OneRequest`: as
long as the row is at 0 the device either rests, and the number may be carried and sent
once more, or it has the request over a connection that stands and whose node has this
number already, so that storing it again changes nothing), that the file on its way to the
camera is the request's (`OneFile`), that one thread works on it (`OneThread`), and that the
camera program confirms once and then takes one picture (`OneNote`, the six shapes of its
dialogue).  `Named` follows a name from there through the camera's copy, the picture and
the upload to the page.  Where moreover nothing is lost, `Answering` says that whoever has sent a result has said the last
thing about the preview, and that somebody has it before: the order of the statements in
`send_preview_finish_to_server`, the message first and the flag after it, is what this
rests on.

In `PhotoStore`, `Followable` adds to the property where a photo is between two steps: the
file the device works on has arrived, the photo that is converted keeps its marker, and a
marker is removed only when its photo has been converted or marked (`KeptInv`, `LeftInv`).
`Reasonable` adds where the device's limit comes from (`LimitInv`) and that the quota
stays used up from the comparison to the stop (`StopInv`); `Bounded`, that whoever counts
beyond the limit is about to stop, and that no photo is sent after a look at the flags that
was left out (`QuotaInv`).  `HandedInv` adds to `Followable` what holds also when `cnm_client`
may stop: a marker that is to be removed has arrived, as a marker or as a picture, and one
that is being sent is there.  Each step then hands over nothing or one photo, at one of the
three places (`HandsOver`).

Model-checked only: the liveness properties, which need fairness.  Every invariant, action
property and refinement of a passing run is proved.

## 6. What is not modelled, and what is known to fail

Left out of the modules: adding and deleting a device while it is connected;
failures of the database and of `fopen` in `FileSync`; a `wget` that ends half way
through (it fails or reads the file as it is at one moment); the base parameters,
which go the way of the limits through functions of their own, and `tasks_status`, which
goes the way of the upload status; several releases, the hours of the upgrade window, and
a stop in the middle of `update.sh`; two administrators, replaced connections and failures of the database and
of `fopen` in `Preview`; the end of the server (`cnm_threads_fini`) and refused `accept`s in
`ClientRegistry`; photos of different sizes, a clock that is set back, a failing `touch`,
and duplicates of the answer with the configuration in `PhotoStore`, where the row is read
and updated in one step.  The components with the status `not_modelled` in `PROJECT.json`
are left out with the reason given there.  All JavaScript of the repository is vendored
(editors, charts, tables, file manager); the system's own code is PHP, C and C++.

Behaviours of the code that the models have, or that reading showed, and that no
property claims to exclude:

- two requests of the page that edit one device at the same time lose an edit ("crowd");
- the sending thread may read a node between the two stores of its update and send
  the old value under the new number ("torn");
- a fetch may read the truncated file, and a failed fetch leaves an empty file that is
  taken for a plan ("torn", "fail");
- the camera program's answer to an older notification confirms a newer file ("late");
- two fetches that keep overlapping remove each other's temporary file for ever, hence
  the premise `FetchesEnd`;
- the thread of a replaced connection may record an old number last
  (`SyncedGoesBackOnlyLate` says that nothing else does);
- a device whose `auto_upgrade` is 0 takes an entry for 1800 seconds each time, and is
  upgraded when the database cannot be reached;
- with a start hour above the end hour the upgrade test admits the hours between the
  end and the start, not the hours around midnight;
- a full table of upgrades keeps its lock;
- the key and the database mutex are taken in both orders, and two threads that meet stop
  the server for good;
- a heartbeat that is recorded after the device's next connection has its serial, and
  after that connection's end, leaves the row online with nobody connected ("slow" with
  "retire" in `ClientRegistry`);
- `cnm_threads_fini` takes a mutex it holds; SIGPIPE, which a send to a connection that was
  reset raises, is handled as a request to end the server; a descriptor is closed before
  its field is set to -1 while `accept` may give it out again, which in the models is
  one step;
- a preview stays at "being generated" when the link is lost with a result on it, when the
  camera program or `cnm_client` restarts or when an answer is later than the wait for it,
  and a request made before its predecessor has ended may be given the predecessor's
  result or picture, or never be made because the predecessor's confirmation sets its
  status ("loss", "camera", "restart", "late", "again" in `Preview`);
- a preview whose link ends, or whose server or client restarts, after the device has taken
  the request and before the row is confirmed is made again by the timer ("cut"): two
  threads then share the flags, `/tmp/.preview.ini` and `/tmp/preview.jpeg`.  One takes the
  other's file, or uploads and removes the other's picture, whose rsync then fails; a thread
  may report success by the other's flag before the picture is uploaded; the second
  confirmation may set "being generated" after both have ended, and the page then says so
  beside the finished picture; and the number may never be recorded, because the first
  confirmation is lost or finds a node without a number, and the status ends the repetition.
  `GeneratingIsTrue` and `GeneratedIsShown` leave this case out; that the request still
  comes to its picture or to a result is part of `PreviewEnds`;
- when midnight, or a new limit, falls between a read and a write of the upload thread, the
  new day starts with the old size or with a stop that has no reason ("race"); a warning
  answered after midnight suppresses the warning of the new day ("late"); a limit taken
  away before the answer with the configuration comes leaves the stop until midnight
  ("early" with "edit"); a restart forgets the stop until the next photo;
- a stop of `cnm_client` between the removal of a photo and its marker leaves the photo on
  the server unconverted; so does a name of three characters or less.
