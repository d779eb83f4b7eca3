---------------------------- MODULE PreviewProofs ----------------------------
(* Proofs about Preview, for any number of requests, threads and setups.     *)
EXTENDS Preview, SequenceTheorems, TLAPS

-----------------------------------------------------------------------------
(* The invariant about one request at a time.                                *)

\* the setups of GeneratedIsShown and of GeneratingIsTrue
Calm == setup.may \subseteq {"link", "loss", "early", "rsync", "restart"}
Safe == setup.may \subseteq {"link", "early", "rsync"}

CameraRests == notes = 0 /\ shoot = 0 /\ answers = <<>> /\ ~pending

Fetching == {"rm", "wget", "access", "mv"}
Asking == {"notify", "reset", "wait"}
Ending == {"rsync", "finish", "sent"}
Working == Fetching \union Asking \union {"rsync"}

\* The device does nothing, and has no result to send.
Rests == (\A f \in Fetch : fetch[f] = "idle") /\ ~unsent /\ ~sending /\ CameraRests

\* The number is carried to the node, and carried again, until the row says that the
\* device has confirmed it.  As long as the node has sent it of this connection the
\* store changes nothing, and where the device has it the connection stands.
OneRequest ==
    /\ upd # 0 \/ node.sync # node.synced \/ down # 0 => row.status = NoAction
    /\ upd # 0 => upd = row.sync
    /\ node.sync # node.synced => node.sync = row.sync /\ down = 0 /\ ~Unconfirmed
    /\ down # 0 => down = 1 /\ ~Unconfirmed
    /\ down # 0 \/ Unconfirmed => link /\ st = "keyed" /\ node.sync = row.sync /\ node.synced = row.sync
    /\ row.status = NoAction => Rests \/ up # <<>> \/ pending \/ \E f \in Fetch : fetch[f] \in Fetching
    /\ row.sync = 0 => row.status = NoAction /\ ~Unconfirmed /\ node.sync = node.synced /\ down = 0
    /\ st = "none" => node = FreshNode
    /\ node.timeout = "over" => ~link

\* The file is that of the request on its way from the server to the camera.
OneFile ==
    /\ upd # 0 \/ node.sync # node.synced \/ down # 0 => ini = row.sync
    /\ \A f \in Fetch :
          /\ fetch[f] \in {"rm", "wget"} => ini = row.sync
          /\ fetch[f] \in {"access", "mv"} => tmp = row.sync

\* One thread works, and has no result before it has waited; who has a result has an
\* answered camera.
OneThread ==
    /\ \A f, g \in Fetch : fetch[f] # "idle" /\ fetch[g] # "idle" => f = g
    /\ \A f \in Fetch :
          /\ fetch[f] \in Working => ~unsent /\ ~sending
          /\ fetch[f] \in Ending \union Fetching => CameraRests
          /\ fetch[f] = "notify" => notes = 0 /\ shoot = 0 /\ answers = <<>> /\ pending
          /\ fetch[f] = "wait" /\ response # Waiting => CameraRests
    /\ unsent \/ sending => CameraRests

\* The camera confirms one notification and then takes one picture.
OneNote ==
    /\ pending => \E f \in Fetch : fetch[f] \in Asking
    /\ \/ notes = 0 /\ shoot = 0 /\ answers = <<>>
       \/ notes = 1 /\ shoot = 0 /\ answers = <<>> /\ pending
       \/ notes = 0 /\ answers = <<"confirmed">> /\ pending
       \/ notes = 0 /\ answers = <<>> /\ ~pending
       \/ notes = 0 /\ shoot = 0 /\ answers = <<"confirmed", "taken">> /\ pending
       \/ notes = 0 /\ shoot = 0 /\ answers = <<"taken">> /\ ~pending

Flow == OneRequest /\ OneFile /\ OneThread /\ OneNote

\* The parameters in the device and the pictures of a request are called by its number.
Named ==
    /\ \A f \in Fetch :
          /\ fetch[f] \in Asking => got = row.sync /\ shoot \in {0, row.sync}
          /\ fetch[f] \in Asking /\ (\E k \in DOMAIN answers : answers[k] = "taken") => jpeg = row.sync
          /\ fetch[f] = "wait" /\ response = Taken => jpeg = row.sync
          /\ fetch[f] = "rsync" => jpeg = row.sync
    /\ unsent /\ response = Taken => shown = row.sync
    /\ \A k \in DOMAIN up : up[k] = "action" => shown = row.sync
    /\ row.status = Generated => shown = row.sync

\* the last that was said of the preview is not that it is being generated
Answered == IF up = <<>> THEN row.status # Generating ELSE up[Len(up)] # "response"

\* a thread or main has sent a result, and is about to say so
Said == sending \/ \E f \in Fetch : fetch[f] = "sent" \/ (fetch[f] = "finish" /\ ~unsent)

\* a thread works on a result, or it waits to be sent
Works == unsent \/ \E f \in Fetch : fetch[f] \notin {"idle", "sent"}

\* Who has sent the result has said it last, and before that somebody has it.
Answering ==
    /\ link => st # "none"
    /\ Said => Answered
    /\ ~Answered => Works

\* All of it; the first part is inductive in the setups of GeneratedIsShown, the second in
\* those of GeneratingIsTrue.
PreviewInv == TypeOK /\ (Calm => Flow /\ Named) /\ (Safe => Answering)

-----------------------------------------------------------------------------
(* Types.                                                                    *)

\* the type invariant in parts
PageTypes ==
    /\ row \in [sync : Seqs, synced : Seqs, status : NoAction..Failed]
    /\ shown \in Files

ServerTypes ==
    /\ upd \in Seqs /\ ini \in Seqs
    /\ st \in {"none", "anon", "keyed"}
    /\ node \in [sync : Seqs, synced : Seqs, timeout : {"zero", "wait", "over"}]

NetTypes == down \in Nat /\ up \in Seq(UpMsg) /\ link \in BOOLEAN

\* the states of a thread that runs preview_tasks
States == {"idle", "rm", "wget", "access", "mv", "notify", "reset", "wait", "rsync", "finish", "sent"}

DeviceTypes ==
    /\ fetch \in [Fetch -> States]
    /\ tmp \in Files /\ got \in Files /\ pending \in BOOLEAN /\ response \in {Waiting, TimedOut, Taken}
    /\ unsent \in BOOLEAN /\ sending \in BOOLEAN

CameraTypes == notes \in Nat /\ shoot \in Files /\ answers \in Seq(Answer) /\ jpeg \in Files

Types == PageTypes /\ ServerTypes /\ NetTypes /\ DeviceTypes /\ CameraTypes

\* The parts make up the type invariant.
LEMMA TypeParts == TypeOK <=> Types
BY DEF TypeOK, Types, PageTypes, ServerTypes, NetTypes, DeviceTypes, CameraTypes, States

\* The same of the next state.
LEMMA TypePartsNext == TypeOK' <=> Types'
BY DEF TypeOK, Types, PageTypes, ServerTypes, NetTypes, DeviceTypes, CameraTypes, States

\* Numbers that are in range.
LEMMA Numbers ==
    /\ Seqs \subseteq Nat /\ 0 \in Seqs /\ Seqs \subseteq Files /\ Empty \in Files
    /\ NoAction \in NoAction..Failed /\ Generating \in NoAction..Failed
    /\ Generated \in NoAction..Failed /\ Failed \in NoAction..Failed
    /\ NoAction # Generating /\ NoAction # Generated /\ Generating # Generated
    /\ Failed # Generating /\ Failed # Generated
    /\ Waiting # TimedOut /\ Waiting # Taken /\ TimedOut # Taken
    /\ NoAction # Failed
BY BoundsAreNat DEF Seqs, Files, NoAction, Generating, Generated, Failed, Waiting, TimedOut, Taken

\* At the start nothing has been asked for.
LEMMA TypeInit == Init => TypeOK
<1>1. SUFFICES ASSUME Init PROVE Types
  BY TypeParts
<1>2. PageTypes
  BY <1>1, Numbers DEF Init, PageTypes
<1>3. ServerTypes
  BY <1>1, Numbers DEF Init, ServerTypes, FreshNode
<1>4. NetTypes
  <2>1. <<>> \in Seq(UpMsg)
    OBVIOUS
  <2>2. QED
    BY <1>1, <2>1 DEF Init, NetTypes
<1>5. DeviceTypes
  BY <1>1, Numbers DEF Init, DeviceTypes, States
<1>6. CameraTypes
  <2>1. <<>> \in Seq(Answer)
    OBVIOUS
  <2>2. QED
    BY <1>1, <2>1, Numbers DEF Init, CameraTypes
<1>7. QED
  BY <1>2, <1>3, <1>4, <1>5, <1>6 DEF Types

\* A page that asks.
LEMMA TypePage ==
    ASSUME TypeOK, setup \in Setups, RequestPreview
    PROVE  TypeOK'
<1>1. Types
  BY TypeParts
<1>2. UNCHANGED <<server, net, device, camera>>
  BY DEF RequestPreview
<1>3. ServerTypes' /\ NetTypes' /\ DeviceTypes' /\ CameraTypes'
  BY <1>1, <1>2 DEF Types, ServerTypes, NetTypes, DeviceTypes, CameraTypes, server, net, device, camera
<1>4. setup.last \in 0..MaxSeq
  BY SetupsAreKnown
<1>5. row.sync \in 0..MaxSeq /\ row.sync < setup.last
  BY <1>1 DEF Types, PageTypes, Seqs, RequestPreview
<1>6. row.sync + 1 \in Seqs
  BY <1>4, <1>5, BoundsAreNat DEF Seqs
<1>7. row' \in [sync : Seqs, synced : Seqs, status : NoAction..Failed]
  BY <1>1, <1>6, Numbers DEF Types, PageTypes, RequestPreview
<1>8. PageTypes'
  BY <1>1, <1>7, Numbers DEF Types, PageTypes, RequestPreview
<1>9. QED
  BY <1>3, <1>8, TypePartsNext DEF Types

\* A message that is read leaves a queue of messages.
LEMMA TypeTake ==
    ASSUME TypeOK, NEW type, NEW n, NEW r, Take(type, n, r),
           n \in [sync : Seqs, synced : Seqs, timeout : {"zero", "wait", "over"}],
           r \in [sync : Seqs, synced : Seqs, status : NoAction..Failed]
    PROVE  TypeOK'
<1>1. Types
  BY TypeParts
<1>2. up' \in Seq(UpMsg)
  BY <1>1 DEF Take, Types, NetTypes
<1>3. UNCHANGED <<shown, upd, ini, down, link, device, camera>> /\ st' = "keyed" /\ node' = n /\ row' = r
  BY DEF Take, ServerLeaves
<1>4. PageTypes' /\ ServerTypes' /\ NetTypes'
  BY <1>1, <1>2, <1>3 DEF Types, PageTypes, ServerTypes, NetTypes
<1>5. DeviceTypes' /\ CameraTypes'
  BY <1>1, <1>3 DEF Types, DeviceTypes, CameraTypes, device, camera
<1>6. QED
  BY <1>4, <1>5, TypePartsNext DEF Types

\* The server's steps.
LEMMA TypeServer ==
    ASSUME TypeOK, Server
    PROVE  TypeOK'
<1>1. Types
  BY TypeParts
<1>2. /\ row \in [sync : Seqs, synced : Seqs, status : NoAction..Failed]
      /\ node \in [sync : Seqs, synced : Seqs, timeout : {"zero", "wait", "over"}]
      /\ row.sync \in Seqs /\ upd \in Seqs
  BY <1>1 DEF Types, PageTypes, ServerTypes
<1>3. FreshNode \in [sync : Seqs, synced : Seqs, timeout : {"zero", "wait", "over"}] /\ <<>> \in Seq(UpMsg)
  BY Numbers DEF FreshNode
<1>4. CASE UpdatePreview
  <2>1. UNCHANGED <<row, shown, st, node, net, device, camera>>
        /\ upd' \in {upd, row.sync} /\ ini' \in {ini, row.sync}
    BY <1>4 DEF UpdatePreview
  <2>2. QED
    BY <1>1, <1>2, <2>1, TypePartsNext
    DEF Types, PageTypes, ServerTypes, NetTypes, DeviceTypes, CameraTypes, net, device, camera
<1>5. CASE cnm_client_update_preview_seq
  <2>1. UNCHANGED <<row, shown, ini, st, net, device, camera>> /\ upd' = 0
    BY <1>5 DEF cnm_client_update_preview_seq
  <2>2. node' \in [sync : Seqs, synced : Seqs, timeout : {"zero", "wait", "over"}]
    BY <1>2, <1>5 DEF cnm_client_update_preview_seq
  <2>3. QED
    BY <1>1, <2>1, <2>2, Numbers, TypePartsNext
    DEF Types, PageTypes, ServerTypes, NetTypes, DeviceTypes, CameraTypes, net, device, camera
<1>6. CASE send_preview_to_client \/ SyncTimeout
  <2>1. UNCHANGED <<row, shown, upd, ini, st, up, link, device, camera>> /\ down' \in Nat
    BY <1>1, <1>6 DEF send_preview_to_client, SyncTimeout, ServerLeaves, Types, NetTypes
  <2>2. node' \in [sync : Seqs, synced : Seqs, timeout : {"zero", "wait", "over"}]
    BY <1>2, <1>6 DEF send_preview_to_client, SyncTimeout
  <2>3. QED
    BY <1>1, <2>1, <2>2, TypePartsNext
    DEF Types, PageTypes, ServerTypes, NetTypes, DeviceTypes, CameraTypes, device, camera
<1>7. CASE RecvBeat
  BY <1>1, <1>7, TypePartsNext
  DEF RecvBeat, ServerLeaves, Types, PageTypes, ServerTypes, NetTypes, DeviceTypes, CameraTypes, device, camera
<1>8. CASE RecvResponse
  <2>1. [node EXCEPT !.timeout = "zero"] \in [sync : Seqs, synced : Seqs, timeout : {"zero", "wait", "over"}]
    BY <1>2
  <2>2. [row EXCEPT !.synced = IF node.synced # 0 THEN node.synced ELSE @, !.status = Generating]
          \in [sync : Seqs, synced : Seqs, status : NoAction..Failed]
    BY <1>2, Numbers
  <2>3. QED
    BY <1>8, <2>1, <2>2, TypeTake DEF RecvResponse
<1>9. CASE RecvAction
  BY <1>2, <1>9, Numbers, TypeTake DEF RecvAction
<1>10. CASE RecvFail
  BY <1>2, <1>10, Numbers, TypeTake DEF RecvFail
<1>11. CASE _cnm_client_del
  <2>1. UNCHANGED <<row, shown, upd, ini, down, link, device, camera>>
        /\ node' = FreshNode /\ st' = "none" /\ up' = <<>>
    BY <1>11 DEF _cnm_client_del, ServerLeaves
  <2>2. QED
    BY <1>1, <1>3, <2>1, TypePartsNext
    DEF Types, PageTypes, ServerTypes, NetTypes, DeviceTypes, CameraTypes, device, camera
<1>12. CASE ServerRestart
  <2>1. UNCHANGED <<row, shown, ini, down, link, device, camera>>
        /\ node' = FreshNode /\ st' = "none" /\ up' = <<>> /\ upd' = 0
    BY <1>12 DEF ServerRestart
  <2>2. QED
    BY <1>1, <1>3, <2>1, Numbers, TypePartsNext
    DEF Types, PageTypes, ServerTypes, NetTypes, DeviceTypes, CameraTypes, device, camera
<1>13. QED
  BY <1>4, <1>5, <1>6, <1>7, <1>8, <1>9, <1>10, <1>11, <1>12 DEF Server, Receive

\* A link that ends keeps a part of what was on it.
LEMMA TypeLeave ==
    ASSUME NetTypes, Leave
    PROVE  NetTypes'
<1>1. PICK n \in 0..Len(up) : up' = SubSeq(up, 1, n)
  BY DEF Leave
<1>2. up' \in Seq(UpMsg)
  <2>1. up \in Seq(UpMsg) /\ Len(up) \in Nat
    BY DEF NetTypes
  <2>2. QED
    BY <1>1, <2>1, SubSeqProperties
<1>3. QED
  BY <1>2 DEF Leave, NetTypes

\* Links, restarts and requests.
LEMMA TypeLinks ==
    ASSUME TypeOK, Connect \/ LinkDown \/ ClientRestart \/ \E f \in Fetch : RecvRequest(f)
    PROVE  TypeOK'
<1>1. Types
  BY TypeParts
<1>2. CASE Connect
  BY <1>1, <1>2, TypePartsNext
  DEF Connect, Types, PageTypes, ServerTypes, NetTypes, DeviceTypes, CameraTypes, device, camera
<1>3. CASE LinkDown
  <2>1. NetTypes'
    BY <1>1, <1>3, TypeLeave DEF LinkDown, Types
  <2>2. UNCHANGED <<row, shown, server, device, camera>>
    BY <1>3 DEF LinkDown
  <2>3. QED
    BY <1>1, <2>1, <2>2, TypePartsNext
    DEF Types, PageTypes, ServerTypes, DeviceTypes, CameraTypes, server, device, camera
<1>4. CASE ClientRestart
  <2>1. NetTypes'
    BY <1>1, <1>4, TypeLeave DEF ClientRestart, Types
  <2>2. DeviceTypes'
    BY <1>1, <1>4 DEF ClientRestart, Types, DeviceTypes, States
  <2>3. CameraTypes'
    <3>1. notes' = 0 /\ answers' = <<>> /\ UNCHANGED <<shoot, jpeg>>
      BY <1>4 DEF ClientRestart
    <3>2. answers' \in Seq(Answer)
      BY <3>1
    <3>3. QED
      BY <1>1, <3>1, <3>2 DEF Types, CameraTypes
  <2>4. UNCHANGED <<row, shown, server>>
    BY <1>4 DEF ClientRestart
  <2>5. QED
    BY <1>1, <2>1, <2>2, <2>3, <2>4, TypePartsNext DEF Types, PageTypes, ServerTypes, server
<1>5. ASSUME NEW f \in Fetch, RecvRequest(f) PROVE TypeOK'
  <2>1. UNCHANGED <<row, server, shown, up, link, tmp, got, pending, response, unsent, sending, camera>>
    BY <1>5 DEF RecvRequest, DeviceLeaves
  <2>2. down' \in Nat /\ fetch' = [fetch EXCEPT ![f] = "rm"] /\ "rm" \in States
    BY <1>1, <1>5 DEF RecvRequest, Types, NetTypes, States
  <2>3. DeviceTypes'
    BY <1>1, <2>1, <2>2 DEF Types, DeviceTypes
  <2>4. QED
    BY <1>1, <2>1, <2>2, <2>3, TypePartsNext DEF Types, PageTypes, ServerTypes, NetTypes, CameraTypes, server, camera
<1>6. QED
  BY <1>2, <1>3, <1>4, <1>5

\* What is written is a message.
LEMMA TypeWrite ==
    ASSUME up \in Seq(UpMsg), NEW m \in UpMsg, Write(m)
    PROVE  up' \in Seq(UpMsg)
<1>1. Append(up, m) \in Seq(UpMsg)
  OBVIOUS
<1>2. QED
  BY <1>1 DEF Write

\* A result is a message.
LEMMA ResultIsMessage == Result \in {"action", "fail"} /\ {"action", "fail", "response"} \subseteq UpMsg
BY DEF Result, UpMsg

\* The thread of a request.
LEMMA TypeThread ==
    ASSUME TypeOK, NEW f \in Fetch, preview_tasks(f)
    PROVE  TypeOK'
<1>1. Types
  BY TypeParts
<1>2. UNCHANGED <<row, server, down, link, shoot, answers>>
  BY DEF preview_tasks, PreviewRm, PreviewWget, PreviewAccess, PreviewMv, PreviewNotify,
         PreviewReset, PreviewWaited, PreviewUpload, PreviewFinish, PreviewSent, DeviceLeaves, net, camera
<1>3. fetch' \in [Fetch -> States]
  <2>1. \E p \in States : fetch' = [fetch EXCEPT ![f] = p]
    BY DEF preview_tasks, PreviewRm, PreviewWget, PreviewAccess, PreviewMv, PreviewNotify,
           PreviewReset, PreviewWaited, PreviewUpload, PreviewFinish, PreviewSent, States
  <2>2. QED
    BY <1>1, <2>1 DEF Types, DeviceTypes
<1>4. up' \in Seq(UpMsg)
  <2>1. CASE PreviewFinish(f)
    <3>1. UNCHANGED up \/ Write(Result)
      BY <2>1 DEF PreviewFinish
    <3>2. QED
      BY <1>1, <3>1, TypeWrite, ResultIsMessage DEF Types, NetTypes
  <2>2. CASE ~PreviewFinish(f)
    BY <1>1, <2>2 DEF preview_tasks, PreviewRm, PreviewWget, PreviewAccess, PreviewMv, PreviewNotify,
           PreviewReset, PreviewWaited, PreviewUpload, PreviewSent, net, Types, NetTypes
  <2>3. QED
    BY <2>1, <2>2
<1>5. /\ got' \in {got, tmp} /\ tmp' \in {tmp, ini, 0, Empty} /\ pending' \in {pending, TRUE}
      /\ response' \in {response, Waiting, TimedOut}
      /\ sending' = sending
  BY DEF preview_tasks, PreviewRm, PreviewWget, PreviewAccess, PreviewMv, PreviewNotify,
         PreviewReset, PreviewWaited, PreviewUpload, PreviewFinish, PreviewSent
<1>6. unsent' \in BOOLEAN
  BY <1>1 DEF preview_tasks, PreviewRm, PreviewWget, PreviewAccess, PreviewMv, PreviewNotify,
         PreviewReset, PreviewWaited, PreviewUpload, PreviewFinish, PreviewSent, Types, DeviceTypes
<1>7. notes' \in {notes, 1} /\ jpeg' \in {jpeg, 0} /\ shown' \in {shown, jpeg}
  BY DEF preview_tasks, PreviewRm, PreviewWget, PreviewAccess, PreviewMv, PreviewNotify,
         PreviewReset, PreviewWaited, PreviewUpload, PreviewFinish, PreviewSent, camera
<1>8. PageTypes' /\ ServerTypes'
  BY <1>1, <1>2, <1>7 DEF Types, PageTypes, ServerTypes, CameraTypes, server
<1>9. NetTypes' /\ CameraTypes'
  BY <1>1, <1>2, <1>4, <1>7, Numbers DEF Types, NetTypes, CameraTypes
<1>10. DeviceTypes'
  <2>1. got' \in Files /\ tmp' \in Files /\ response' \in {Waiting, TimedOut, Taken}
    BY <1>1, <1>5, Numbers DEF Types, ServerTypes, DeviceTypes
  <2>2. pending' \in BOOLEAN /\ sending' \in BOOLEAN
    BY <1>1, <1>5 DEF Types, DeviceTypes
  <2>3. QED
    BY <1>3, <1>6, <2>1, <2>2 DEF DeviceTypes
<1>11. QED
  BY <1>8, <1>9, <1>10, TypePartsNext DEF Types

\* The main loop, and what the camera program says.
LEMMA TypeMain ==
    ASSUME TypeOK, Main \/ RecvConfirmed \/ RecvTaken
    PROVE  TypeOK'
<1>1. Types
  BY TypeParts
<1>2. UNCHANGED <<row, server, shown, down, link, fetch, tmp, got, shoot, jpeg>>
  BY DEF Main, MainFinish, MainSent, MainNotify, MainCount, RecvConfirmed, RecvTaken, DeviceLeaves, net, device, camera
<1>3. up' \in Seq(UpMsg)
  <2>1. UNCHANGED up \/ Write(Result) \/ Write("response")
    BY DEF Main, MainFinish, MainSent, MainNotify, MainCount, RecvConfirmed, RecvTaken, net
  <2>2. QED
    BY <1>1, <2>1, TypeWrite, ResultIsMessage DEF Types, NetTypes
<1>4. /\ pending' \in {pending, FALSE} /\ response' \in {response, TimedOut, Taken}
      /\ unsent' \in {unsent, FALSE} /\ sending' \in {sending, TRUE, FALSE}
  BY DEF Main, MainFinish, MainSent, MainNotify, MainCount, RecvConfirmed, RecvTaken, device
<1>5. notes' \in {notes, notes + 1}
  BY DEF Main, MainFinish, MainSent, MainNotify, MainCount, RecvConfirmed, RecvTaken, camera
<1>6. answers' \in Seq(Answer)
  <2>1. UNCHANGED answers \/ (answers # <<>> /\ answers' = Tail(answers))
    BY DEF Main, MainFinish, MainSent, MainNotify, MainCount, RecvConfirmed, RecvTaken, camera
  <2>2. QED
    BY <1>1, <2>1 DEF Types, CameraTypes
<1>7. PageTypes' /\ ServerTypes' /\ NetTypes'
  BY <1>1, <1>2, <1>3 DEF Types, PageTypes, ServerTypes, NetTypes, server
<1>8. CameraTypes'
  BY <1>1, <1>2, <1>5, <1>6 DEF Types, CameraTypes
<1>9. DeviceTypes'
  <2>1. pending' \in BOOLEAN /\ unsent' \in BOOLEAN /\ sending' \in BOOLEAN
    BY <1>1, <1>4 DEF Types, DeviceTypes
  <2>2. response' \in {Waiting, TimedOut, Taken}
    BY <1>1, <1>4 DEF Types, DeviceTypes
  <2>3. QED
    BY <1>1, <1>2, <2>1, <2>2 DEF Types, DeviceTypes
<1>10. QED
  BY <1>7, <1>8, <1>9, TypePartsNext DEF Types

\* The camera program.
LEMMA TypeCamera ==
    ASSUME TypeOK, Camera
    PROVE  TypeOK'
<1>1. Types
  BY TypeParts
<1>2. UNCHANGED <<row, shown, server, net, device>>
  BY DEF Camera, CameraConfirms, CameraTakes, CameraDown, CameraLeaves
<1>3. PageTypes' /\ ServerTypes' /\ NetTypes' /\ DeviceTypes'
  BY <1>1, <1>2 DEF Types, PageTypes, ServerTypes, NetTypes, DeviceTypes, server, net, device
<1>4. answers' \in Seq(Answer)
  <2>1. \/ answers' = <<>>
        \/ \E a \in Answer : answers' = Append(answers, a)
    BY DEF Camera, CameraConfirms, CameraTakes, CameraDown, Answer
  <2>2. \A a \in Answer : Append(answers, a) \in Seq(Answer)
    BY <1>1 DEF Types, CameraTypes
  <2>3. <<>> \in Seq(Answer)
    OBVIOUS
  <2>4. QED
    BY <2>1, <2>2, <2>3
<1>5. notes' \in Nat
  BY <1>1 DEF Camera, CameraConfirms, CameraTakes, CameraDown, Types, CameraTypes
<1>6. shoot' \in Files /\ jpeg' \in Files
  BY <1>1, Numbers DEF Camera, CameraConfirms, CameraTakes, CameraDown, Types, CameraTypes, DeviceTypes
<1>7. QED
  BY <1>3, <1>4, <1>5, <1>6, TypePartsNext DEF Types, CameraTypes

\* Every step keeps the types.
LEMMA TypeStep ==
    ASSUME TypeOK, setup \in Setups, [Next]_vars
    PROVE  TypeOK'
<1>1. CASE RequestPreview
  BY <1>1, TypePage
<1>2. CASE Server
  BY <1>2, TypeServer
<1>3. CASE Device
  BY <1>3, TypeLinks, TypeThread, TypeMain DEF Device
<1>4. CASE Camera
  BY <1>4, TypeCamera
<1>5. CASE UNCHANGED vars
  BY <1>5 DEF TypeOK, vars, server, net, device, camera
<1>6. QED
  BY <1>1, <1>2, <1>3, <1>4, <1>5 DEF Next

\* Every variable keeps its shape, whatever overlaps, is late or fails.
THEOREM TypeCorrect == Spec => []TypeOK
<1> DEFINE Known == setup \in Setups
<1>1. Init => Known /\ TypeOK
  BY TypeInit DEF Init
<1>2. Known /\ TypeOK /\ [Next /\ UNCHANGED setup]_<<vars, setup>> => Known' /\ TypeOK'
  BY TypeStep
<1> HIDE DEF Known
<1>3. QED
  BY <1>1, <1>2, PTL DEF Spec

-----------------------------------------------------------------------------
(* Preview implements SettingPush.                                           *)

\* Nobody has a number that was not asked for.
NumbersBounded == upd <= row.sync /\ node.sync <= row.sync /\ node.synced <= row.sync /\ row.synced <= row.sync

\* The steps on the numbers that a step of Preview may be.
AskStep == row'.sync = row.sync + 1 /\ UNCHANGED <<row.synced, upd, node.sync, node.synced>>
CarryStep == upd = 0 /\ upd' = row.sync /\ row.sync # row.synced /\ UNCHANGED <<row.sync, row.synced, node.sync, node.synced>>
MoveStep ==
    /\ row'.sync = row.sync
    /\ row'.synced = row.synced \/ (row'.synced = node.synced /\ node.synced # 0)
    /\ upd' \in {upd, 0}
    /\ node'.sync \in {node.sync, upd, 0} /\ node'.synced \in {node.synced, node.sync, 0}

\* There are no others.
LEMMA StepOnNumbers ==
    ASSUME TypeOK, [Next]_vars
    PROVE  AskStep \/ CarryStep \/ MoveStep
<1>1. /\ row \in [sync : Seqs, synced : Seqs, status : NoAction..Failed]
      /\ node \in [sync : Seqs, synced : Seqs, timeout : {"zero", "wait", "over"}]
  BY DEF TypeOK
<1>2. CASE RequestPreview
  BY <1>1, <1>2 DEF RequestPreview, AskStep, server
<1>3. CASE UpdatePreview
  BY <1>3 DEF UpdatePreview, DbFree, CarryStep, MoveStep
<1>4. CASE cnm_client_update_preview_seq
  BY <1>1, <1>4 DEF cnm_client_update_preview_seq, MoveStep
<1>5. CASE send_preview_to_client \/ SyncTimeout
  BY <1>1, <1>5 DEF send_preview_to_client, SyncTimeout, ServerLeaves, MoveStep
<1>6. CASE RecvResponse
  BY <1>1, <1>6 DEF RecvResponse, Take, ServerLeaves, MoveStep
<1>7. CASE RecvAction \/ RecvFail
  BY <1>1, <1>7 DEF RecvAction, RecvFail, Take, ServerLeaves, MoveStep
<1>8. CASE _cnm_client_del \/ ServerRestart
  BY <1>8 DEF _cnm_client_del, ServerRestart, ServerLeaves, FreshNode, MoveStep
<1>9. CASE RecvBeat \/ Device \/ Camera \/ UNCHANGED vars
  <2>1. UNCHANGED <<row, upd, node>>
    BY <1>9 DEF RecvBeat, ServerLeaves, Device, Connect, LinkDown, ClientRestart, Main,
       MainFinish, MainSent, MainNotify, MainCount, RecvConfirmed, RecvTaken, RecvRequest, preview_tasks,
       PreviewRm, PreviewWget, PreviewAccess, PreviewMv, PreviewNotify, PreviewReset,
       PreviewWaited, PreviewUpload, PreviewFinish, PreviewSent,
       DeviceLeaves, Camera, CameraConfirms, CameraTakes, CameraDown, CameraLeaves, vars, server
  <2>2. QED
    BY <2>1 DEF MoveStep
<1>10. QED
  BY <1>2, <1>3, <1>4, <1>5, <1>6, <1>7, <1>8, <1>9 DEF Next, Server, Receive

\* The numbers stay bounded by the newest.
LEMMA NumbersBoundedStep ==
    ASSUME TypeOK, NumbersBounded, [Next]_vars
    PROVE  NumbersBounded'
<1>1. row.sync \in Nat /\ row.synced \in Nat /\ upd \in Nat /\ node.sync \in Nat /\ node.synced \in Nat
  BY Numbers DEF TypeOK
<1>2. CASE AskStep
  BY <1>1, <1>2 DEF AskStep, NumbersBounded
<1>3. CASE CarryStep
  BY <1>1, <1>3 DEF CarryStep, NumbersBounded
<1>4. CASE MoveStep
  <2>1. /\ upd' <= row.sync /\ row'.synced <= row.sync
        /\ node'.sync <= row.sync /\ node'.synced <= row.sync
    BY <1>1, <1>4 DEF MoveStep, NumbersBounded
  <2>2. QED
    BY <1>4, <2>1 DEF MoveStep, NumbersBounded
<1>5. QED
  BY <1>2, <1>3, <1>4, StepOnNumbers

\* The numbers of the previews are synchronised as SettingPush says: what is recorded
\* was copied from the row, and a number that was overtaken does not come back, also
\* when the timer carries a number again and again, two threads work on it, requests
\* overlap, and the camera program fails or is late.
THEOREM ImplementsSettingPushHolds == Spec => ImplementsSettingPush
<1>1. Init => Pushed!Init /\ NumbersBounded
  BY DEF Init, Pushed!Init, NumbersBounded, Copies, FreshNode
<1>2. ASSUME TypeOK, NumbersBounded, [Next]_vars PROVE [Pushed!Next]_(Pushed!vars)
  <2>1. row.sync \in Nat /\ row.synced \in Nat
    <3>1. row \in [sync : Seqs, synced : Seqs, status : NoAction..Failed]
      BY <1>2 DEF TypeOK
    <3>2. QED
      BY <3>1, Numbers
  <2>2. CASE AskStep
    BY <2>2 DEF AskStep, Copies, Pushed!Next, Pushed!Ask
  <2>3. CASE CarryStep
    <3>1. row.sync # 0
      BY <1>2, <2>1, <2>3 DEF CarryStep, NumbersBounded
    <3>2. Copies' = Copies \cup {row.sync}
      BY <2>3, <3>1 DEF CarryStep, Copies
    <3>3. QED
      BY <2>3, <3>2 DEF CarryStep, Pushed!Next, Pushed!Carry
  <2>4. CASE MoveStep
    <3>1. Copies' \in SUBSET Copies
      BY <2>4 DEF MoveStep, Copies
    <3>2. row'.synced \in Copies \/ row'.synced = row.synced
      BY <2>4 DEF MoveStep, Copies
    <3>3. QED
      BY <2>4, <3>1, <3>2 DEF MoveStep, Pushed!Next, Pushed!Drop, Pushed!Record
  <2>5. QED
    BY <1>2, <2>2, <2>3, <2>4, StepOnNumbers
<1>3. [Next /\ UNCHANGED setup]_<<vars, setup>> => [Next]_vars
  OBVIOUS
<1>4. TypeOK /\ NumbersBounded /\ [Next]_vars => NumbersBounded'
  BY NumbersBoundedStep
<1>5. QED
  BY <1>1, <1>2, <1>3, <1>4, TypeCorrect, PTL DEF Spec, ImplementsSettingPush, Pushed!Spec

-----------------------------------------------------------------------------
(* One request at a time, and one thread that works on it.                   *)

\* What does not happen in a calm setup.
LEMMA CalmMeans == Calm => ~May("again") /\ ~May("late") /\ ~May("camera") /\ ~May("cut") /\ ~May("wget")
BY DEF Calm, May

\* Nothing has been asked for at the start.
LEMMA FlowInit == Init => Flow
BY DEF Init, Flow, OneRequest, OneFile, OneThread, OneNote, Rests, CameraRests, Unconfirmed, FreshNode,
       Working, Fetching, Asking, Ending

\* As long as the row waits and the device does not have the request, the device rests.
LEMMA NotYet ==
    ASSUME Flow, row.status = NoAction, ~Unconfirmed
    PROVE  Rests /\ up = <<>>
<1>1. up = <<>> /\ \A f \in Fetch : fetch[f] = "idle"
  BY DEF Unconfirmed
<1>2. ~pending
  BY <1>1 DEF Flow, OneNote, Asking
<1>3. QED
  BY <1>1, <1>2 DEF Flow, OneRequest, Fetching

\* Where the device works a request was made, and waits to be confirmed unless it was.
LEMMA AtWork ==
    ASSUME Flow, ~Rests
    PROVE  row.sync # 0 /\ (row.status = NoAction => Unconfirmed)
BY NotYet DEF Flow, OneRequest

\* Steps of the device keep to the request it works on.
LEMMA AtWorkStep ==
    ASSUME Flow, ~Rests, UNCHANGED <<row, upd, node, st, down, link>>,
           row.status = NoAction => up' # <<>> \/ pending' \/ \E f \in Fetch : fetch'[f] \in Fetching
    PROVE  OneRequest'
<1>1. row.sync # 0 /\ (row.status = NoAction => Unconfirmed)
  BY AtWork
<1>2. Unconfirmed' => Unconfirmed
  BY <1>1 DEF Unconfirmed
<1>3. QED
  BY <1>1, <1>2 DEF Flow, OneRequest

\* Steps that leave the device and the camera alone leave their part of the invariant.
LEMMA DeviceRestsStep ==
    ASSUME OneThread, OneNote, UNCHANGED <<device, camera>>
    PROVE  OneThread' /\ OneNote' /\ (Rests' <=> Rests)
BY DEF OneThread, OneNote, Rests, CameraRests, device, camera

\* Steps that leave the file and its copies alone, and bring no request further.
LEMMA FileFrame ==
    ASSUME OneFile, UNCHANGED <<fetch, tmp, ini, row.sync>>,
           upd' # 0 \/ node'.sync # node'.synced \/ down' # 0
               => upd # 0 \/ node.sync # node.synced \/ down # 0
    PROVE  OneFile'
BY DEF OneFile

\* A request that is made finds everything at rest.
LEMMA RequestRests ==
    ASSUME Flow, Calm, RequestPreview
    PROVE  upd = 0 /\ node.sync = node.synced /\ down = 0 /\ up = <<>> /\ Rests
<1>1. row.sync = 0 \/ (row.status # NoAction /\ DeviceRests /\ down = 0 /\ up = <<>>)
  BY CalmMeans, Numbers DEF RequestPreview
<1>2. CASE row.sync = 0
  BY <1>2, NotYet DEF Flow, OneRequest
<1>3. CASE row.status # NoAction /\ DeviceRests /\ down = 0 /\ up = <<>>
  <2>1. Rests
    BY <1>3 DEF DeviceRests, Rests, CameraRests, Flow, OneNote, Asking
  <2>2. QED
    BY <1>3, <2>1 DEF Flow, OneRequest
<1>4. QED
  BY <1>1, <1>2, <1>3

\* A request that is made.
LEMMA RequestOne ==
    ASSUME TypeOK, Flow, Calm, RequestPreview
    PROVE  OneRequest' /\ OneFile'
<1>1. /\ row \in [sync : Seqs, synced : Seqs, status : NoAction..Failed] /\ row.sync \in Nat
  <2>1. row \in [sync : Seqs, synced : Seqs, status : NoAction..Failed]
    BY DEF TypeOK
  <2>2. QED
    BY <2>1, Numbers
<1>2. row' = [row EXCEPT !.sync = @ + 1, !.status = NoAction] /\ UNCHANGED <<server, net, device, camera>>
  BY DEF RequestPreview
<1>3. row'.sync # 0 /\ row'.status = NoAction
  BY <1>1, <1>2
<1>4. upd = 0 /\ node.sync = node.synced /\ down = 0 /\ up = <<>> /\ Rests
  BY RequestRests
<1>5. UNCHANGED <<upd, node, st, down, up, link, fetch, tmp, ini>>
  BY <1>2 DEF server, net, device
<1>6. Rests' /\ ~Unconfirmed'
  BY <1>2, <1>4, <1>5 DEF Rests, CameraRests, Unconfirmed, device, camera
<1>7. OneRequest'
  BY <1>3, <1>4, <1>5, <1>6 DEF Flow, OneRequest
<1>8. OneFile'
  BY <1>4, <1>5 DEF OneFile, Rests
<1>9. QED
  BY <1>7, <1>8

\* A request goes down, and its number is carried and stored again meanwhile.
LEMMA DownOne ==
    ASSUME TypeOK, Flow, Calm,
           UpdatePreview \/ cnm_client_update_preview_seq \/ send_preview_to_client
    PROVE  OneRequest' /\ OneFile'
<1>1. /\ node \in [sync : Seqs, synced : Seqs, timeout : {"zero", "wait", "over"}]
      /\ UNCHANGED <<row, st, up, link, device, camera>>
  BY DEF TypeOK, UpdatePreview, cnm_client_update_preview_seq, send_preview_to_client, ServerLeaves, net
<1>2. (Rests' <=> Rests) /\ (Unconfirmed' <=> Unconfirmed) /\ UNCHANGED <<fetch, tmp, pending>>
  BY <1>1 DEF Rests, CameraRests, Unconfirmed, device, camera
<1>3. CASE UpdatePreview
  <2>1. /\ UNCHANGED <<node, down>>
        /\ \/ row.status = NoAction /\ upd' = row.sync /\ ini' = row.sync
           \/ UNCHANGED <<upd, ini>>
    BY <1>3 DEF UpdatePreview, net
  <2>2. OneRequest'
    BY <1>1, <1>2, <2>1 DEF Flow, OneRequest
  <2>3. OneFile'
    BY <1>1, <1>2, <2>1 DEF Flow, OneFile
  <2>4. QED
    BY <2>2, <2>3
<1>4. CASE cnm_client_update_preview_seq
  <2>1. /\ upd # 0 /\ upd' = 0 /\ UNCHANGED <<down, ini>>
        /\ node'.timeout = node.timeout /\ node'.synced = node.synced /\ (st # "keyed" => node' = node)
        /\ node'.sync \in {upd, node.sync}
    BY <1>1, <1>4 DEF cnm_client_update_preview_seq, net
  <2>2. row.status = NoAction /\ upd = row.sync /\ row.sync # 0
    BY <2>1 DEF Flow, OneRequest
  <2>3. OneRequest'
    BY <1>1, <1>2, <2>1, <2>2 DEF Flow, OneRequest
  <2>4. OneFile'
    BY <1>1, <1>2, <2>1, FileFrame DEF Flow
  <2>5. QED
    BY <2>3, <2>4
<1>5. CASE send_preview_to_client
  <2>1. /\ st = "keyed" /\ UNCHANGED <<upd, ini>>
        /\ node'.sync = node.sync /\ node'.synced = node.sync /\ node'.timeout = "wait"
        /\ down = 0 /\ down' = IF link THEN down + 1 ELSE down
        /\ node.sync # node.synced \/ node.timeout = "over"
    BY <1>1, <1>5 DEF send_preview_to_client, ServerLeaves
  <2>2. down' # 0 => down' = 1 /\ node.sync # node.synced
    BY <2>1 DEF Flow, OneRequest
  <2>3. OneRequest'
    BY <1>1, <1>2, <2>1, <2>2 DEF Flow, OneRequest
  <2>4. OneFile'
    BY <1>1, <1>2, <2>1, <2>2, FileFrame DEF Flow
  <2>5. QED
    BY <2>3, <2>4
<1>6. QED
  BY <1>3, <1>4, <1>5

\* What the server reads, and what it gives up, adds no request.
LEMMA ServerOne ==
    ASSUME TypeOK, Flow, Calm, SyncTimeout \/ Receive \/ _cnm_client_del \/ ServerRestart
    PROVE  OneRequest' /\ OneFile'
<1>1. /\ node \in [sync : Seqs, synced : Seqs, timeout : {"zero", "wait", "over"}]
      /\ row \in [sync : Seqs, synced : Seqs, status : NoAction..Failed]
  BY DEF TypeOK
<1>2. UNCHANGED <<ini, down, link, device, camera>>
  BY DEF SyncTimeout, Receive, RecvBeat, RecvResponse, RecvAction, RecvFail, Take, _cnm_client_del, ServerRestart,
         ServerLeaves
<1>3. (Rests' <=> Rests) /\ UNCHANGED <<fetch, tmp, pending>>
  BY <1>2 DEF Rests, CameraRests, device, camera
<1>4. CASE SyncTimeout
  <2>1. ~link /\ UNCHANGED <<row, st, up, upd>> /\ node'.sync = node.sync /\ node'.synced = node.synced /\ st = "keyed"
    BY <1>1, <1>4, CalmMeans DEF SyncTimeout, ServerLeaves
  <2>2. Unconfirmed' <=> Unconfirmed
    BY <1>3, <2>1 DEF Unconfirmed
  <2>3. QED
    BY <1>2, <1>3, <2>1, <2>2, FileFrame DEF Flow, OneRequest
<1>5. CASE RecvBeat
  <2>1. st' = "keyed" /\ UNCHANGED <<row, up, upd, node>>
    BY <1>5 DEF RecvBeat, ServerLeaves
  <2>2. Unconfirmed' <=> Unconfirmed
    BY <1>3, <2>1 DEF Unconfirmed
  <2>3. QED
    BY <1>2, <1>3, <2>1, <2>2, FileFrame DEF Flow, OneRequest
<1>6. CASE RecvResponse \/ RecvAction \/ RecvFail
  <2>1. /\ up # <<>> /\ st' = "keyed" /\ upd = 0 /\ upd' = 0
        /\ row'.sync = row.sync /\ row'.status # NoAction
        /\ node'.sync = node.sync /\ node'.synced = node.synced /\ node'.timeout \in {node.timeout, "zero"}
    BY <1>1, <1>6, Numbers DEF RecvResponse, RecvAction, RecvFail, Take, ServerLeaves, DbFree
  <2>2. row.status = NoAction => Unconfirmed
    BY <2>1 DEF Unconfirmed
  <2>3. node.sync = node.synced /\ down = 0 /\ row.sync # 0
    BY <2>2 DEF Flow, OneRequest
  <2>4. ~Unconfirmed'
    BY <2>1 DEF Unconfirmed
  <2>5. QED
    BY <1>2, <1>3, <2>1, <2>3, <2>4, FileFrame DEF Flow, OneRequest
<1>7. CASE _cnm_client_del \/ ServerRestart
  <2>1. /\ st' = "none" /\ node' = FreshNode /\ up' = <<>> /\ row' = row /\ upd' \in {upd, 0}
        /\ (~link /\ up = <<>>) \/ (~Unconfirmed /\ down = 0)
    BY <1>7, CalmMeans DEF _cnm_client_del, ServerRestart, ServerLeaves
  <2>2. node'.sync = node'.synced /\ node'.timeout = "zero"
    BY <2>1 DEF FreshNode
  <2>3. ~Unconfirmed /\ down = 0
    BY <2>1 DEF Flow, OneRequest
  <2>4. ~Unconfirmed' /\ (row.status = NoAction => Rests)
    BY <1>3, <2>1, <2>3, NotYet DEF Unconfirmed, Rests
  <2>5. QED
    BY <1>2, <1>3, <2>1, <2>2, <2>3, <2>4, FileFrame DEF Flow, OneRequest
<1>8. QED
  BY <1>4, <1>5, <1>6, <1>7 DEF Receive

\* The web page and the server.
LEMMA ServerFlow ==
    ASSUME TypeOK, Flow, Calm, RequestPreview \/ Server
    PROVE  Flow'
<1>1. UNCHANGED <<device, camera>>
  BY DEF RequestPreview, Server, UpdatePreview, cnm_client_update_preview_seq,
         send_preview_to_client, SyncTimeout, Receive, RecvBeat, RecvResponse, RecvAction, RecvFail, Take,
         _cnm_client_del, ServerRestart, ServerLeaves
<1>2. OneRequest' /\ OneFile'
  BY RequestOne, DownOne, ServerOne DEF Server
<1>3. QED
  BY <1>1, <1>2, DeviceRestsStep DEF Flow

\* A part of nothing is nothing.
LEMMA NothingLeft ==
    ASSUME NetTypes, Leave, up = <<>>
    PROVE  up' = <<>>
<1>1. PICK n \in 0..Len(up) : up' = SubSeq(up, 1, n)
  BY DEF Leave
<1>2. n = 0
  BY <1>1
<1>3. QED
  BY <1>1, <1>2

\* A link ends only where nothing is lost that the row still waits for, but a request.
LEMMA LeaveOne ==
    ASSUME TypeOK, Flow, ~Unconfirmed, Leave, Rests => Rests',
           (\A f \in Fetch : fetch[f] = "idle") => \A f \in Fetch : fetch'[f] = "idle",
           UNCHANGED <<row, upd, ini, st, node>>
    PROVE  OneRequest'
<1>1. NetTypes
  BY TypeParts DEF Types
<1>2. down' = 0 /\ ~link'
  BY DEF Leave
<1>3. row.status = NoAction => Rests' /\ up' = <<>> /\ Rests
  BY <1>1, NotYet, NothingLeft
<1>4. ~Unconfirmed'
  BY <1>3 DEF Unconfirmed, Rests
<1>5. QED
  BY <1>2, <1>3, <1>4 DEF Flow, OneRequest

\* Links end and are made again, and cnm_client starts again.
LEMMA LinksFlow ==
    ASSUME TypeOK, Flow, Calm, Connect \/ LinkDown \/ ClientRestart
    PROVE  Flow'
<1>1. UNCHANGED <<row, upd, ini, node>>
  BY DEF Connect, LinkDown, ClientRestart, server
<1>2. CASE Connect
  <2>1. ~link /\ st = "none" /\ st' = "anon" /\ UNCHANGED <<down, up, device, camera>>
    BY <1>2 DEF Connect
  <2>2. node.timeout = "zero"
    BY <2>1 DEF Flow, OneRequest, FreshNode
  <2>3. OneThread' /\ OneNote' /\ (Rests' <=> Rests) /\ UNCHANGED <<fetch, tmp, pending>>
    BY <2>1, DeviceRestsStep DEF Flow, device
  <2>4. Unconfirmed' <=> Unconfirmed
    BY <1>1, <2>1, <2>3 DEF Unconfirmed
  <2>5. OneRequest'
    BY <1>1, <2>1, <2>2, <2>3, <2>4 DEF Flow, OneRequest
  <2>6. OneFile'
    BY <1>1, <2>1, <2>3, FileFrame DEF Flow
  <2>7. QED
    BY <2>3, <2>5, <2>6 DEF Flow
<1>3. CASE LinkDown
  <2>1. Leave /\ st' = st /\ UNCHANGED <<device, camera>> /\ (st = "none" \/ ~Unconfirmed)
    BY <1>3, CalmMeans DEF LinkDown, server
  <2>2. OneThread' /\ OneNote' /\ (Rests' <=> Rests) /\ UNCHANGED <<fetch, tmp>>
    BY <2>1, DeviceRestsStep DEF Flow, device
  <2>3. ~Unconfirmed
    BY <2>1 DEF Flow, OneRequest
  <2>4. OneRequest'
    BY <1>1, <2>1, <2>2, <2>3, LeaveOne
  <2>5. OneFile'
    BY <1>1, <2>1, <2>2, FileFrame DEF Flow, Leave
  <2>6. QED
    BY <2>2, <2>4, <2>5 DEF Flow
<1>4. CASE ClientRestart
  <2>1. /\ Leave /\ st' = st /\ (\A f \in Fetch : fetch'[f] = "idle") /\ ~Unconfirmed
        /\ ~pending' /\ ~unsent' /\ ~sending' /\ notes' = 0 /\ answers' = <<>> /\ shoot' = shoot
    BY <1>4, CalmMeans DEF ClientRestart, server
  <2>2. Rests => Rests'
    BY <2>1 DEF Rests, CameraRests
  <2>3. OneRequest'
    BY <1>1, <2>1, <2>2, LeaveOne
  <2>4. OneFile'
    BY <1>1, <2>1 DEF Flow, OneFile, Leave
  <2>5. OneThread' /\ OneNote'
    BY <2>1 DEF OneThread, OneNote, Working, Fetching, Asking, Ending
  <2>6. QED
    BY <2>3, <2>4, <2>5 DEF Flow
<1>5. QED
  BY <1>2, <1>3, <1>4

\* The shapes the queue of answers has.
LEMMA Shapes ==
    /\ Append(<<>>, "confirmed") = <<"confirmed">> /\ Append(<<>>, "taken") = <<"taken">>
    /\ Append(<<"confirmed">>, "taken") = <<"confirmed", "taken">>
    /\ Tail(<<"confirmed">>) = <<>> /\ Tail(<<"taken">>) = <<>>
    /\ Tail(<<"confirmed", "taken">>) = <<"taken">>
    /\ Head(<<"confirmed">>) = "confirmed" /\ Head(<<"taken">>) = "taken"
    /\ Head(<<"confirmed", "taken">>) = "confirmed"
    /\ <<>> # <<"confirmed">> /\ <<>> # <<"taken">> /\ <<>> # <<"confirmed", "taken">>
    /\ <<"confirmed">> # <<"taken">>
<1>1. Append(<<>>, "confirmed") = <<"confirmed">> /\ Append(<<>>, "taken") = <<"taken">>
  OBVIOUS
<1>2. Append(<<"confirmed">>, "taken") = <<"confirmed", "taken">>
  <2> DEFINE s == Append(<<"confirmed">>, "taken")
             t == <<"confirmed", "taken">>
  <2>1. <<"confirmed">> \in Seq(Answer) /\ "taken" \in Answer /\ t \in Seq(Answer)
    BY DEF Answer
  <2>2. s \in Seq(Answer)
    BY <2>1, AppendProperties
  <2>3. Len(s) = 2 /\ s[1] = "confirmed" /\ s[2] = "taken"
    OBVIOUS
  <2>4. Len(t) = 2 /\ t[1] = "confirmed" /\ t[2] = "taken"
    OBVIOUS
  <2> HIDE DEF s, t
  <2>5. \A i \in 1..Len(s) : s[i] = t[i]
    BY <2>3, <2>4
  <2>6. s = t
    BY <2>1, <2>2, <2>3, <2>4, <2>5, SeqEqual
  <2>7. QED
    BY <2>6 DEF s, t
<1>3. Tail(<<"confirmed">>) = <<>> /\ Tail(<<"taken">>) = <<>>
  OBVIOUS
<1>4. Tail(<<"confirmed", "taken">>) = <<"taken">>
  OBVIOUS
<1>5. /\ Head(<<"confirmed">>) = "confirmed" /\ Head(<<"taken">>) = "taken"
      /\ Head(<<"confirmed", "taken">>) = "confirmed"
  OBVIOUS
<1>6. <<>> # <<"confirmed">> /\ <<>> # <<"taken">> /\ <<>> # <<"confirmed", "taken">> /\ <<"confirmed">> # <<"taken">>
  OBVIOUS
<1>7. QED
  BY <1>1, <1>2, <1>3, <1>4, <1>5, <1>6

\* A request that has come down is given to a thread, the only one.
LEMMA RequestTaken ==
    ASSUME TypeOK, Flow, Calm, NEW f \in Fetch, RecvRequest(f)
    PROVE  Flow'
<1>1. /\ down # 0 /\ down' = down - 1 /\ fetch' = [fetch EXCEPT ![f] = "rm"]
      /\ UNCHANGED <<row, upd, ini, node, st, up, link, pending, response, unsent, sending, notes, shoot, answers>>
  BY DEF RecvRequest, DeviceLeaves, server, camera, TypeOK
<1>2. /\ row.status = NoAction /\ Rests /\ up = <<>> /\ down = 1 /\ row.sync # 0
      /\ link /\ st = "keyed" /\ node.sync = row.sync /\ node.synced = row.sync /\ ini = row.sync
  BY <1>1, NotYet DEF Flow, OneRequest, OneFile
<1>3. \A g \in Fetch : fetch'[g] = IF g = f THEN "rm" ELSE "idle"
  BY <1>1, <1>2 DEF TypeOK, Rests
<1>4. OneRequest'
  BY <1>1, <1>2, <1>3 DEF Flow, OneRequest, Fetching
<1>5. OneFile'
  BY <1>1, <1>2, <1>3 DEF OneFile
<1>6. OneThread'
  BY <1>1, <1>2, <1>3 DEF OneThread, Rests, CameraRests, Working, Fetching, Asking, Ending
<1>7. OneNote'
  BY <1>1, <1>2 DEF OneNote, Rests, CameraRests
<1>8. QED
  BY <1>4, <1>5, <1>6, <1>7 DEF Flow

\* A thread at work is alone, and nothing is upstream.
LEMMA Alone ==
    ASSUME TypeOK, Flow, NEW f \in Fetch, fetch[f] # "idle", NEW p, fetch' = [fetch EXCEPT ![f] = p]
    PROVE  /\ ~Rests
           /\ fetch'[f] = p
           /\ \A g \in Fetch : g # f => fetch[g] = "idle" /\ fetch'[g] = "idle"
BY DEF TypeOK, Flow, OneThread, Rests

\* The thread that works on a request.
LEMMA ThreadFlow ==
    ASSUME TypeOK, Flow, Calm, NEW f \in Fetch, preview_tasks(f)
    PROVE  Flow'
<1>1. UNCHANGED <<row, upd, ini, node, st, down, link, sending, shoot, answers>>
  BY DEF preview_tasks, PreviewRm, PreviewWget, PreviewAccess, PreviewMv, PreviewNotify, PreviewReset,
         PreviewWaited, PreviewUpload, PreviewFinish, PreviewSent, DeviceLeaves, server, net, camera
<1>2. PICK p : fetch[f] # "idle" /\ fetch' = [fetch EXCEPT ![f] = p]
  BY DEF preview_tasks, PreviewRm, PreviewWget, PreviewAccess, PreviewMv, PreviewNotify, PreviewReset,
         PreviewWaited, PreviewUpload, PreviewFinish, PreviewSent
<1>3. ~Rests /\ fetch'[f] = p /\ \A g \in Fetch : g # f => fetch[g] = "idle" /\ fetch'[g] = "idle"
  BY <1>2, Alone
<1>4. row.sync # 0 /\ (row.status = NoAction => up # <<>> \/ pending \/ fetch[f] \in Fetching)
  BY <1>3, AtWork DEF Flow, OneRequest, Fetching
<1>5. CASE PreviewRm(f) \/ PreviewWget(f) \/ PreviewAccess(f)
  <2>1. /\ fetch[f] \in Fetching /\ UNCHANGED <<pending, unsent, notes>>
        /\ \/ fetch[f] = "rm" /\ fetch'[f] = "wget"
           \/ fetch[f] = "wget" /\ fetch'[f] = "access" /\ tmp' = ini
           \/ fetch[f] = "access" /\ fetch'[f] = (IF tmp = 0 THEN "reset" ELSE "mv") /\ tmp' = tmp
    BY <1>3, <1>5, CalmMeans DEF PreviewRm, PreviewWget, PreviewAccess, camera, Fetching, TypeOK
  <2>2. CameraRests /\ ~unsent /\ ~sending
    BY <2>1 DEF Flow, OneThread, Working
  <2>3. fetch'[f] \in Fetching /\ fetch'[f] # "rm"
    BY <1>4, <2>1 DEF Flow, OneFile, Fetching
  <2>4. OneRequest'
    BY <1>1, <1>3, <2>3, AtWorkStep
  <2>5. OneFile'
    BY <1>1, <1>3, <2>1, <2>3 DEF Flow, OneFile, Fetching
  <2>6. OneThread'
    BY <1>1, <1>3, <2>1, <2>2, <2>3 DEF OneThread, CameraRests, Working, Fetching, Asking, Ending
  <2>7. OneNote'
    BY <1>1, <2>1, <2>2 DEF OneNote, CameraRests
  <2>8. QED
    BY <2>4, <2>5, <2>6, <2>7 DEF Flow
<1>6. CASE PreviewMv(f)
  <2>1. /\ fetch[f] = "mv" /\ fetch'[f] = "notify" /\ pending' = TRUE /\ UNCHANGED <<unsent, notes>>
    BY <1>3, <1>6 DEF PreviewMv, camera, TypeOK
  <2>2. CameraRests /\ ~unsent /\ ~sending
    BY <2>1 DEF Flow, OneThread, Working, Fetching
  <2>3. OneRequest' /\ OneFile'
    BY <1>1, <1>3, <2>1, AtWorkStep DEF Flow, OneFile
  <2>4. OneThread'
    BY <1>1, <1>3, <2>1, <2>2 DEF OneThread, CameraRests, Working, Fetching, Asking, Ending
  <2>5. OneNote'
    BY <1>1, <2>1, <2>2 DEF OneNote, CameraRests, Asking
  <2>6. QED
    BY <2>3, <2>4, <2>5 DEF Flow
<1>7. ASSUME fetch[f] \notin Fetching, p \notin Fetching, pending' = pending, up # <<>> => up' # <<>>
      PROVE  OneRequest' /\ OneFile'
  <2>1. OneRequest'
    BY <1>1, <1>3, <1>4, <1>7, AtWorkStep
  <2>2. OneFile'
    BY <1>1, <1>3, <1>7 DEF Flow, OneFile, Fetching
  <2>3. QED
    BY <2>1, <2>2
<1>8. CASE PreviewNotify(f)
  <2>1. /\ fetch[f] = "notify" /\ fetch'[f] = "reset" /\ UNCHANGED <<unsent, pending, response, up>>
        /\ notes' = 1 \/ notes' = notes
    BY <1>3, <1>8 DEF PreviewNotify, net, TypeOK
  <2>2. notes = 0 /\ shoot = 0 /\ answers = <<>> /\ pending /\ ~unsent /\ ~sending
    BY <2>1 DEF Flow, OneThread, Working, Asking
  <2>3. OneThread'
    BY <1>1, <1>3, <2>1, <2>2 DEF OneThread, CameraRests, Working, Fetching, Asking, Ending
  <2>4. OneNote'
    BY <1>1, <2>1, <2>2 DEF OneNote, Asking
  <2>5. QED
    BY <1>3, <1>7, <2>1, <2>3, <2>4 DEF Flow, Fetching
<1>9. CASE PreviewReset(f)
  <2>1. /\ fetch[f] = "reset" /\ fetch'[f] = "wait" /\ UNCHANGED <<unsent, pending, notes, up>>
        /\ response' = Waiting
    BY <1>3, <1>9 DEF PreviewReset, camera, net, TypeOK
  <2>2. OneThread'
    BY <1>1, <1>3, <2>1 DEF Flow, OneThread, CameraRests, Working, Fetching, Asking, Ending
  <2>3. OneNote'
    BY <1>1, <1>3, <2>1 DEF Flow, OneNote, Asking
  <2>4. QED
    BY <1>3, <1>7, <2>1, <2>2, <2>3 DEF Flow, Fetching
<1>10. CASE PreviewWaited(f)
  <2>1. /\ fetch[f] = "wait" /\ response # Waiting /\ UNCHANGED <<pending, notes, response, up>>
        /\ fetch'[f] = IF response = Taken THEN "rsync" ELSE "finish"
        /\ unsent' = (unsent \/ response # Taken)
    BY <1>3, <1>10 DEF PreviewWaited, camera, net, TypeOK
  <2>2. CameraRests /\ ~unsent /\ ~sending
    BY <2>1 DEF Flow, OneThread, Working, Asking
  <2>3. OneThread' /\ OneNote'
    BY <1>1, <1>3, <2>1, <2>2 DEF OneThread, OneNote, CameraRests, Working, Fetching, Asking, Ending
  <2>4. QED
    BY <1>3, <1>7, <2>1, <2>3 DEF Flow, Fetching
<1>11. CASE PreviewUpload(f) \/ PreviewFinish(f) \/ PreviewSent(f)
  <2>1. /\ fetch[f] \in Ending /\ fetch'[f] \in {"finish", "sent", "idle"} /\ UNCHANGED <<pending, notes>>
    BY <1>3, <1>11 DEF PreviewUpload, PreviewFinish, PreviewSent, camera, Ending, TypeOK
  <2>2. CameraRests
    BY <2>1 DEF Flow, OneThread
  <2>3. OneThread' /\ OneNote'
    BY <1>1, <1>3, <2>1, <2>2 DEF OneThread, OneNote, CameraRests, Working, Fetching, Asking, Ending
  <2>4. up # <<>> => up' # <<>>
    BY <1>11 DEF PreviewUpload, PreviewFinish, PreviewSent, Write, net, TypeOK
  <2>5. QED
    BY <1>3, <1>7, <2>1, <2>3, <2>4 DEF Flow, Fetching, Ending
<1>12. QED
  BY <1>5, <1>6, <1>8, <1>9, <1>10, <1>11 DEF preview_tasks

\* While the camera has the request, its thread waits or is about to.
LEMMA Asked ==
    ASSUME Flow, pending, ~(notes = 0 /\ shoot = 0 /\ answers = <<>>)
    PROVE  /\ \A f \in Fetch : fetch[f] \in {"idle", "reset", "wait"}
           /\ \A f \in Fetch : fetch[f] = "wait" => response = Waiting
           /\ ~unsent /\ ~sending
<1>1. PICK f \in Fetch : fetch[f] \in Asking
  BY DEF Flow, OneNote
<1>2. fetch[f] \in {"reset", "wait"} /\ (fetch[f] = "wait" => response = Waiting)
  BY <1>1 DEF Flow, OneThread, CameraRests, Asking, Fetching
<1>3. \A g \in Fetch : g # f => fetch[g] = "idle"
  BY <1>1 DEF Flow, OneThread, Asking
<1>4. QED
  BY <1>2, <1>3 DEF Flow, OneThread, CameraRests

\* When it has confirmed nobody but a waiting thread is at work.
LEMMA Taking ==
    ASSUME Flow, ~pending, ~(notes = 0 /\ shoot = 0 /\ answers = <<>>)
    PROVE  /\ \A f \in Fetch : fetch[f] \in {"reset", "wait"} \/ fetch[f] \notin Working \union Ending \union {"notify"}
           /\ \A f \in Fetch : fetch[f] = "wait" => response = Waiting
           /\ ~unsent /\ ~sending
BY DEF Flow, OneThread, CameraRests, Working, Fetching, Asking, Ending

\* The main loop and the answers of the camera program.
LEMMA MainFlow ==
    ASSUME TypeOK, Flow, Calm, Main \/ RecvConfirmed \/ RecvTaken
    PROVE  Flow'
<1>1. UNCHANGED <<row, upd, ini, node, st, down, link, fetch, shoot>>
  BY DEF Main, MainFinish, MainSent, MainNotify, MainCount, RecvConfirmed, RecvTaken, DeviceLeaves, server, net, device,
         camera
<1>2. ASSUME ~Rests, up # <<>> => up' # <<>>,
             pending' = pending \/ up' # <<>> \/ row.status # NoAction, UNCHANGED tmp
      PROVE  OneRequest' /\ OneFile'
  <2>1. row.status = NoAction => up # <<>> \/ pending \/ \E f \in Fetch : fetch[f] \in Fetching
    BY <1>2 DEF Flow, OneRequest
  <2>2. OneRequest'
    BY <1>1, <1>2, <2>1, AtWorkStep
  <2>3. OneFile'
    BY <1>1, <1>2, FileFrame DEF Flow
  <2>4. QED
    BY <2>2, <2>3
<1>3. CASE MainFinish \/ MainSent
  <2>1. /\ (unsent \/ sending) /\ UNCHANGED <<pending, response, notes, answers, tmp>> /\ (up # <<>> => up' # <<>>)
        /\ \/ unsent /\ unsent' = unsent /\ sending' = TRUE
           \/ sending /\ ~unsent' /\ ~sending'
    BY <1>3 DEF MainFinish, MainSent, Write, camera, net, TypeOK
  <2>2. ~Rests /\ CameraRests
    BY <2>1 DEF Flow, OneThread, Rests
  <2>3. OneThread'
    BY <1>1, <2>1, <2>2 DEF Flow, OneThread, CameraRests
  <2>4. OneNote'
    BY <1>1, <2>1, <2>2 DEF OneNote, CameraRests
  <2>5. QED
    BY <1>2, <2>1, <2>2, <2>3, <2>4 DEF Flow
<1>4. CASE MainNotify
  <2>1. /\ pending /\ notes = 0 /\ notes' = 1 /\ answers = <<>> /\ (\A f \in Fetch : fetch[f] # "notify")
        /\ UNCHANGED <<up, answers, pending, response, unsent, sending, tmp>>
    BY <1>4, CalmMeans DEF MainNotify, net, device
  <2>2. shoot = 0 /\ ~Rests /\ ~CameraRests
    BY <2>1 DEF Flow, OneNote, Rests, CameraRests
  <2>3. OneNote'
    BY <1>1, <2>1, <2>2 DEF Flow, OneNote
  <2>4. OneThread'
    BY <1>1, <2>1, <2>2 DEF Flow, OneThread, CameraRests
  <2>5. QED
    BY <1>2, <2>1, <2>2, <2>3, <2>4 DEF Flow
<1>5. CASE MainCount
  <2>1. CameraRests /\ UNCHANGED <<up, unsent, sending, pending, notes, answers, tmp>>
    BY <1>5, CalmMeans DEF MainCount, CameraRests, camera, net
  <2>2. OneThread' /\ OneNote'
    BY <1>1, <2>1 DEF Flow, OneThread, OneNote, CameraRests
  <2>3. OneFile'
    BY <1>1, <2>1, FileFrame DEF Flow
  <2>4. OneRequest'
    BY <1>1, <2>1 DEF Flow, OneRequest, Rests, CameraRests, Unconfirmed
  <2>5. QED
    BY <2>2, <2>3, <2>4 DEF Flow
<1>6. CASE RecvConfirmed
  <2>1. /\ answers # <<>> /\ Head(answers) = "confirmed" /\ answers' = Tail(answers) /\ pending' = FALSE
        /\ UNCHANGED <<notes, response, unsent, sending, tmp>>
        /\ IF link THEN Write("response") ELSE UNCHANGED up
    BY <1>6 DEF RecvConfirmed
  <2>2. /\ pending /\ notes = 0
        /\ answers' = <<>> \/ (shoot = 0 /\ answers' = <<"taken">>)
    BY <2>1, Shapes DEF Flow, OneNote
  <2>3. OneNote'
    BY <1>1, <2>1, <2>2 DEF OneNote
  <2>4. OneThread'
    BY <1>1, <2>1, <2>2, Asked DEF Flow, OneThread, Working, Fetching, Asking, Ending
  <2>5. ~Rests
    BY <2>1 DEF Rests, CameraRests
  <2>6. up' # <<>> \/ row.status # NoAction
    <3>1. row.status = NoAction => link /\ st # "none"
      BY <2>5, AtWork DEF Flow, OneRequest
    <3>2. Append(up, "response") # <<>>
      BY AppendProperties DEF TypeOK, UpMsg
    <3>3. QED
      BY <2>1, <3>1, <3>2 DEF Write
  <2>7. up # <<>> => up' # <<>>
    BY <2>1 DEF Write, TypeOK
  <2>8. QED
    BY <1>2, <2>1, <2>3, <2>4, <2>5, <2>6, <2>7 DEF Flow
<1>7. CASE RecvTaken
  <2>1. /\ answers # <<>> /\ Head(answers) = "taken" /\ answers' = Tail(answers)
        /\ UNCHANGED <<notes, pending, unsent, sending, up, tmp>>
    BY <1>7 DEF RecvTaken, net
  <2>2. ~pending /\ notes = 0 /\ shoot = 0 /\ answers' = <<>>
    BY <2>1, Shapes DEF Flow, OneNote
  <2>3. CameraRests'
    BY <1>1, <2>1, <2>2 DEF CameraRests
  <2>4. OneNote'
    BY <2>3 DEF OneNote, CameraRests
  <2>5. \A f \in Fetch : fetch[f] # "notify"
    BY <2>1 DEF Flow, OneThread
  <2>6. OneThread'
    BY <1>1, <2>1, <2>3, <2>5 DEF Flow, OneThread
  <2>7. ~Rests
    BY <2>1 DEF Rests, CameraRests
  <2>8. QED
    BY <1>2, <2>1, <2>4, <2>6, <2>7 DEF Flow
<1>8. QED
  BY <1>3, <1>4, <1>5, <1>6, <1>7 DEF Main

\* The camera program.
LEMMA CameraFlow ==
    ASSUME TypeOK, Flow, Calm, Camera
    PROVE  Flow'
<1>1. UNCHANGED <<row, upd, ini, node, st, down, up, link, fetch, tmp, pending, response, unsent, sending>>
  BY DEF Camera, CameraConfirms, CameraTakes, CameraDown, CameraLeaves, server, net, device
<1>2. ~Rests => OneRequest' /\ OneFile'
  <2>1. row.status = NoAction /\ ~Rests => up # <<>> \/ pending \/ \E f \in Fetch : fetch[f] \in Fetching
    BY DEF Flow, OneRequest
  <2>2. ~Rests => OneRequest'
    BY <1>1, <2>1, AtWorkStep
  <2>3. OneFile'
    BY <1>1, FileFrame DEF Flow
  <2>4. QED
    BY <2>2, <2>3
<1>3. CASE CameraConfirms
  <2>1. notes > 0 /\ notes' = notes - 1 /\ answers' = Append(answers, "confirmed")
    BY <1>3 DEF CameraConfirms
  <2>2. notes = 1 /\ answers = <<>> /\ pending
    BY <2>1 DEF Flow, OneNote
  <2>3. OneNote'
    BY <1>1, <2>1, <2>2, Shapes DEF Flow, OneNote
  <2>4. OneThread'
    BY <1>1, <2>2, Asked DEF Flow, OneThread, Working, Fetching, Asking, Ending
  <2>5. ~Rests
    BY <2>2 DEF Rests, CameraRests
  <2>6. QED
    BY <1>1, <1>2, <2>3, <2>4, <2>5 DEF Flow
<1>4. CASE CameraTakes
  <2>1. shoot # 0 /\ shoot' = 0 /\ answers' = Append(answers, "taken") /\ notes' = notes
    BY <1>4 DEF CameraTakes
  <2>2. notes = 0 /\ \/ answers = <<"confirmed">> /\ pending
                     \/ answers = <<>> /\ ~pending
    BY <2>1 DEF Flow, OneNote
  <2>3. OneNote'
    BY <1>1, <2>1, <2>2, Shapes DEF Flow, OneNote
  <2>4. OneThread'
    BY <1>1, <2>1, Asked, Taking DEF Flow, OneThread, Working, Fetching, Asking, Ending
  <2>5. ~Rests
    BY <2>1 DEF Rests, CameraRests
  <2>6. QED
    BY <1>1, <1>2, <2>3, <2>4, <2>5 DEF Flow
<1>5. CASE CameraDown
  BY <1>5, CalmMeans DEF CameraDown
<1>6. QED
  BY <1>3, <1>4, <1>5 DEF Camera

\* Every step of a calm behaviour keeps to one request.
LEMMA FlowStep ==
    ASSUME TypeOK, Flow, Calm, [Next]_vars
    PROVE  Flow'
<1>1. CASE RequestPreview \/ Server
  BY <1>1, ServerFlow
<1>2. CASE Device
  BY <1>2, LinksFlow, RequestTaken, ThreadFlow, MainFlow DEF Device
<1>3. CASE Camera
  BY <1>3, CameraFlow
<1>4. CASE UNCHANGED vars
  <2>1. UNCHANGED <<row, upd, ini, st, node, down, up, link, device, camera, fetch, tmp, pending>>
    BY <1>4 DEF vars, server, net, device
  <2>2. OneThread' /\ OneNote' /\ (Rests' <=> Rests)
    BY <2>1, DeviceRestsStep DEF Flow
  <2>3. OneRequest' /\ OneFile'
    BY <2>1, <2>2, FileFrame DEF Flow, OneRequest, Unconfirmed
  <2>4. QED
    BY <2>2, <2>3 DEF Flow
<1>5. QED
  BY <1>1, <1>2, <1>3, <1>4 DEF Next

-----------------------------------------------------------------------------
(* The picture that is shown.                                                *)

\* The initial picture is none.
LEMMA NamedInit == Init => Named
BY Numbers DEF Init, Named, FreshNode, Asking

\* What a step has to keep if it leaves the threads, the camera and the page's picture alone.
LEMMA NamedFrame ==
    ASSUME Named, UNCHANGED <<shown, device, camera, row.sync>>,
           row'.status = Generated => row.status = Generated \/ \E k \in DOMAIN up : up[k] = "action",
           \A k \in DOMAIN up' : \E l \in DOMAIN up : up'[k] = up[l]
    PROVE  Named'
BY DEF Named, device, camera, Asking

\* What is left of the messages were messages.
LEMMA PartsOfUp ==
    ASSUME up \in Seq(UpMsg), up' = <<>> \/ up' = up \/ (up # <<>> /\ up' = Tail(up)) \/ Leave
    PROVE  \A k \in DOMAIN up' : \E l \in DOMAIN up : up'[k] = up[l]
<1>1. CASE up' = <<>>
  BY <1>1
<1>2. CASE up' = up
  BY <1>2
<1>3. CASE up # <<>> /\ up' = Tail(up)
  <2>1. ASSUME NEW k \in DOMAIN up' PROVE \E l \in DOMAIN up : up'[k] = up[l]
    <3>1. /\ Len(up) \in Nat /\ Len(up) > 0 /\ DOMAIN up = 1..Len(up)
          /\ Len(up') = Len(up) - 1 /\ DOMAIN up' = 1..Len(up')
      BY <1>3
    <3>2. k \in 1..Len(up') /\ k + 1 \in 1..Len(up)
      BY <2>1, <3>1
    <3>3. up'[k] = up[k + 1]
      BY <1>3, <3>2, HeadTailProperties
    <3>4. QED
      BY <3>1, <3>2, <3>3
  <2>2. QED
    BY <2>1
<1>4. CASE Leave
  <2>1. PICK n \in 0..Len(up) : up' = SubSeq(up, 1, n)
    BY <1>4 DEF Leave
  <2>2. Len(up) \in Nat /\ DOMAIN up = 1..Len(up)
    OBVIOUS
  <2>3. DOMAIN up' = 1..n /\ \A k \in 1..n : up'[k] = up[k]
    <3>1. n \in Nat /\ n <= Len(up)
      BY <2>2
    <3>2. /\ SubSeq(up, 1, n) \in Seq(UpMsg)
          /\ Len(SubSeq(up, 1, n)) = IF 1 <= n THEN n - 1 + 1 ELSE 0
          /\ \A k \in 1..n : SubSeq(up, 1, n)[k] = up[1 + k - 1]
      BY ONLY <2>2, <3>1, up \in Seq(UpMsg), SubSeqProperties
    <3>3. Len(up') = n /\ DOMAIN up' = 1..Len(up')
      BY <2>1, <3>1, <3>2
    <3>4. \A k \in 1..n : up'[k] = up[k]
      BY <2>1, <3>1, <3>2
    <3>5. QED
      BY <3>3, <3>4
  <2>4. \A k \in 1..n : k \in 1..Len(up)
    BY <2>2
  <2>5. QED
    BY <2>2, <2>3, <2>4
<1>5. QED
  BY <1>1, <1>2, <1>3, <1>4

\* The web page and the server.
LEMMA ServerNamed ==
    ASSUME TypeOK, Flow, Named, Calm, RequestPreview \/ Server
    PROVE  Named'
<1>1. /\ row \in [sync : Seqs, synced : Seqs, status : NoAction..Failed]
      /\ up \in Seq(UpMsg)
  BY DEF TypeOK
<1>2. UNCHANGED <<device, camera>>
  BY DEF RequestPreview, Server, UpdatePreview, cnm_client_update_preview_seq,
         send_preview_to_client, SyncTimeout, Receive, RecvBeat, RecvResponse, RecvAction, RecvFail, Take,
         _cnm_client_del, ServerRestart, ServerLeaves
<1>3. CASE RequestPreview
  <2>1. up = <<>> /\ Rests
    BY <1>3, RequestRests
  <2>2. row'.status = NoAction /\ UNCHANGED up
    BY <1>1, <1>3 DEF RequestPreview, net
  <2>3. UNCHANGED <<fetch, unsent>>
    BY <1>2 DEF device
  <2>4. QED
    BY <2>1, <2>2, <2>3, Numbers DEF Named, Rests, Asking
<1>4. CASE \/ UpdatePreview \/ cnm_client_update_preview_seq
           \/ send_preview_to_client \/ SyncTimeout \/ RecvBeat
  <2>1. UNCHANGED <<shown, row, up>>
    BY <1>4 DEF UpdatePreview, cnm_client_update_preview_seq, send_preview_to_client, SyncTimeout, RecvBeat,
                ServerLeaves, net
  <2>2. QED
    BY <1>2, <2>1, NamedFrame
<1>5. CASE RecvResponse \/ RecvAction \/ RecvFail
  <2>1. /\ UNCHANGED <<shown, row.sync>>
        /\ up # <<>> /\ up' = Tail(up)
        /\ row'.status # Generated \/ Head(up) = "action"
    BY <1>1, <1>5, Numbers DEF RecvResponse, RecvAction, RecvFail, Take, ServerLeaves
  <2>2. row'.status = Generated => \E k \in DOMAIN up : up[k] = "action"
    <3>1. 1 \in DOMAIN up /\ Head(up) = up[1]
      BY <1>1, <2>1
    <3>2. QED
      BY <2>1, <3>1
  <2>3. QED
    BY <1>1, <1>2, <2>1, <2>2, PartsOfUp, NamedFrame
<1>6. CASE _cnm_client_del \/ ServerRestart
  <2>1. UNCHANGED <<shown, row>> /\ up' = <<>>
    BY <1>6 DEF _cnm_client_del, ServerRestart, ServerLeaves
  <2>2. QED
    BY <1>1, <1>2, <2>1, PartsOfUp, NamedFrame
<1>7. QED
  BY <1>3, <1>4, <1>5, <1>6 DEF Server, Receive

\* Links, restarts and requests that come down.
LEMMA LinksNamed ==
    ASSUME TypeOK, Flow, Named, Calm, Connect \/ LinkDown \/ ClientRestart \/ \E f \in Fetch : RecvRequest(f)
    PROVE  Named'
<1>1. up \in Seq(UpMsg) /\ fetch \in [Fetch -> States]
  BY DEF TypeOK, States
<1>2. CASE Connect
  <2>1. UNCHANGED <<row, shown, up, device, camera>>
    BY <1>2 DEF Connect
  <2>2. QED
    BY <2>1, NamedFrame
<1>3. CASE LinkDown
  <2>1. UNCHANGED <<row, shown, device, camera>> /\ Leave
    BY <1>3 DEF LinkDown
  <2>2. QED
    BY <1>1, <2>1, PartsOfUp, NamedFrame
<1>4. CASE ClientRestart
  <2>1. /\ UNCHANGED <<row, shown>> /\ Leave
        /\ \A f \in Fetch : fetch'[f] = "idle"
        /\ ~unsent'
    BY <1>4 DEF ClientRestart
  <2>2. \A k \in DOMAIN up' : \E l \in DOMAIN up : up'[k] = up[l]
    BY <1>1, <2>1, PartsOfUp
  <2>3. QED
    BY <2>1, <2>2 DEF Named, Asking
<1>5. ASSUME NEW f \in Fetch, RecvRequest(f) PROVE Named'
  <2>1. /\ fetch' = [fetch EXCEPT ![f] = "rm"]
        /\ UNCHANGED <<row, shown, up, got, shoot, answers, jpeg, response, unsent>>
    BY <1>5 DEF RecvRequest, DeviceLeaves, camera
  <2>2. \A g \in Fetch : fetch'[g] = IF g = f THEN "rm" ELSE fetch[g]
    BY <1>1, <2>1
  <2>3. QED
    BY <2>1, <2>2 DEF Named, Asking
<1>6. QED
  BY <1>2, <1>3, <1>4, <1>5

\* What is written last is the result of the picture that is shown, or none.
LEMMA WriteNamed ==
    ASSUME up \in Seq(UpMsg), NEW m, Write(m) \/ UNCHANGED up, m = "action" => shown = row.sync,
           \A k \in DOMAIN up : up[k] = "action" => shown = row.sync
    PROVE  \A k \in DOMAIN up' : up'[k] = "action" => shown = row.sync
<1>1. CASE up' = Append(up, m)
  BY <1>1
<1>2. CASE up' = up
  BY <1>2
<1>3. QED
  BY <1>1, <1>2 DEF Write

\* The thread that works on a request.
LEMMA ThreadNamed ==
    ASSUME TypeOK, Flow, Named, Calm, NEW f \in Fetch, preview_tasks(f)
    PROVE  Named'
<1>1. UNCHANGED <<row, shoot, answers>>
  BY DEF preview_tasks, PreviewRm, PreviewWget, PreviewAccess, PreviewMv, PreviewNotify,
         PreviewReset, PreviewWaited, PreviewUpload, PreviewFinish, PreviewSent, DeviceLeaves, server, net, camera
<1>2. PICK p : fetch[f] # "idle" /\ fetch' = [fetch EXCEPT ![f] = p]
  BY DEF preview_tasks, PreviewRm, PreviewWget, PreviewAccess, PreviewMv, PreviewNotify,
         PreviewReset, PreviewWaited, PreviewUpload, PreviewFinish, PreviewSent
<1>3. ~Rests /\ fetch'[f] = p /\ \A g \in Fetch : g # f => fetch[g] = "idle" /\ fetch'[g] = "idle"
  BY <1>2, Alone
<1>4. up \in Seq(UpMsg)
  BY DEF TypeOK
<1>5. CASE PreviewRm(f) \/ PreviewWget(f) \/ PreviewAccess(f)
  <2>1. /\ fetch[f] \in Fetching /\ UNCHANGED <<shown, up, jpeg, unsent, got, response>>
        /\ fetch'[f] \in Fetching \/ (fetch[f] = "access" /\ tmp = 0)
    BY <1>3, <1>5 DEF PreviewRm, PreviewWget, PreviewAccess, Fetching, camera, net, TypeOK
  <2>2. row.sync # 0
    BY <1>3, AtWork
  <2>3. fetch'[f] \in Fetching
    BY <2>1, <2>2 DEF Flow, OneFile
  <2>4. QED
    BY <1>1, <1>3, <2>1, <2>3 DEF Named, Asking, Fetching
<1>6. CASE PreviewMv(f)
  <2>1. /\ fetch[f] = "mv" /\ fetch'[f] = "notify" /\ response' = Waiting
        /\ got' = IF tmp = 0 THEN got ELSE tmp
        /\ UNCHANGED <<shown, up, jpeg, unsent>>
    BY <1>3, <1>6 DEF PreviewMv, camera, net, TypeOK
  <2>2. shoot = 0 /\ answers = <<>>
    BY <2>1 DEF Flow, OneThread, CameraRests, Fetching
  <2>3. row.sync # 0
    BY <1>3, AtWork
  <2>4. got' = row.sync
    BY <2>1, <2>3 DEF Flow, OneFile
  <2>5. QED
    BY <1>1, <1>3, <2>1, <2>2, <2>4, Numbers DEF Named, Asking
<1>7. CASE PreviewNotify(f) \/ PreviewReset(f)
  <2>1. /\ fetch[f] \in Asking /\ fetch'[f] \in {"reset", "wait"} /\ UNCHANGED <<shown, up, jpeg, unsent, got>>
        /\ response' = Waiting \/ (response' = response /\ fetch'[f] # "wait")
    BY <1>3, <1>7 DEF PreviewNotify, PreviewReset, camera, net, Asking, TypeOK
  <2>2. QED
    BY <1>1, <1>3, <2>1, Numbers DEF Named, Asking
<1>8. CASE PreviewWaited(f)
  <2>1. /\ fetch[f] = "wait" /\ UNCHANGED <<shown, up, jpeg, response, got>>
        /\ fetch'[f] = IF response = Taken THEN "rsync" ELSE "finish"
        /\ unsent' = (unsent \/ response # Taken)
    BY <1>3, <1>8 DEF PreviewWaited, camera, net, TypeOK
  <2>2. QED
    BY <1>1, <1>3, <2>1 DEF Named, Asking
<1>9. CASE PreviewUpload(f)
  <2>1. /\ fetch[f] = "rsync" /\ fetch'[f] = "finish" /\ UNCHANGED <<up, got>>
        /\ \/ shown' = jpeg
           \/ response' = TimedOut /\ shown' = shown
    BY <1>3, <1>9 DEF PreviewUpload, net, TypeOK
  <2>2. jpeg = row.sync
    BY <2>1 DEF Named
  <2>3. QED
    BY <1>1, <1>3, <2>1, <2>2, Numbers DEF Named, Asking
<1>10. CASE PreviewFinish(f)
  <2>1. /\ fetch[f] = "finish" /\ fetch'[f] \in {"sent", "idle"} /\ UNCHANGED <<shown, jpeg, response, unsent, got>>
        /\ (unsent /\ Write(Result)) \/ UNCHANGED up
    BY <1>3, <1>10 DEF PreviewFinish, camera, TypeOK
  <2>2. \A k \in DOMAIN up' : up'[k] = "action" => shown = row.sync
    <3>1. unsent /\ Result = "action" => shown = row.sync
      BY DEF Result, Named
    <3>2. QED
      BY <1>4, <2>1, <3>1, WriteNamed DEF Named
  <2>3. QED
    BY <1>1, <1>3, <2>1, <2>2 DEF Named, Asking
<1>11. CASE PreviewSent(f)
  <2>1. fetch'[f] = "idle" /\ ~unsent' /\ UNCHANGED <<shown, jpeg, response, got, up>>
    BY <1>3, <1>11 DEF PreviewSent, camera, net, TypeOK
  <2>2. QED
    BY <1>1, <1>3, <2>1 DEF Named, Asking
<1>12. QED
  BY <1>5, <1>6, <1>7, <1>8, <1>9, <1>10, <1>11 DEF preview_tasks

\* The main loop and the answers of the camera program.
LEMMA MainNamed ==
    ASSUME TypeOK, Flow, Named, Calm, Main \/ RecvConfirmed \/ RecvTaken
    PROVE  Named'
<1>1. UNCHANGED <<row, shown, fetch, got, shoot, jpeg>>
  BY DEF Main, MainFinish, MainSent, MainNotify, MainCount, RecvConfirmed, RecvTaken, DeviceLeaves, server, net, device,
         camera
<1>2. up \in Seq(UpMsg) /\ answers \in Seq(Answer)
  BY DEF TypeOK
<1>3. \A k \in DOMAIN up' : up'[k] = "action" => shown = row.sync
  <2>1. (unsent /\ Write(Result)) \/ Write("response") \/ UNCHANGED up
    BY DEF Main, MainFinish, MainSent, MainNotify, MainCount, RecvConfirmed, RecvTaken, net
  <2>2. unsent /\ Result = "action" => shown = row.sync
    BY DEF Result, Named
  <2>3. CASE (unsent /\ Write(Result)) \/ UNCHANGED up
    BY <1>2, <2>2, <2>3, WriteNamed DEF Named
  <2>4. CASE Write("response")
    BY <1>2, <2>4, WriteNamed DEF Named
  <2>5. QED
    BY <2>1, <2>3, <2>4
<1>4. CASE Main
  <2>1. UNCHANGED answers /\ (UNCHANGED response \/ response' = TimedOut) /\ (~unsent' \/ UNCHANGED unsent)
    BY <1>4 DEF Main, MainFinish, MainSent, MainNotify, MainCount, device, camera
  <2>2. (response' = Taken => response = Taken) /\ (unsent' => unsent)
    BY <2>1, Numbers DEF TimedOut, Taken
  <2>3. QED
    BY <1>1, <1>3, <2>1, <2>2 DEF Named, Asking
<1>5. CASE RecvConfirmed
  <2>1. answers # <<>> /\ answers' = Tail(answers) /\ UNCHANGED <<response, unsent>>
    BY <1>5 DEF RecvConfirmed
  <2>2. (\E k \in DOMAIN answers' : answers'[k] = "taken") => \E k \in DOMAIN answers : answers[k] = "taken"
    BY <2>1, Shapes DEF Flow, OneNote
  <2>3. \A f \in Fetch : fetch'[f] \in Asking /\ (\E k \in DOMAIN answers' : answers'[k] = "taken")
                           => jpeg' = row'.sync
    BY <1>1, <2>2 DEF Named
  <2>4. QED
    BY <1>1, <1>3, <2>1, <2>3 DEF Named
<1>6. CASE RecvTaken
  <2>1. answers # <<>> /\ Head(answers) = "taken" /\ answers' = Tail(answers) /\ UNCHANGED <<pending, unsent>>
    BY <1>6 DEF RecvTaken
  <2>2. ~pending /\ answers = <<"taken">> /\ answers' = <<>>
    BY <2>1, Shapes DEF Flow, OneNote
  <2>3. ~unsent
    BY <2>2, Shapes, Taking
  <2>4. 1 \in DOMAIN answers /\ answers[1] = "taken"
    BY <2>2
  <2>5. QED
    BY <1>1, <1>3, <2>1, <2>2, <2>3, <2>4 DEF Named, Asking
<1>7. QED
  BY <1>4, <1>5, <1>6

\* The camera program.
LEMMA CameraNamed ==
    ASSUME TypeOK, Flow, Named, Calm, Camera
    PROVE  Named'
<1>1. UNCHANGED <<row, shown, up, fetch, got, response, unsent>>
  BY DEF Camera, CameraConfirms, CameraTakes, CameraDown, CameraLeaves, server, net, device
<1>2. CASE CameraConfirms
  <2>1. notes > 0 /\ shoot' = got /\ answers' = Append(answers, "confirmed") /\ jpeg' = jpeg
    BY <1>2 DEF CameraConfirms
  <2>2. answers = <<>> /\ answers' = <<"confirmed">>
    <3>1. notes # 0
      BY <2>1
    <3>2. answers = <<>>
      BY <3>1 DEF Flow, OneNote
    <3>3. QED
      BY <2>1, <3>2
  <2>3. \A k \in DOMAIN answers' : answers'[k] # "taken"
    BY <2>2
  <2>4. QED
    BY <1>1, <2>1, <2>3 DEF Named
<1>3. CASE CameraTakes
  <2>1. shoot # 0 /\ shoot' = 0 /\ jpeg' = shoot
    BY <1>3 DEF CameraTakes
  <2>2. /\ \A f \in Fetch : fetch[f] # "rsync"
        /\ \A f \in Fetch : fetch[f] = "wait" => response = Waiting
    BY <2>1, Asked, Taking DEF Ending
  <2>3. QED
    BY <1>1, <2>1, <2>2, Numbers DEF Named, Asking
<1>4. CASE CameraDown
  BY <1>4, CalmMeans DEF CameraDown
<1>5. QED
  BY <1>2, <1>3, <1>4 DEF Camera

\* Every step of a calm behaviour keeps the names.
LEMMA NamedStep ==
    ASSUME TypeOK, Flow, Named, Calm, [Next]_vars
    PROVE  Named'
<1>1. CASE RequestPreview \/ Server
  BY <1>1, ServerNamed
<1>2. CASE Device
  BY <1>2, LinksNamed, ThreadNamed, MainNamed DEF Device
<1>3. CASE Camera
  BY <1>3, CameraNamed
<1>4. CASE UNCHANGED vars
  <2>1. UNCHANGED <<row, shown, up, fetch, got, shoot, answers, jpeg, response, unsent>>
    BY <1>4 DEF vars, server, net, device, camera
  <2>2. QED
    BY <2>1 DEF Named
<1>5. QED
  BY <1>1, <1>2, <1>3, <1>4 DEF Next

-----------------------------------------------------------------------------
(* The result that is still to come.                                         *)

\* What does not happen in a safe setup.
LEMMA SafeMeans == Safe => Calm /\ ~May("loss") /\ ~May("restart")
BY DEF Safe, Calm, May

\* At the start nothing is generated.
LEMMA AnsweringInit == Init => Answering
BY Numbers DEF Init, Answering, Said, Answered

\* A step keeps that a result is to come if it leaves what was said last.
LEMMA AnsweringFrame ==
    ASSUME Answering, Answered' <=> Answered, Said' => Said, Works => Works',
           link' => st' # "none"
    PROVE  Answering'
BY DEF Answering

\* So does a step that leaves the threads, the messages and the row's status.
LEMMA AnsweringRests ==
    ASSUME Answering, UNCHANGED <<row.status, up, fetch, unsent, sending>>, link' => st' # "none"
    PROVE  Answering'
BY AnsweringFrame DEF Answered, Said, Works

\* A message that is taken leaves what was said last, or is what the row says then.
LEMMA TakeAnswered ==
    ASSUME up \in Seq(UpMsg), up # <<>>, up' = Tail(up), row'.status = Generating <=> Head(up) = "response"
    PROVE  Answered' <=> Answered
<1>1. /\ Len(up) \in Nat /\ Len(up) > 0 /\ Head(up) = up[1]
      /\ Len(up') = Len(up) - 1 /\ up' \in Seq(UpMsg)
  OBVIOUS
<1>2. CASE Len(up) = 1
  <2>1. Len(up') = 0
    BY <1>1, <1>2
  <2>2. up' = <<>>
    BY <1>1, <2>1, EmptySeq
  <2>3. up[Len(up)] = Head(up)
    BY <1>1, <1>2
  <2>4. QED
    BY <2>2, <2>3 DEF Answered
<1>3. CASE Len(up) > 1
  <2>1. Len(up') \in 1..Len(Tail(up)) /\ Len(up') + 1 = Len(up)
    BY <1>1, <1>3
  <2>2. up'[Len(up')] = up[Len(up') + 1]
    BY <2>1, HeadTailProperties
  <2>3. up' # <<>>
    <3>1. Len(up') # 0
      BY <1>1, <1>3
    <3>2. QED
      BY <3>1
  <2>4. QED
    BY <2>1, <2>2, <2>3 DEF Answered
<1>4. QED
  BY <1>1, <1>2, <1>3

\* A message that is written is what was said last.
LEMMA WriteAnswered ==
    ASSUME up \in Seq(UpMsg), NEW m \in UpMsg, Write(m), st # "none"
    PROVE  Answered' <=> m # "response"
<1>1. up' = Append(up, m)
  BY DEF Write
<1>2. up' # <<>> /\ up'[Len(up')] = m
  BY <1>1, AppendProperties
<1>3. QED
  BY <1>2 DEF Answered

\* The web page and the server.
LEMMA ServerAnswering ==
    ASSUME TypeOK, Flow, Safe, Answering, RequestPreview \/ Server
    PROVE  Answering'
<1>1. up \in Seq(UpMsg) /\ row \in [sync : Seqs, synced : Seqs, status : NoAction..Failed]
  BY DEF TypeOK
<1>2. UNCHANGED <<fetch, unsent, sending, link>>
  BY DEF RequestPreview, Server, UpdatePreview, cnm_client_update_preview_seq,
         send_preview_to_client, SyncTimeout, Receive, RecvBeat, RecvResponse, RecvAction, RecvFail, Take,
         _cnm_client_del, ServerRestart, ServerLeaves, net, device
<1>3. CASE RequestPreview
  <2>1. up = <<>> /\ Rests
    BY <1>3, RequestRests, SafeMeans
  <2>2. row'.status = NoAction /\ up' = up /\ st' = st
    BY <1>1, <1>3 DEF RequestPreview, server, net
  <2>3. Answered' /\ ~Said'
    BY <1>2, <2>1, <2>2, Numbers DEF Answered, Said, Rests
  <2>4. QED
    BY <1>2, <2>2, <2>3 DEF Answering
<1>4. CASE \/ UpdatePreview \/ cnm_client_update_preview_seq
           \/ send_preview_to_client \/ SyncTimeout
  <2>1. UNCHANGED <<row, up, st>>
    BY <1>4 DEF UpdatePreview, cnm_client_update_preview_seq,
                send_preview_to_client, SyncTimeout, server, net
  <2>2. QED
    BY <1>2, <2>1, AnsweringRests DEF Answering
<1>5. CASE RecvBeat
  <2>1. UNCHANGED <<row, up>> /\ st' = "keyed"
    BY <1>5 DEF RecvBeat
  <2>2. QED
    BY <1>2, <2>1, AnsweringRests
<1>6. CASE RecvResponse \/ RecvAction \/ RecvFail
  <2>1. /\ up # <<>> /\ up' = Tail(up) /\ st' = "keyed"
        /\ row'.status = Generating <=> Head(up) = "response"
    BY <1>1, <1>6, Numbers DEF RecvResponse, RecvAction, RecvFail, Take
  <2>2. Answered' <=> Answered
    BY <1>1, <2>1, TakeAnswered
  <2>3. QED
    BY <1>2, <2>1, <2>2, AnsweringFrame DEF Said, Works
<1>7. CASE _cnm_client_del
  <2>1. ~link /\ up = <<>> /\ up' = <<>> /\ row' = row
    BY <1>7, SafeMeans DEF _cnm_client_del
  <2>2. QED
    BY <1>2, <2>1, AnsweringRests
<1>8. CASE ServerRestart
  BY <1>8, SafeMeans DEF ServerRestart
<1>9. QED
  BY <1>3, <1>4, <1>5, <1>6, <1>7, <1>8 DEF Server, Receive

\* Links, restarts and requests that come down.
LEMMA LinksAnswering ==
    ASSUME TypeOK, Safe, Answering, Connect \/ LinkDown \/ ClientRestart \/ \E f \in Fetch : RecvRequest(f)
    PROVE  Answering'
<1>1. NetTypes /\ fetch \in [Fetch -> States]
  BY TypeParts DEF Types, TypeOK, States
<1>2. CASE Connect
  <2>1. UNCHANGED <<row, up, fetch, unsent, sending>> /\ st' = "anon"
    BY <1>2 DEF Connect, device
  <2>2. QED
    BY <2>1, AnsweringRests
<1>3. CASE LinkDown
  <2>1. UNCHANGED <<row, fetch, unsent, sending>> /\ Leave /\ up = <<>> /\ ~link'
    BY <1>3, SafeMeans DEF LinkDown, Leave, Answering, device
  <2>2. up' = up
    BY <1>1, <2>1, NothingLeft
  <2>3. QED
    BY <2>1, <2>2, AnsweringRests
<1>4. CASE ClientRestart
  BY <1>4, SafeMeans DEF ClientRestart
<1>5. ASSUME NEW f \in Fetch, RecvRequest(f) PROVE Answering'
  <2>1. UNCHANGED <<row, up, unsent, sending, link, st>> /\ fetch' = [fetch EXCEPT ![f] = "rm"]
    BY <1>5 DEF RecvRequest, DeviceLeaves, server
  <2>2. \A g \in Fetch : fetch'[g] = IF g = f THEN "rm" ELSE fetch[g]
    BY <1>1, <2>1
  <2>3. (Answered' <=> Answered) /\ (Said' => Said) /\ Works'
    BY <2>1, <2>2 DEF Answered, Said, Works
  <2>4. QED
    BY <2>1, <2>3, AnsweringFrame DEF Answering
<1>6. QED
  BY <1>2, <1>3, <1>4, <1>5

\* The thread that works on a request.
LEMMA ThreadAnswering ==
    ASSUME TypeOK, Flow, Safe, Answering, NEW f \in Fetch, preview_tasks(f)
    PROVE  Answering'
<1>1. UNCHANGED <<row, st, link, sending>>
  BY DEF preview_tasks, PreviewRm, PreviewWget, PreviewAccess, PreviewMv, PreviewNotify,
         PreviewReset, PreviewWaited, PreviewUpload, PreviewFinish, PreviewSent, DeviceLeaves, server, net
<1>2. PICK p : fetch[f] # "idle" /\ fetch' = [fetch EXCEPT ![f] = p]
  BY DEF preview_tasks, PreviewRm, PreviewWget, PreviewAccess, PreviewMv, PreviewNotify,
         PreviewReset, PreviewWaited, PreviewUpload, PreviewFinish, PreviewSent
<1>3. fetch'[f] = p /\ \A g \in Fetch : g # f => fetch[g] = "idle" /\ fetch'[g] = "idle"
  BY <1>2, Alone
<1>4. up \in Seq(UpMsg)
  BY DEF TypeOK
<1>5. CASE \/ PreviewRm(f) \/ PreviewWget(f) \/ PreviewAccess(f) \/ PreviewMv(f)
           \/ PreviewNotify(f) \/ PreviewReset(f)
  <2>1. fetch'[f] \in {"wget", "access", "mv"} \union Asking /\ UNCHANGED <<up, unsent>>
    BY <1>3, <1>5 DEF PreviewRm, PreviewWget, PreviewAccess, PreviewMv, PreviewNotify, PreviewReset,
                      Asking, net, TypeOK
  <2>2. (Answered' <=> Answered) /\ (Said' => Said) /\ Works'
    BY <1>1, <1>3, <2>1 DEF Answered, Said, Works, Asking
  <2>3. QED
    BY <1>1, <2>2, AnsweringFrame DEF Answering
<1>6. CASE PreviewWaited(f) \/ PreviewUpload(f)
  <2>1. up' = up /\ (fetch'[f] = "rsync" \/ (fetch'[f] = "finish" /\ unsent'))
    BY <1>3, <1>6 DEF PreviewWaited, PreviewUpload, net, TypeOK
  <2>2. (Answered' <=> Answered) /\ (Said' => Said) /\ Works'
    BY <1>1, <1>3, <2>1 DEF Answered, Said, Works
  <2>3. QED
    BY <1>1, <2>2, AnsweringFrame DEF Answering
<1>7. CASE PreviewFinish(f) /\ unsent /\ link
  <2>1. Write(Result) /\ st # "none"
    BY <1>7 DEF PreviewFinish, Answering
  <2>2. Answered'
    BY <1>4, <2>1, WriteAnswered, ResultIsMessage
  <2>3. QED
    BY <1>1, <2>2 DEF Answering
<1>8. CASE PreviewFinish(f) /\ ~(unsent /\ link)
  <2>1. UNCHANGED <<up, unsent>> /\ fetch[f] = "finish" /\ fetch'[f] = "idle"
    BY <1>3, <1>8 DEF PreviewFinish, TypeOK
  <2>2. (Answered' <=> Answered) /\ (Said' => Said)
    BY <1>1, <1>3, <2>1 DEF Answered, Said
  <2>3. unsent => Works'
    BY <2>1 DEF Works
  <2>4. ~unsent => Said
    BY <2>1 DEF Said
  <2>5. QED
    BY <1>1, <2>2, <2>3, <2>4 DEF Answering
<1>9. CASE PreviewSent(f)
  <2>1. up' = up /\ Said
    BY <1>9 DEF PreviewSent, Said, net
  <2>2. Answered'
    BY <1>1, <2>1 DEF Answered, Answering
  <2>3. QED
    BY <1>1, <2>2 DEF Answering
<1>10. QED
  BY <1>5, <1>6, <1>7, <1>8, <1>9 DEF preview_tasks

\* The main loop and the answers of the camera program.
LEMMA MainAnswering ==
    ASSUME TypeOK, Flow, Safe, Answering, Main \/ RecvConfirmed \/ RecvTaken
    PROVE  Answering'
<1>1. UNCHANGED <<row, st, link, fetch>>
  BY DEF Main, MainFinish, MainSent, MainNotify, MainCount, RecvConfirmed, RecvTaken, DeviceLeaves, server, net, device
<1>2. up \in Seq(UpMsg)
  BY DEF TypeOK
<1>3. CASE MainFinish
  <2>1. Write(Result) /\ st # "none"
    BY <1>3 DEF MainFinish, Answering
  <2>2. Answered'
    BY <1>2, <2>1, WriteAnswered, ResultIsMessage
  <2>3. QED
    BY <1>1, <2>2 DEF Answering
<1>4. CASE MainSent
  <2>1. up' = up /\ Said
    BY <1>4 DEF MainSent, Said, net
  <2>2. Answered'
    BY <1>1, <2>1 DEF Answered, Answering
  <2>3. QED
    BY <1>1, <2>2 DEF Answering
<1>5. CASE MainNotify \/ MainCount \/ RecvTaken \/ (RecvConfirmed /\ ~link)
  <2>1. UNCHANGED <<up, unsent, sending>>
    BY <1>5 DEF MainNotify, MainCount, RecvTaken, RecvConfirmed, net, device
  <2>2. QED
    BY <1>1, <2>1, AnsweringRests DEF Answering
<1>6. CASE RecvConfirmed /\ link
  <2>1. answers # <<>> /\ Head(answers) = "confirmed" /\ Write("response") /\ UNCHANGED <<unsent, sending>>
    BY <1>6 DEF RecvConfirmed
  <2>2. pending
    BY <2>1, Shapes DEF Flow, OneNote
  <2>3. (\A f \in Fetch : fetch[f] \in {"idle", "reset", "wait"}) /\ ~unsent /\ ~sending
    BY <2>1, <2>2, Asked
  <2>4. \E f \in Fetch : fetch[f] \in Asking
    BY <2>2 DEF Flow, OneNote
  <2>5. ~Said' /\ Works'
    BY <1>1, <2>1, <2>3, <2>4 DEF Said, Works, Asking
  <2>6. QED
    BY <1>1, <1>6, <2>5 DEF Answering
<1>7. QED
  BY <1>3, <1>4, <1>5, <1>6 DEF Main

\* Every step of a safe behaviour keeps that a result is to come.
LEMMA AnsweringStep ==
    ASSUME TypeOK, Flow, Safe, Answering, [Next]_vars
    PROVE  Answering'
<1>1. CASE RequestPreview \/ Server
  BY <1>1, ServerAnswering
<1>2. CASE Device
  BY <1>2, LinksAnswering, ThreadAnswering, MainAnswering DEF Device
<1>3. CASE Camera \/ UNCHANGED vars
  <2>1. UNCHANGED <<row, up, fetch, unsent, sending, link, st>>
    BY <1>3 DEF Camera, CameraConfirms, CameraTakes, CameraDown, CameraLeaves, vars, server, net, device
  <2>2. QED
    BY <2>1, AnsweringRests DEF Answering
<1>4. QED
  BY <1>1, <1>2, <1>3 DEF Next

-----------------------------------------------------------------------------
(* The theorems.                                                             *)

\* The invariant holds in every setup.
LEMMA PreviewInvHolds == Spec => []PreviewInv
<1> DEFINE Known == setup \in Setups
<1>1. Init => Known /\ PreviewInv
  BY TypeInit, FlowInit, NamedInit, AnsweringInit DEF Init, PreviewInv
<1>2. ASSUME Known, PreviewInv, [Next /\ UNCHANGED setup]_<<vars, setup>> PROVE Known' /\ PreviewInv'
  <2>1. [Next]_vars /\ (Calm' <=> Calm) /\ (Safe' <=> Safe)
    BY <1>2 DEF Calm, Safe
  <2>2. Calm => Flow' /\ Named'
    BY <1>2, <2>1, FlowStep, NamedStep DEF PreviewInv
  <2>3. Safe => Answering'
    BY <1>2, <2>1, AnsweringStep, SafeMeans DEF PreviewInv
  <2>4. Known' /\ TypeOK'
    BY <1>2, <2>1, TypeStep DEF PreviewInv
  <2>5. QED
    BY <2>1, <2>2, <2>3, <2>4 DEF PreviewInv
<1> HIDE DEF Known
<1>3. QED
  BY <1>1, <1>2, PTL DEF Spec

\* When the row says that the preview is generated, the picture that is shown is the
\* one asked for last: over links and requests that are lost, and made again, and over
\* a restarted server or device, as long as none of it falls between the device's taking
\* a request and the row's recording that it has.
THEOREM GeneratedIsShownHolds == Spec => []GeneratedIsShown
<1>1. PreviewInv => GeneratedIsShown
  BY DEF PreviewInv, Calm, Named, GeneratedIsShown, Happens
<1>2. QED
  BY <1>1, PreviewInvHolds, PTL

\* As long as the row says that the preview is being generated, a thread works on it
\* or its result is on the way, over links that end between messages and after the
\* request was confirmed.
THEOREM GeneratingIsTrueHolds == Spec => []GeneratingIsTrue
<1>1. ASSUME PreviewInv, Safe, row.status = Generating PROVE ResultComes
  <2>1. Answering /\ up \in Seq(UpMsg)
    BY <1>1 DEF PreviewInv, TypeOK
  <2>2. CASE Answered
    <3>1. up # <<>> /\ up[Len(up)] # "response"
      BY <1>1, <2>2 DEF Answered
    <3>2. Len(up) \in 1..Len(up)
      BY <2>1, <3>1
    <3>3. up[Len(up)] \in UpMsg
      BY <2>1, <3>2
    <3>4. up[Len(up)] \in {"action", "fail"}
      BY <3>1, <3>3 DEF UpMsg
    <3>5. QED
      BY <3>2, <3>4 DEF ResultComes
  <2>3. CASE ~Answered
    BY <2>1, <2>3 DEF Answering, Works, ResultComes
  <2>4. QED
    BY <2>2, <2>3
<1>2. PreviewInv => GeneratingIsTrue
  BY <1>1 DEF GeneratingIsTrue, Happens, Safe
<1>3. QED
  BY <1>2, PreviewInvHolds, PTL

-----------------------------------------------------------------------------
(* What Preview inherits from SettingPush.                                  *)

Promise == INSTANCE SettingPushProofs WITH
    Reset <- FALSE, asked <- row.sync, recorded <- row.synced, carried <- Copies

\* Every number that the server has a copy of is the number of a request of the page, and
\* a request for a preview that was overtaken, and of which no copy is left, is never made
\* of a device, or recorded, again.
THEOREM OvertakenRequestsStayLost ==
    Spec => []Promise!NumbersWereAsked /\ Promise!OvertakenStaysLost
<1>1. Promise!Spec => []Promise!NumbersWereAsked
  BY Promise!NumbersWereAskedHolds
<1>2. Promise!Spec => Promise!OvertakenStaysLost
  BY Promise!OvertakenStaysLostHolds
<1>3. Pushed!Init => Promise!Init
  BY DEF Pushed!Init, Promise!Init
<1>4. [Pushed!Next]_(Pushed!vars) => [Promise!Next]_(Promise!vars)
  BY DEF Pushed!Next, Pushed!vars, Pushed!Ask, Pushed!Carry, Pushed!Drop, Pushed!Record,
         Promise!Next, Promise!vars, Promise!Ask, Promise!Carry, Promise!Drop, Promise!Record
<1>5. QED
  BY <1>1, <1>2, <1>3, <1>4, ImplementsSettingPushHolds, PTL
     DEF ImplementsSettingPush, Pushed!Spec, Promise!Spec

=============================================================================
