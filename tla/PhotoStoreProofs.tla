--------------------------- MODULE PhotoStoreProofs ---------------------------
(* Proofs about PhotoStore, for any photos, limits, days and setups.         *)
EXTENDS PhotoStore, TLAPS

-----------------------------------------------------------------------------
(* Type correctness.                                                         *)

\* the threads know the file they work on
Named ==
    /\ up.pc \notin {"look", "next"} => up.file \in Photo
    /\ conv.pc # "idle" => conv.photo \in Photo

TypeInv == TypeOK /\ Named /\ setup \in Setups

\* The program starts well typed, and its threads work on no file.
LEMMA TypeInit == Init => TypeInv
<1>1. SUFFICES ASSUME Init PROVE TypeInv
  OBVIOUS
<1>2. setup \in [photos : SUBSET Photo, limit : Limits, disk : Nat, may : SUBSET Happenings]
  BY <1>1, SetupsAreKnown DEF Init
<1>3. quota = [size |-> 0, day |-> 0, warned |-> FALSE] /\ quota \in Quota
  BY <1>1, BoundsAreNat DEF Init, Quota
<1>4. up \in Step
  BY <1>1 DEF Init, Step, Resting
<1>5. row \in [status : {0, 1}, limit : Limits, disk : Nat]
  BY <1>1, <1>2 DEF Init
<1>6. setup \in Setups /\ saved \in Quota /\ day \in 0..MaxDay
  BY <1>1, <1>3, BoundsAreNat DEF Init
<1>7. QED
  BY <1>1, <1>3, <1>4, <1>5, <1>6 DEF Init, TypeInv, TypeOK, Named, Resting, Idle, Nothing

\* Every step of the upload thread keeps the types, and the file it works on is a
\* photo.
LEMMA TypeUpload ==
  ASSUME TypeInv, ysf_rsync_photo
  PROVE  (TypeOK /\ Named)'
<1> USE SizeAssumption DEF UploadLeaves, photos, server, settings, net
<1>1. ASSUME NEW p \in Photo, NEW marker \in BOOLEAN, Upload(p, marker)
      PROVE  (TypeOK /\ Named)'
  <2>1. up' \in Step
    BY <1>1 DEF Upload, Step
  <2>2. Named'
    BY <1>1 DEF TypeInv, TypeOK, Named, Upload, Step
  <2>3. QED
    BY <1>1, <2>1, <2>2 DEF TypeInv, TypeOK, Upload
<1>2. ASSUME Count PROVE (TypeOK /\ Named)'
  <2>1. quota' \in Quota
    BY <1>2 DEF TypeInv, TypeOK, Count, Quota
  <2>2. up' \in Step
    BY <1>2 DEF TypeInv, TypeOK, Count, Step
  <2>3. Named'
    BY <1>2 DEF TypeInv, TypeOK, Named, Count, Step
  <2>4. QED
    BY <1>2, <2>1, <2>2, <2>3 DEF TypeInv, TypeOK, Count
<1>3. ASSUME Check PROVE (TypeOK /\ Named)'
  <2>1. up' \in Step
    BY <1>3 DEF TypeInv, TypeOK, Check, Step
  <2>2. Named'
    BY <1>3 DEF TypeInv, TypeOK, Named, Check, Step
  <2>3. QED
    BY <1>3, <2>1, <2>2 DEF TypeInv, TypeOK, Check
<1>4. ASSUME Stop PROVE (TypeOK /\ Named)'
  <2>1. up' \in Step
    BY <1>4 DEF TypeInv, TypeOK, Stop, Step
  <2>2. Named'
    BY <1>4 DEF TypeInv, TypeOK, Named, Stop, Step
  <2>3. QED
    BY <1>4, <2>1, <2>2 DEF TypeInv, TypeOK, Stop
<1>5. ASSUME Remove PROVE (TypeOK /\ Named)'
  <2>1. up' \in Step
    BY <1>5 DEF TypeInv, TypeOK, Remove, Step, Resting
  <2>2. Named'
    BY <1>5 DEF TypeInv, TypeOK, Named, Remove, Step, Resting
  <2>3. QED
    BY <1>5, <2>1, <2>2 DEF TypeInv, TypeOK, Remove
<1>6. ASSUME Touch PROVE (TypeOK /\ Named)'
  <2>1. up' \in Step
    BY <1>6 DEF TypeInv, TypeOK, Touch, Step
  <2>2. Named'
    BY <1>6 DEF TypeInv, TypeOK, Named, Touch, Step
  <2>3. QED
    BY <1>6, <2>1, <2>2 DEF TypeInv, TypeOK, Named, Touch
<1>7. ASSUME Mark PROVE (TypeOK /\ Named)'
  <2>1. up' \in Step
    <3>1. up' = [up EXCEPT !.pc = "unmark"] \/ up' = Resting
      BY <1>7 DEF Mark
    <3>2. [up EXCEPT !.pc = "unmark"] \in Step
      BY DEF TypeInv, TypeOK, Step
    <3>3. Resting \in Step
      BY DEF Resting, Step
    <3>4. QED
      BY <3>1, <3>2, <3>3
  <2>2. Named'
    BY <1>7 DEF TypeInv, TypeOK, Named, Mark, Step, Resting
  <2>3. QED
    BY <1>7, <2>1, <2>2 DEF TypeInv, TypeOK, Named, Mark
<1>8. ASSUME Unmark PROVE (TypeOK /\ Named)'
  <2>1. up' \in Step
    BY <1>8 DEF TypeInv, TypeOK, Unmark, Step, Resting
  <2>2. Named'
    BY <1>8 DEF TypeInv, TypeOK, Named, Unmark, Step, Resting
  <2>3. QED
    BY <1>8, <2>1, <2>2 DEF TypeInv, TypeOK, Unmark
<1>9. ASSUME CloseDir PROVE (TypeOK /\ Named)'
  <2>1. up' \in Step
    BY <1>9 DEF TypeInv, TypeOK, CloseDir, Step, Resting
  <2>2. Named'
    BY <1>9 DEF TypeInv, TypeOK, Named, CloseDir, Step, Resting
  <2>3. QED
    BY <1>9, <2>1, <2>2 DEF TypeInv, TypeOK, CloseDir
<1>10. QED
  BY <1>1, <1>2, <1>3, <1>4, <1>5, <1>6, <1>7, <1>8, <1>9 DEF ysf_rsync_photo

\* So do the other threads of the device,
LEMMA TypeDevice ==
  ASSUME TypeInv, Device
  PROVE  (TypeOK /\ Named)'
<1> USE DEF DeviceLeaves, photos, settings, day_vars, net
<1>1. ASSUME upload_size_update PROVE (TypeOK /\ Named)'
  <2>1. NewDay \in Quota
    BY DEF TypeInv, TypeOK, NewDay, Quota
  <2>2. quota' = NewDay \/ quota' = [NewDay EXCEPT !.size = quota.size] \/ quota' = quota
    BY <1>1 DEF upload_size_update
  <2>3. quota' \in Quota /\ saved' \in Quota
    BY <1>1, <2>1, <2>2 DEF TypeInv, TypeOK, upload_size_update, Quota
  <2>4. overflow' \in BOOLEAN /\ notify' \in BOOLEAN
    BY <1>1 DEF TypeInv, TypeOK, upload_size_update
  <2>5. QED
    BY <1>1, <2>3, <2>4 DEF TypeInv, TypeOK, Named, upload_size_update
<1>2. ASSUME send_upload_warnning_to_server PROVE (TypeOK /\ Named)'
  BY <1>2 DEF TypeInv, TypeOK, Named, send_upload_warnning_to_server
<1>3. ASSUME RecvWarningResponse PROVE (TypeOK /\ Named)'
  <2>1. quota' \in Quota /\ saved' \in Quota
    BY <1>3 DEF TypeInv, TypeOK, RecvWarningResponse, Quota
  <2>2. notify' \in BOOLEAN /\ overflow' \in BOOLEAN
    BY <1>3 DEF TypeInv, TypeOK, RecvWarningResponse
  <2>3. warning' = "none"
        /\ UNCHANGED <<day, photos, jpg, conv, row, alarms, status, limit, conf, up, beat, cmd>>
    BY <1>3 DEF RecvWarningResponse
  <2>4. QED
    BY <2>1, <2>2, <2>3 DEF TypeInv, TypeOK, Named
<1>4. ASSUME RecvLimit PROVE (TypeOK /\ Named)'
  <2>1. notify' \in BOOLEAN /\ overflow' \in BOOLEAN
    BY <1>4 DEF TypeInv, TypeOK, RecvLimit
  <2>2. limit' \in Limits
    BY <1>4 DEF TypeInv, TypeOK, RecvLimit
  <2>3. UNCHANGED <<day, photos, jpg, conv, row, alarms, status, conf, quota, saved, up, net>>
    BY <1>4 DEF RecvLimit
  <2>4. QED
    BY <2>1, <2>2, <2>3 DEF TypeInv, TypeOK, Named
<1>5. ASSUME RecvConf PROVE (TypeOK /\ Named)'
  BY <1>5 DEF TypeInv, TypeOK, Named, RecvConf
<1>6. ASSUME Heartbeat PROVE (TypeOK /\ Named)'
  BY <1>6 DEF TypeInv, TypeOK, Named, Heartbeat, Nothing
<1>7. ASSUME RecvStatus PROVE (TypeOK /\ Named)'
  BY <1>7 DEF TypeInv, TypeOK, Named, RecvStatus, Nothing
<1>8. ASSUME ClientRestart PROVE (TypeOK /\ Named)'
  <2>1. up' \in Step /\ up'.pc = "look"
    BY <1>8 DEF ClientRestart, Step, Resting
  <2>2. quota' \in Quota /\ saved' \in Quota
    BY <1>8 DEF TypeInv, TypeOK, ClientRestart
  <2>3. UNCHANGED <<day, taken, dir, ok, raw, marks, jpg, conv, row, alarms>>
    BY <1>8 DEF ClientRestart
  <2>4. /\ overflow' = FALSE /\ notify' = FALSE /\ status' = 1 /\ limit' = 0 /\ conf' = FALSE
        /\ beat' = 2 /\ cmd' = 2 /\ warning' = "none"
    BY <1>8 DEF ClientRestart, Nothing
  <2>5. TypeOK'
    BY <2>1, <2>2, <2>3, <2>4 DEF TypeInv, TypeOK, Nothing
  <2>6. Named'
    BY <2>1, <2>3 DEF TypeInv, Named
  <2>7. QED
    BY <2>5, <2>6
<1>9. QED
  BY <1>1, <1>2, <1>3, <1>4, <1>5, <1>6, <1>7, <1>8 DEF Device

\* the server,
LEMMA TypeServer ==
  ASSUME TypeInv, Server
  PROVE  (TypeOK /\ Named)'
<1> USE DEF ServerLeaves, server, settings, day_vars, net
<1>1. ASSUME RecvBeat PROVE (TypeOK /\ Named)'
  BY <1>1 DEF TypeInv, TypeOK, Named, RecvBeat, Nothing
<1>2. ASSUME RecvWarning PROVE (TypeOK /\ Named)'
  BY <1>2 DEF TypeInv, TypeOK, Named, RecvWarning
<1>3. ASSUME DiskCheckTimer PROVE (TypeOK /\ Named)'
  <2>1. row' \in [status : {0, 1}, limit : Limits, disk : Nat]
    BY <1>3 DEF TypeInv, TypeOK, DiskCheckTimer, DiskStatus
  <2>2. QED
    BY <1>3, <2>1 DEF TypeInv, TypeOK, Named, DiskCheckTimer
<1>4. ASSUME NEW p \in Photo, ConvertStart(p) PROVE (TypeOK /\ Named)'
  <2>1. jpg' \in [Photo -> {"none", "torn", "done"}]
    BY <1>4 DEF TypeInv, TypeOK, ConvertStart
  <2>2. QED
    BY <1>4, <2>1 DEF TypeInv, TypeOK, Named, ConvertStart
<1>5. ASSUME ConvertEnd PROVE (TypeOK /\ Named)'
  <2>1. jpg' \in [Photo -> {"none", "torn", "done"}]
    BY <1>5 DEF TypeInv, TypeOK, ConvertEnd
  <2>2. conv' = [conv EXCEPT !.pc = "remove"] \/ conv' = Idle
    BY <1>5 DEF ConvertEnd
  <2>3. conv' \in [pc : {"idle", "convert", "remove"}, photo : Photo \union {NoPhoto}]
    BY <2>2 DEF TypeInv, TypeOK, Idle
  <2>4. conv'.pc # "idle" => conv'.photo \in Photo
    BY <1>5, <2>2 DEF TypeInv, TypeOK, Named, Idle, ConvertEnd
  <2>5. QED
    BY <1>5, <2>1, <2>3, <2>4 DEF TypeInv, TypeOK, Named, ConvertEnd
<1>6. ASSUME ConvertRemove PROVE (TypeOK /\ Named)'
  BY <1>6 DEF TypeInv, TypeOK, Named, ConvertRemove, Idle
<1>7. ASSUME ServerRestart PROVE (TypeOK /\ Named)'
  BY <1>7 DEF TypeInv, TypeOK, Named, ServerRestart, Idle, Nothing
<1>8. QED
  BY <1>1, <1>2, <1>3, <1>4, <1>5, <1>6, <1>7 DEF Server, Convert

\* and what the rest of the world does.
LEMMA TypeWorld ==
  ASSUME TypeInv, World
  PROVE  (TypeOK /\ Named)'
<1> USE DEF WorldLeaves, settings, day_vars, net
<1>1. ASSUME NEW p \in Photo, TakePhoto(p) PROVE (TypeOK /\ Named)'
  BY <1>1 DEF TypeInv, TypeOK, Named, TakePhoto
<1>2. ASSUME Midnight PROVE (TypeOK /\ Named)'
  <2>1. day' \in 0..MaxDay
    BY <1>2, BoundsAreNat DEF TypeInv, TypeOK, Midnight
  <2>2. QED
    BY <1>2, <2>1 DEF TypeInv, TypeOK, Named, Midnight
<1>3. ASSUME NEW v \in Limits, LimitEdit(v) PROVE (TypeOK /\ Named)'
  <2>1. row' \in [status : {0, 1}, limit : Limits, disk : Nat]
    BY <1>3 DEF TypeInv, TypeOK, LimitEdit
  <2>2. QED
    BY <1>3, <2>1 DEF TypeInv, TypeOK, Named, LimitEdit
<1>4. ASSUME DiskEdit PROVE (TypeOK /\ Named)'
  <2>1. row' \in [status : {0, 1}, limit : Limits, disk : Nat]
    BY <1>4 DEF TypeInv, TypeOK, DiskEdit
  <2>2. QED
    BY <1>4, <2>1 DEF TypeInv, TypeOK, Named, DiskEdit
<1>5. ASSUME Loss PROVE (TypeOK /\ Named)'
  BY <1>5 DEF TypeInv, TypeOK, Named, Loss, Nothing
<1>6. QED
  BY <1>1, <1>2, <1>3, <1>4, <1>5 DEF World

\* A step of the specification keeps the types and the setup.
LEMMA TypeStep == TypeInv /\ [Next /\ UNCHANGED setup]_<<vars, setup>> => TypeInv'
<1>1. SUFFICES ASSUME TypeInv, [Next /\ UNCHANGED setup]_<<vars, setup>>
               PROVE  TypeInv'
  OBVIOUS
<1>2. CASE Next /\ UNCHANGED setup
  BY <1>1, <1>2, TypeUpload, TypeDevice, TypeServer, TypeWorld DEF Next, TypeInv
<1>3. CASE UNCHANGED <<vars, setup>>
  BY <1>1, <1>3 DEF TypeInv, TypeOK, Named, vars, photos, server, settings, day_vars, net
<1>4. QED
  BY <1>1, <1>2, <1>3

\* Every variable keeps its shape, whatever fails, stops or is edited.
THEOREM TypeCorrect == Spec => []TypeOK
<1>1. TypeInv => TypeOK
  BY DEF TypeInv
<1>2. QED
  BY <1>1, TypeInit, TypeStep, PTL DEF Spec

-----------------------------------------------------------------------------
(* No photo is lost, and none is left behind.                                *)

Busy == up.pc \notin {"look", "next"}
Sending == up.pc \in {"count", "check", "stop", "remove"}

\* The file the device works on has arrived, the photo that is converted keeps its
\* marker, and a marker is removed after the conversion has succeeded.
KeptInv ==
    /\ PhotosKept
    /\ Busy => up.file \in raw
    /\ conv.pc = "convert" => conv.photo \in marks
    /\ conv.pc = "remove" => jpg[conv.photo] = "done"

Followed(p) == p \in marks \/ jpg[p] = "done"

\* A marker that is to be removed from the device has arrived.
LeftInv ==
    /\ \A p \in raw \ dir : Followed(p) \/ p \in ok \/ (up.pc = "touch" /\ up.file = p)
    /\ (Sending /\ up.marker) \/ up.pc = "unmark" => Followed(up.file)

\* At the start there are no photos.
LEMMA KeptInit == Init => KeptInv /\ LeftInv
BY DEF Init, KeptInv, LeftInv, PhotosKept, Busy, Sending, Resting, Idle, Followed

\* The upload thread removes a file after it has arrived, and makes a marker of a
\* photo that has.
LEMMA KeptUpload ==
  ASSUME TypeInv, KeptInv, ysf_rsync_photo
  PROVE  KeptInv'
<1> USE DEF UploadLeaves, photos, server
<1>1. ASSUME NEW p \in Photo, NEW marker \in BOOLEAN, Upload(p, marker)
      PROVE  KeptInv'
  <2>1. up'.file = p /\ p \in raw'
    BY <1>1 DEF Upload, KeptInv, PhotosKept
  <2>2. /\ raw \subseteq raw'
        /\ marks' = marks \/ (p \in ok /\ marks' = marks \union {p})
    <3>1. CASE marker
      BY <1>1, <3>1 DEF Upload
    <3>2. CASE ~marker
      BY <1>1, <3>2 DEF Upload
    <3>3. QED
      BY <3>1, <3>2
  <2>3. UNCHANGED <<taken, dir, ok, jpg, conv>>
    BY <1>1 DEF Upload
  <2>4. QED
    BY <2>1, <2>2, <2>3 DEF KeptInv, PhotosKept, Busy
<1>2. ASSUME Count PROVE KeptInv'
  BY <1>2 DEF TypeInv, TypeOK, Count, KeptInv, PhotosKept, Busy, Step
<1>3. ASSUME Check PROVE KeptInv'
  BY <1>3 DEF TypeInv, TypeOK, Check, KeptInv, PhotosKept, Busy, Step
<1>4. ASSUME Stop PROVE KeptInv'
  BY <1>4 DEF TypeInv, TypeOK, Stop, KeptInv, PhotosKept, Busy, Step
<1>5. ASSUME Remove PROVE KeptInv'
  <2>1. up.file \in raw
    BY <1>5 DEF Remove, KeptInv, Busy
  <2>2. taken' \subseteq dir' \union raw' /\ marks' \union ok' \subseteq raw'
    BY <1>5, <2>1 DEF Remove, KeptInv, PhotosKept
  <2>3. up'.pc = "next" \/ up'.file = up.file
    BY <1>5 DEF TypeInv, TypeOK, Step, Remove, Resting
  <2>4. UNCHANGED <<raw, marks, jpg, conv>>
    BY <1>5 DEF Remove
  <2>5. QED
    BY <2>1, <2>2, <2>3, <2>4 DEF KeptInv, PhotosKept, Busy
<1>6. ASSUME Touch PROVE KeptInv'
  BY <1>6 DEF TypeInv, TypeOK, Touch, KeptInv, PhotosKept, Busy, Step
<1>7. ASSUME Mark PROVE KeptInv'
  <2>1. up.file \in raw
    BY <1>7 DEF Mark, KeptInv, Busy
  <2>2. up'.pc = "look" \/ up'.file = up.file
    BY <1>7 DEF TypeInv, TypeOK, Step, Mark, Resting
  <2>3. UNCHANGED <<taken, dir, ok, raw, jpg, conv>>
        /\ (marks' = marks \/ marks' = marks \union {up.file})
    BY <1>7 DEF Mark
  <2>4. QED
    BY <2>1, <2>2, <2>3 DEF KeptInv, PhotosKept, Busy
<1>8. ASSUME Unmark PROVE KeptInv'
  BY <1>8 DEF Unmark, KeptInv, PhotosKept, Busy, Resting
<1>9. ASSUME CloseDir PROVE KeptInv'
  BY <1>9 DEF CloseDir, KeptInv, PhotosKept, Busy, Resting
<1>10. QED
  BY <1>1, <1>2, <1>3, <1>4, <1>5, <1>6, <1>7, <1>8, <1>9 DEF ysf_rsync_photo

\* A photo that the upload thread removes gets its marker, and a marker it removes
\* has arrived.
LEMMA LeftUpload ==
  ASSUME TypeInv, KeptInv, LeftInv, ysf_rsync_photo
  PROVE  LeftInv'
<1> USE DEF UploadLeaves, photos, server
<1>1. ASSUME NEW p \in Photo, NEW marker \in BOOLEAN, Upload(p, marker)
      PROVE  LeftInv'
  <2>1. UNCHANGED <<dir, ok, jpg>> /\ marks \subseteq marks' /\ up.pc \in {"look", "next"}
    BY <1>1 DEF Upload
  <2>2. up' = [pc |-> "count", file |-> p, marker |-> marker]
    BY <1>1 DEF Upload
  <2>3. marker => p \in marks'
    BY <1>1 DEF Upload
  <2>4. raw' \ dir' \subseteq raw \ dir
    BY <1>1 DEF Upload
  <2>5. QED
    BY <2>1, <2>2, <2>3, <2>4 DEF LeftInv, Followed, Sending
<1>2. ASSUME Count PROVE LeftInv'
  BY <1>2 DEF TypeInv, TypeOK, Count, LeftInv, Followed, Sending, Step
<1>3. ASSUME Check PROVE LeftInv'
  BY <1>3 DEF TypeInv, TypeOK, Check, LeftInv, Followed, Sending, Step
<1>4. ASSUME Stop PROVE LeftInv'
  BY <1>4 DEF TypeInv, TypeOK, Stop, LeftInv, Followed, Sending, Step
<1>5. ASSUME Remove PROVE LeftInv'
  <2>1. UNCHANGED <<raw, marks, jpg>> /\ up.pc = "remove"
    BY <1>5 DEF Remove
  <2>2. CASE up.marker
    <3>1. dir' = dir /\ ok' = ok \ {up.file} /\ up'.pc = "next"
      BY <1>5, <2>2 DEF Remove, Resting
    <3>2. Followed(up.file)
      BY <2>1, <2>2 DEF LeftInv, Sending
    <3>3. QED
      BY <2>1, <3>1, <3>2 DEF LeftInv, Followed, Sending
  <2>3. CASE ~up.marker
    <3>1. dir' = dir \ {up.file} /\ ok' = ok /\ up'.pc = "touch" /\ up'.file = up.file
      BY <1>5, <2>3 DEF TypeInv, TypeOK, Step, Remove
    <3>2. QED
      BY <2>1, <3>1 DEF LeftInv, Followed, Sending
  <2>4. QED
    BY <2>2, <2>3
<1>6. ASSUME Touch PROVE LeftInv'
  BY <1>6 DEF TypeInv, TypeOK, Touch, LeftInv, Followed, Sending, Step
<1>7. ASSUME Mark PROVE LeftInv'
  <2>1. UNCHANGED <<dir, ok, raw, jpg>> /\ marks \subseteq marks' /\ up.pc = "mark"
    BY <1>7 DEF Mark
  <2>2. up'.pc = "look" \/ (up'.pc = "unmark" /\ up'.file = up.file /\ up.file \in marks')
    BY <1>7 DEF TypeInv, TypeOK, Step, Mark, Resting
  <2>3. QED
    BY <2>1, <2>2 DEF LeftInv, Followed, Sending
<1>8. ASSUME Unmark PROVE LeftInv'
  BY <1>8 DEF Unmark, LeftInv, Followed, Sending, Resting
<1>9. ASSUME CloseDir PROVE LeftInv'
  BY <1>9 DEF CloseDir, LeftInv, Followed, Sending, Resting
<1>10. QED
  BY <1>1, <1>2, <1>3, <1>4, <1>5, <1>6, <1>7, <1>8, <1>9 DEF ysf_rsync_photo

\* The conversion removes a marker only when the jpg is done.
LEMMA KeptConvert ==
  ASSUME TypeInv, KeptInv, Convert
  PROVE  KeptInv' /\ (LeftInv => LeftInv')
<1> USE DEF ServerLeaves
<1>1. ASSUME NEW p \in Photo, ConvertStart(p)
      PROVE  KeptInv' /\ (LeftInv => LeftInv')
  <2>1. UNCHANGED <<taken, dir, ok, raw, marks, up>> /\ p \in marks
    BY <1>1 DEF ConvertStart
  <2>2. \A q \in Photo : jpg'[q] = IF q = p THEN "torn" ELSE jpg[q]
    BY <1>1 DEF ConvertStart, TypeInv, TypeOK
  <2>3. conv'.pc = "convert" /\ conv'.photo = p
    BY <1>1 DEF ConvertStart
  <2>4. KeptInv'
    BY <2>1, <2>2, <2>3 DEF KeptInv, PhotosKept, Busy
  <2>5. \A q \in Photo : Followed(q) => Followed(q)'
    BY <2>1, <2>2 DEF Followed
  <2>6. up.pc \notin {"look", "next"} => up.file \in Photo
    BY DEF TypeInv, Named
  <2>7. LeftInv => LeftInv'
    BY <2>1, <2>5, <2>6 DEF LeftInv, Sending, TypeInv, TypeOK
  <2>8. QED
    BY <2>4, <2>7
<1>2. ASSUME ConvertEnd
      PROVE  KeptInv' /\ (LeftInv => LeftInv')
  <2>1. UNCHANGED <<taken, dir, ok, raw, marks, up>> /\ conv.photo \in Photo
    BY <1>2 DEF ConvertEnd, TypeInv, Named
  <2>2. \/ conv'.pc = "remove" /\ conv'.photo = conv.photo /\ jpg' = [jpg EXCEPT ![conv.photo] = "done"]
        \/ conv'.pc = "idle" /\ jpg' = jpg
    BY <1>2 DEF ConvertEnd, TypeInv, TypeOK, Idle
  <2>3. \A q \in Photo : jpg'[q] = jpg[q] \/ jpg'[q] = "done"
    BY <2>1, <2>2 DEF TypeInv, TypeOK
  <2>4. conv'.pc = "remove" => jpg'[conv'.photo] = "done"
    BY <2>1, <2>2 DEF TypeInv, TypeOK
  <2>5. conv'.pc # "convert"
    BY <2>2
  <2>6. KeptInv'
    BY <2>1, <2>3, <2>4, <2>5 DEF KeptInv, PhotosKept, Busy
  <2>7. \A q \in Photo : Followed(q) => Followed(q)'
    BY <2>1, <2>3 DEF Followed
  <2>8. up.pc \notin {"look", "next"} => up.file \in Photo
    BY DEF TypeInv, Named
  <2>9. LeftInv => LeftInv'
    BY <2>1, <2>7, <2>8 DEF LeftInv, Sending, TypeInv, TypeOK
  <2>10. QED
    BY <2>6, <2>9
<1>3. ASSUME ConvertRemove
      PROVE  KeptInv' /\ (LeftInv => LeftInv')
  <2>1. UNCHANGED <<taken, dir, ok, raw, jpg, up>> /\ marks' = marks \ {conv.photo}
    BY <1>3 DEF ConvertRemove
  <2>2. jpg[conv.photo] = "done" /\ conv'.pc = "idle"
    BY <1>3 DEF ConvertRemove, KeptInv, Idle
  <2>3. KeptInv'
    BY <2>1, <2>2 DEF KeptInv, PhotosKept, Busy
  <2>4. \A q : Followed(q) => Followed(q)'
    BY <2>1, <2>2 DEF Followed
  <2>5. LeftInv => LeftInv'
    BY <2>1, <2>4 DEF LeftInv, Sending
  <2>6. QED
    BY <2>3, <2>5
<1>4. QED
  BY <1>1, <1>2, <1>3 DEF Convert

\* The other steps leave the files alone, or stop a thread.
LEMMA KeptOthers ==
  ASSUME TypeInv, KeptInv, (Device \/ Server \/ World) /\ ~Convert
  PROVE  KeptInv' /\ ("restart" \notin setup.may /\ LeftInv => LeftInv')
<1> USE DEF May
<1>1. CASE ClientRestart
  BY <1>1 DEF ClientRestart, DeviceLeaves, photos, KeptInv, PhotosKept, Busy, Resting
<1>2. CASE ServerRestart
  BY <1>2 DEF ServerRestart, ServerLeaves, KeptInv, PhotosKept, Busy, Idle
<1>3. CASE \E p \in Photo : TakePhoto(p)
  <2>1. PICK p \in Photo : TakePhoto(p)
    BY <1>3
  <2>2. taken' = taken \union {p} /\ dir' = dir \union {p} /\ UNCHANGED <<ok, raw, marks, jpg, conv, up>>
    BY <2>1 DEF TakePhoto, WorldLeaves
  <2>3. QED
    BY <2>2 DEF KeptInv, PhotosKept, Busy, LeftInv, Followed, Sending
<1>4. CASE ~ClientRestart /\ ~ServerRestart /\ ~(\E p \in Photo : TakePhoto(p))
  <2>1. CASE Device
    <3>1. UNCHANGED <<taken, dir, ok, raw, marks, jpg, conv, up>>
      BY <1>4, <2>1 DEF Device, upload_size_update, send_upload_warnning_to_server, RecvWarningResponse,
         RecvLimit, RecvConf, Heartbeat, RecvStatus, DeviceLeaves, photos
    <3>2. QED
      BY <3>1 DEF KeptInv, PhotosKept, Busy, LeftInv, Followed, Sending
  <2>2. CASE Server /\ ~Convert
    <3>1. UNCHANGED <<taken, dir, ok, raw, marks, jpg, conv, up>>
      BY <1>4, <2>2 DEF Server, RecvBeat, RecvWarning, DiskCheckTimer, ServerLeaves, server
    <3>2. QED
      BY <3>1 DEF KeptInv, PhotosKept, Busy, LeftInv, Followed, Sending
  <2>3. CASE World
    <3>1. UNCHANGED <<taken, dir, ok, raw, marks, jpg, conv, up>>
      BY <1>4, <2>3 DEF World, Midnight, DiskEdit, Loss, LimitEdit, WorldLeaves
    <3>2. QED
      BY <3>1 DEF KeptInv, PhotosKept, Busy, LeftInv, Followed, Sending
  <2>4. QED
    BY <2>1, <2>2, <2>3
<1>5. QED
  BY <1>1, <1>2, <1>3, <1>4

Followable == TypeInv /\ KeptInv /\ ("restart" \notin setup.may => LeftInv)

\* A step keeps both, the second unless cnm_client may stop.
LEMMA KeptStep == Followable /\ [Next /\ UNCHANGED setup]_<<vars, setup>> => Followable'
<1>1. SUFFICES ASSUME Followable, [Next /\ UNCHANGED setup]_<<vars, setup>>
               PROVE  Followable'
  OBVIOUS
<1>2. TypeInv' /\ setup' = setup
  BY <1>1, TypeStep DEF Followable
<1>3. CASE Next
  <2>1. KeptInv' /\ ("restart" \notin setup.may /\ LeftInv => LeftInv')
    BY <1>1, <1>3, KeptUpload, LeftUpload, KeptConvert, KeptOthers DEF Followable, Next
  <2>2. QED
    BY <1>1, <1>2, <2>1 DEF Followable
<1>4. CASE UNCHANGED <<vars, setup>>
  BY <1>1, <1>2, <1>4 DEF Followable, vars, photos, server, KeptInv, PhotosKept, Busy, LeftInv, Followed, Sending
<1>5. QED
  BY <1>1, <1>3, <1>4

\* Both hold in every state.
LEMMA FollowableHolds == Spec => []Followable
<1>1. Init => Followable
  BY TypeInit, KeptInit DEF Followable
<1>2. QED
  BY <1>1, KeptStep, PTL DEF Spec

\* Whatever fails or stops between two steps, photos and markers are where they lead
\* to a conversion.
THEOREM PhotosKeptHolds == Spec => []PhotosKept
<1>1. Followable => PhotosKept
  BY DEF Followable, KeptInv
<1>2. QED
  BY <1>1, FollowableHolds, PTL

\* Without a stop of cnm_client a photo that has left the device is converted, marked
\* or about to be marked.
THEOREM NoneLeftBehindHolds == Spec => []NoneLeftBehind
<1>1. Followable => NoneLeftBehind
  BY DEF Followable, LeftInv, Followed, NoneLeftBehind
<1>2. QED
  BY <1>1, FollowableHolds, PTL

-----------------------------------------------------------------------------
(* Uploads stop for a reason, and in time.                                   *)

Tidy == "race" \notin setup.may
Steady == "edit" \notin setup.may
Ordered == "early" \notin setup.may

Above == limit > 0 /\ quota.size >= limit

\* Where the limit of the device comes from: before its configuration the device
\* uploads nothing, or there is but one limit.
LimitInv ==
    /\ Ordered => conf \/ (up.pc = "look" /\ ~overflow)
    /\ Steady => row.limit = setup.limit /\ limit \in {0, setup.limit}

StopInv ==
    /\ overflow => Above
    /\ up.pc = "stop" => Exceeded

\* What the arithmetic needs: sizes and limits are numbers.
LEMMA NatFacts ==
  ASSUME TypeInv
  PROVE  quota.size \in Nat /\ limit \in Nat /\ row.limit \in Nat /\ Size \in Nat
<1>1. quota.size \in Nat
  BY DEF TypeInv, TypeOK, Quota
<1>2. row.limit \in Limits
  BY DEF TypeInv, TypeOK
<1>3. limit \in Limits \/ limit = 0
  BY DEF TypeInv, TypeOK
<1>4. row.limit \in Nat
  BY <1>2, BoundsAreNat
<1>5. limit \in Nat
  <2>1. CASE limit \in Limits
    BY <2>1, BoundsAreNat
  <2>2. CASE limit = 0
    BY <2>2
  <2>3. QED
    BY <1>3, <2>1, <2>2
<1>6. QED
  BY <1>1, <1>4, <1>5, SizeAssumption

\* At the start nothing is stopped and the device knows no limit.
LEMMA StopInit == Init => LimitInv /\ StopInv
BY DEF Init, LimitInv, StopInv, Resting

\* The upload thread does not touch the limit, and starts no file without it.
LEMMA LimitUpload ==
  ASSUME LimitInv, setup' = setup, ysf_rsync_photo
  PROVE  LimitInv'
<1> USE DEF UploadLeaves, server, settings
<1>1. UNCHANGED <<row, limit, conf>>
  BY DEF ysf_rsync_photo, Upload, CloseDir, Count, Check, Stop, Remove, Touch, Mark, Unmark
<1>2. Ordered => conf
  <2>1. CASE \E p \in Photo, marker \in BOOLEAN : Upload(p, marker)
    BY <2>1 DEF Upload, Ordered, May
  <2>2. CASE up.pc # "look"
    BY <2>2 DEF LimitInv
  <2>3. QED
    BY <2>1, <2>2 DEF ysf_rsync_photo, CloseDir, Count, Check, Stop, Remove, Touch, Mark, Unmark
<1>3. QED
  BY <1>1, <1>2 DEF LimitInv, Steady, Ordered

\* The upload thread stops when the quota is exceeded, and what it has counted only
\* grows.
LEMMA StopUpload ==
  ASSUME TypeInv, StopInv, ysf_rsync_photo
  PROVE  StopInv'
<1> USE DEF UploadLeaves, settings
<1>1. ASSUME Count PROVE StopInv'
  <2>1. /\ up'.pc = "check" /\ UNCHANGED <<limit, overflow>>
        /\ quota'.size = quota.size + (IF up.marker THEN 0 ELSE Size)
    BY <1>1 DEF Count, TypeInv, TypeOK, Step, Quota
  <2>2. quota.size \in Nat /\ limit \in Nat /\ Size \in Nat
    BY NatFacts
  <2>3. quota'.size >= quota.size
    BY <2>1, <2>2
  <2>4. quota'.size \in Nat
    BY <2>1, <2>2
  <2>5. QED
    BY <2>1, <2>2, <2>3, <2>4 DEF StopInv, Above
<1>2. ASSUME Check PROVE StopInv'
  BY <1>2 DEF Check, TypeInv, TypeOK, Step, StopInv, Above, Exceeded
<1>3. ASSUME Stop PROVE StopInv'
  <2>1. UNCHANGED <<limit, quota>> /\ up'.pc = "remove" /\ Exceeded
    BY <1>3 DEF Stop, TypeInv, TypeOK, Step, StopInv
  <2>2. quota.size \in Nat /\ limit \in Nat
    BY NatFacts
  <2>3. QED
    BY <2>1, <2>2 DEF StopInv, Above, Exceeded
<1>4. CASE UNCHANGED <<limit, quota, overflow>> /\ up'.pc # "stop"
  BY <1>4 DEF StopInv, Above
<1>5. (UNCHANGED <<limit, quota, overflow>> /\ up'.pc # "stop") \/ Count \/ Check \/ Stop
  <2>1. ASSUME Remove PROVE up'.pc # "stop"
    BY <2>1 DEF Remove, Resting, TypeInv, TypeOK, Step
  <2>2. ASSUME Mark PROVE up'.pc # "stop"
    BY <2>2 DEF Mark, Resting, TypeInv, TypeOK, Step
  <2>3. ASSUME Touch PROVE up'.pc # "stop"
    BY <2>3 DEF Touch, TypeInv, TypeOK, Step
  <2>4. QED
    BY <2>1, <2>2, <2>3 DEF ysf_rsync_photo, Upload, CloseDir, Remove, Touch, Mark, Unmark, Resting
<1>6. QED
  BY <1>1, <1>2, <1>3, <1>4, <1>5

\* A limit comes from the row, in a notification or with the configuration.
LEMMA LimitDevice ==
  ASSUME TypeInv, LimitInv, setup' = setup, Device
  PROVE  LimitInv'
<1> USE DEF DeviceLeaves
<1>1. ASSUME RecvLimit PROVE LimitInv'
  <2>1. limit' = row.limit /\ UNCHANGED <<row, conf, up>>
    BY <1>1 DEF RecvLimit
  <2>2. ~overflow => ~overflow'
    BY <1>1 DEF RecvLimit
  <2>3. QED
    BY <2>1, <2>2 DEF LimitInv, Steady, Ordered
<1>2. ASSUME RecvConf PROVE LimitInv'
  BY <1>2 DEF RecvConf, LimitInv, Steady, Ordered
<1>3. ASSUME ClientRestart PROVE LimitInv'
  BY <1>3 DEF ClientRestart, LimitInv, Steady, Ordered, Resting
<1>4. CASE UNCHANGED <<row, conf, up, limit>> /\ (~overflow => ~overflow')
  BY <1>4 DEF LimitInv, Steady, Ordered
<1>5. ASSUME upload_size_update PROVE UNCHANGED <<row, conf, up, limit>> /\ (~overflow => ~overflow')
  <2>1. UNCHANGED <<row, conf, up, limit>>
    BY <1>5 DEF upload_size_update, settings
  <2>2. ~overflow => ~overflow'
    BY <1>5 DEF upload_size_update
  <2>3. QED
    BY <2>1, <2>2
<1>6. QED
  BY <1>1, <1>2, <1>3, <1>4, <1>5 DEF Device, send_upload_warnning_to_server, RecvWarningResponse,
     Heartbeat, RecvStatus, settings, day_vars

\* A new day, a new limit and a restart lift the stop, or leave it with its reason.
LEMMA StopDevice ==
  ASSUME TypeInv, LimitInv, StopInv, Tidy, Steady \/ Ordered, Device
  PROVE  StopInv'
<1> USE DEF DeviceLeaves
<1> quota.size \in Nat /\ limit \in Nat /\ row.limit \in Nat
  BY NatFacts
<1>1. ASSUME upload_size_update PROVE StopInv'
  <2>1. CASE day # quota.day
    <3>1. ~overflow' /\ UNCHANGED up
      BY <1>1, <2>1 DEF upload_size_update
    <3>2. up.pc # "stop"
      BY <1>1, <2>1 DEF upload_size_update, Tidy, May, Undisturbed
    <3>3. QED
      BY <3>1, <3>2 DEF StopInv
  <2>2. CASE day = quota.day
    BY <1>1, <2>2 DEF upload_size_update, StopInv, Above, Exceeded, settings
  <2>3. QED
    BY <2>1, <2>2
<1>2. ASSUME RecvWarningResponse PROVE StopInv'
  <2>1. quota'.size = quota.size /\ UNCHANGED <<limit, overflow, up>>
    BY <1>2 DEF RecvWarningResponse, settings, TypeInv, TypeOK, Quota
  <2>2. QED
    BY <2>1 DEF StopInv, Above, Exceeded
<1>3. ASSUME RecvLimit PROVE StopInv'
  <2>1. limit' = row.limit /\ UNCHANGED <<up, quota>> /\ up.pc # "stop"
    BY <1>3 DEF RecvLimit, Tidy, May, Undisturbed
  <2>2. overflow' => row.limit # 0 /\ ~(quota.size < row.limit)
    BY <1>3 DEF RecvLimit
  <2>3. QED
    BY <2>1, <2>2 DEF StopInv, Above
<1>4. ASSUME RecvConf PROVE StopInv'
  <2>1. ~conf /\ limit' = row.limit /\ UNCHANGED <<up, quota, overflow>>
    BY <1>4 DEF RecvConf, day_vars
  <2>2. CASE Ordered
    BY <2>1, <2>2 DEF LimitInv, StopInv
  <2>3. CASE Steady
    <3>1. overflow \/ up.pc = "stop" => limit > 0
      BY DEF StopInv, Above, Exceeded
    <3>2. limit > 0 => limit' = limit
      BY <2>1, <2>3 DEF LimitInv
    <3>3. QED
      BY <2>1, <3>1, <3>2 DEF StopInv, Above, Exceeded
  <2>4. QED
    BY <2>2, <2>3
<1>5. ASSUME ClientRestart PROVE StopInv'
  BY <1>5 DEF ClientRestart, StopInv, Resting
<1>6. CASE send_upload_warnning_to_server \/ Heartbeat \/ RecvStatus
  BY <1>6 DEF send_upload_warnning_to_server, Heartbeat, RecvStatus, StopInv, Above, Exceeded, settings, day_vars
<1>7. QED
  BY <1>1, <1>2, <1>3, <1>4, <1>5, <1>6 DEF Device

\* The server and the world touch none of it but the row's limit.
LEMMA StopOthers ==
  ASSUME TypeInv, Server \/ World
  PROVE  /\ UNCHANGED <<quota, limit, overflow, up, conf, notify>>
         /\ row'.limit = row.limit \/ May("edit")
<1>1. UNCHANGED <<quota, limit, overflow, up, conf, notify>>
  BY DEF Server, RecvBeat, RecvWarning, DiskCheckTimer, Convert, ConvertStart, ConvertEnd, ConvertRemove,
     ServerRestart, ServerLeaves, World, Midnight, DiskEdit, Loss, TakePhoto, LimitEdit, WorldLeaves, settings, day_vars
<1>2. ASSUME DiskCheckTimer \/ DiskEdit, ~May("edit") PROVE row'.limit = row.limit
  BY <1>2 DEF DiskCheckTimer, DiskEdit, TypeInv, TypeOK
<1>3. row'.limit = row.limit \/ May("edit") \/ DiskCheckTimer \/ DiskEdit
  BY DEF Server, RecvBeat, RecvWarning, Convert, ConvertStart, ConvertEnd, ConvertRemove,
     ServerRestart, server, World, Midnight, Loss, TakePhoto, LimitEdit
<1>4. QED
  BY <1>1, <1>2, <1>3

Reasonable == TypeInv /\ LimitInv /\ (Tidy /\ (Steady \/ Ordered) => StopInv)

\* A step keeps the reason of a stop.
LEMMA ReasonStep == Reasonable /\ [Next /\ UNCHANGED setup]_<<vars, setup>> => Reasonable'
<1>1. SUFFICES ASSUME Reasonable, [Next /\ UNCHANGED setup]_<<vars, setup>>
               PROVE  Reasonable'
  OBVIOUS
<1>2. TypeInv' /\ setup' = setup
  BY <1>1, TypeStep DEF Reasonable
<1>3. CASE ysf_rsync_photo
  BY <1>1, <1>2, <1>3, LimitUpload, StopUpload DEF Reasonable, Tidy, Steady, Ordered
<1>4. CASE Device
  BY <1>1, <1>2, <1>4, LimitDevice, StopDevice DEF Reasonable, Tidy, Steady, Ordered
<1>5. CASE (Server \/ World) \/ UNCHANGED <<vars, setup>>
  <2>1. UNCHANGED <<quota, limit, overflow, up, conf>>
    BY <1>1, <1>5, StopOthers DEF Reasonable, vars, settings, day_vars
  <2>2. Steady => row'.limit = row.limit
    BY <1>1, <1>5, StopOthers DEF Reasonable, vars, server, Steady, May
  <2>3. LimitInv'
    BY <1>1, <1>2, <2>1, <2>2 DEF Reasonable, LimitInv, Steady, Ordered
  <2>4. StopInv => StopInv'
    BY <2>1 DEF StopInv, Above, Exceeded
  <2>5. QED
    BY <1>1, <1>2, <2>3, <2>4 DEF Reasonable, Tidy, Steady, Ordered
<1>6. QED
  BY <1>1, <1>3, <1>4, <1>5 DEF Next

\* A stop has its reason in every state.
LEMMA ReasonHolds == Spec => []Reasonable
<1>1. Init => Reasonable
  BY TypeInit, StopInit DEF Reasonable
<1>2. QED
  BY <1>1, ReasonStep, PTL DEF Spec

\* Uploads are stopped only while the quota of the day is used up, for any limits and
\* any order of edits, midnights, restarts and losses.
THEOREM StoppedForReasonHolds == Spec => []StoppedForReason
<1>1. Reasonable => StoppedForReason
  BY DEF Reasonable, StopInv, Above, StoppedForReason, Tidy, Steady, Ordered
<1>2. QED
  BY <1>1, ReasonHolds, PTL

-----------------------------------------------------------------------------
(* The quota is exceeded by one photo.                                       *)

Calm == setup.may \subseteq {"fail", "loss", "disk", "late"}

Over == limit > 0 /\ quota.size > limit

\* Before the device has its configuration nothing is counted, afterwards its limit is
\* the one of the row; whoever counts beyond it is about to stop, and nothing is sent
\* when the flags were not looked at and it is exceeded.
QuotaInv ==
    /\ ~conf => up.pc = "look" /\ quota.size = 0
    /\ conf => limit = row.limit
    /\ limit > 0 => quota.size <= limit + Size
    /\ Over => overflow \/ up.pc \in {"check", "stop"}
    /\ up.pc \in {"next", "count"} \/ (Sending /\ up.marker) => ~Over

\* At the start nothing is counted.
LEMMA QuotaInit == Init => QuotaInv
BY SizeAssumption DEF Init, QuotaInv, Over, Sending, Resting

\* The upload thread stops after the photo that exceeds the quota: all that it
\* sends without a look at the flags follows a marker, which adds nothing.
LEMMA QuotaUpload ==
  ASSUME TypeInv, QuotaInv, Calm, ysf_rsync_photo
  PROVE  QuotaInv'
<1> USE DEF UploadLeaves, settings, server
<1>1. UNCHANGED <<limit, conf, row>>
  BY DEF ysf_rsync_photo, Upload, CloseDir, Count, Check, Stop, Remove, Touch, Mark, Unmark
<1>2. conf
  <2>1. CASE \E p \in Photo, marker \in BOOLEAN : Upload(p, marker)
    BY <2>1 DEF Upload, Calm, May
  <2>2. CASE up.pc # "look"
    BY <2>2 DEF QuotaInv
  <2>3. QED
    BY <2>1, <2>2 DEF ysf_rsync_photo, CloseDir, Count, Check, Stop, Remove, Touch, Mark, Unmark
<1>3. ASSUME NEW p \in Photo, NEW marker \in BOOLEAN, Upload(p, marker)
      PROVE  QuotaInv'
  <2>1. up'.pc = "count" /\ UNCHANGED <<quota, overflow>>
    BY <1>3 DEF Upload
  <2>2. ~Over
    BY <1>3 DEF Upload, QuotaInv
  <2>3. QED
    BY <1>1, <1>2, <2>1, <2>2 DEF QuotaInv, Over
<1>4. ASSUME Count PROVE QuotaInv'
  <2>1. /\ up.pc = "count" /\ up'.pc = "check" /\ up'.marker = up.marker /\ overflow' = overflow
        /\ quota'.size = quota.size + (IF up.marker THEN 0 ELSE Size)
    BY <1>4 DEF Count, TypeInv, TypeOK, Step, Quota
  <2>2. ~Over
    BY <2>1 DEF QuotaInv
  <2>3. limit > 0 => quota'.size <= limit + Size
    BY <2>1, <2>2, NatFacts DEF Over
  <2>4. up'.marker => ~Over'
    BY <1>1, <2>1, <2>2, NatFacts DEF Over
  <2>5. QED
    BY <1>1, <1>2, <2>1, <2>3, <2>4 DEF QuotaInv
<1>5. ASSUME Check PROVE QuotaInv'
  <2>1. /\ up'.pc = IF Exceeded THEN "stop" ELSE "remove"
        /\ up'.marker = up.marker /\ UNCHANGED <<quota, overflow>> /\ up.pc = "check"
    BY <1>5 DEF Check, TypeInv, TypeOK, Step
  <2>2. QED
    BY <1>1, <1>2, <2>1 DEF QuotaInv, Over, Exceeded, Sending
<1>6. ASSUME Stop PROVE QuotaInv'
  <2>1. up'.pc = "remove" /\ up'.marker = up.marker /\ overflow' /\ quota' = quota /\ up.pc = "stop"
    BY <1>6 DEF Stop, TypeInv, TypeOK, Step
  <2>2. QED
    BY <1>1, <1>2, <2>1 DEF QuotaInv, Over, Sending
<1>7. ASSUME Remove PROVE QuotaInv'
  <2>1. UNCHANGED <<quota, overflow>> /\ up.pc = "remove"
    BY <1>7 DEF Remove
  <2>2. (up.marker /\ up'.pc = "next") \/ up'.pc = "touch"
    BY <1>7 DEF Remove, Resting, TypeInv, TypeOK, Step
  <2>3. QED
    BY <1>1, <1>2, <2>1, <2>2 DEF QuotaInv, Over, Sending
<1>8. ASSUME Touch \/ Mark \/ Unmark \/ CloseDir PROVE QuotaInv'
  <2>1. UNCHANGED <<quota, overflow>> /\ up.pc \notin {"check", "stop"}
    BY <1>8 DEF Touch, Mark, Unmark, CloseDir
  <2>2. up'.pc \in {"mark", "unmark", "look"}
    BY <1>8 DEF Touch, Mark, Unmark, CloseDir, Resting, TypeInv, TypeOK, Step
  <2>3. QED
    BY <1>1, <1>2, <2>1, <2>2 DEF QuotaInv, Over, Sending
<1>9. QED
  BY <1>3, <1>4, <1>5, <1>6, <1>7, <1>8 DEF ysf_rsync_photo

\* A new day starts from nothing, and a limit comes before anything is counted.
LEMMA QuotaDevice ==
  ASSUME TypeInv, LimitInv, QuotaInv, Calm, Device
  PROVE  QuotaInv'
<1> USE DEF DeviceLeaves
<1>1. ASSUME upload_size_update PROVE QuotaInv'
  <2>1. UNCHANGED <<row, conf, limit, up>>
    BY <1>1 DEF upload_size_update, settings
  <2>2. CASE day # quota.day
    <3>1. quota'.size = 0
      BY <1>1, <2>2 DEF upload_size_update, Calm, May, NewDay
    <3>2. QED
      BY <2>1, <3>1, NatFacts DEF QuotaInv, Over
  <2>3. CASE day = quota.day
    <3>1. UNCHANGED <<quota, overflow>>
      BY <1>1, <2>3 DEF upload_size_update
    <3>2. QED
      BY <2>1, <3>1 DEF QuotaInv, Over, Sending
  <2>4. QED
    BY <2>2, <2>3
<1>2. ASSUME RecvWarningResponse PROVE QuotaInv'
  <2>1. quota'.size = quota.size /\ UNCHANGED <<limit, overflow, up, row, conf>>
    BY <1>2 DEF RecvWarningResponse, settings, TypeInv, TypeOK, Quota
  <2>2. QED
    BY <2>1 DEF QuotaInv, Over, Sending
<1>3. ASSUME RecvLimit PROVE QuotaInv'
  <2>1. limit' = row.limit /\ limit # row.limit /\ UNCHANGED <<up, quota, row, conf>>
    BY <1>3 DEF RecvLimit
  <2>2. ~conf /\ quota.size = 0 /\ up.pc = "look"
    BY <2>1 DEF QuotaInv
  <2>3. QED
    BY <2>1, <2>2, NatFacts DEF QuotaInv, Over
<1>4. ASSUME RecvConf PROVE QuotaInv'
  <2>1. limit' = row.limit /\ conf' /\ ~conf /\ UNCHANGED <<up, quota, overflow, row>>
    BY <1>4 DEF RecvConf, day_vars
  <2>2. quota.size = 0 /\ up.pc = "look"
    BY <2>1 DEF QuotaInv
  <2>3. QED
    BY <2>1, <2>2, NatFacts DEF QuotaInv, Over, Sending
<1>5. ~ClientRestart
  BY DEF ClientRestart, Calm, May
<1>6. CASE send_upload_warnning_to_server \/ Heartbeat \/ RecvStatus
  BY <1>6 DEF send_upload_warnning_to_server, Heartbeat, RecvStatus, QuotaInv, Over, Sending, settings, day_vars
<1>7. QED
  BY <1>1, <1>2, <1>3, <1>4, <1>5, <1>6 DEF Device

Bounded == TypeInv /\ LimitInv /\ (Calm => QuotaInv)

\* A step keeps what is counted within the quota and one photo.
LEMMA QuotaStep == Bounded /\ Reasonable /\ [Next /\ UNCHANGED setup]_<<vars, setup>> /\ Reasonable' => Bounded'
<1>1. SUFFICES ASSUME Bounded, Reasonable', [Next /\ UNCHANGED setup]_<<vars, setup>>
               PROVE  Bounded'
  OBVIOUS
<1>2. setup' = setup
  BY <1>1
<1>3. CASE ysf_rsync_photo
  BY <1>1, <1>2, <1>3, QuotaUpload DEF Bounded, Reasonable, Calm
<1>4. CASE Device
  BY <1>1, <1>2, <1>4, QuotaDevice DEF Bounded, Reasonable, Calm
<1>5. CASE (Server \/ World) \/ UNCHANGED <<vars, setup>>
  <2>1. UNCHANGED <<quota, limit, overflow, up, conf>>
    BY <1>1, <1>5, StopOthers DEF Bounded, vars, settings, day_vars
  <2>2. Calm => row'.limit = row.limit
    BY <1>1, <1>5, StopOthers DEF Bounded, vars, server, Calm, May
  <2>3. Calm /\ QuotaInv => QuotaInv'
    BY <2>1, <2>2 DEF QuotaInv, Over, Sending
  <2>4. QED
    BY <1>1, <1>2, <2>3 DEF Bounded, Reasonable, Calm
<1>6. QED
  BY <1>1, <1>3, <1>4, <1>5 DEF Next

\* With threads that do not meet at midnight, and no edits, the quota is exceeded by
\* less than the photo that is found to exceed it.
THEOREM QuotaKeptHolds == Spec => []QuotaKept
<1>1. Init => Bounded
  BY TypeInit, StopInit, QuotaInit DEF Bounded
<1>2. Bounded => QuotaKept
  BY DEF Bounded, QuotaInv, QuotaKept, Calm, Happens
<1>3. QED
  BY <1>1, <1>2, QuotaStep, ReasonHolds, PTL DEF Spec

-----------------------------------------------------------------------------
(* The three places hand over the photos as HandOver says.                   *)

\* The marker that the upload thread is to remove has arrived, and the one it sends is
\* there.
HandedInv ==
    /\ (Sending /\ up.marker) \/ up.pc = "unmark" => Followed(up.file)
    /\ up.pc = "mark" => up.file \in ok

\* a step that hands over nothing, or one photo from one place to the next
HandsOver ==
    /\ [Sent!Next]_(Sent!vars)
    /\ [Marked!Next]_(Marked!vars)
    /\ [Pictured!Next]_(Pictured!vars)

\* The next photo, or marker, is copied to the server.
LEMMA HandUpload ==
  ASSUME TypeInv, HandedInv, NEW p \in Photo, NEW marker \in BOOLEAN, Upload(p, marker)
  PROVE  HandsOver /\ HandedInv'
<1>1. UNCHANGED <<dir, ok, jpg>> /\ Converted' = Converted
  BY DEF Upload, UploadLeaves, server, Converted
<1>2. up'.pc = "count" /\ up'.file = p /\ up'.marker = marker
  BY DEF Upload
<1>3. CASE marker
  <2>1. p \in ok /\ marks' = marks \union {p} /\ raw' = raw
    BY <1>3 DEF Upload
  <2>2. Marked!Copy(p) /\ Pictured!Put(p) /\ UNCHANGED Sent!vars
    BY <1>1, <2>1 DEF Marked!Copy, Pictured!Put, Sent!vars
  <2>3. HandedInv'
    BY <1>2, <2>1 DEF HandedInv, Followed
  <2>4. QED
    BY <2>2, <2>3 DEF HandsOver, Marked!Next, Pictured!Next
<1>4. CASE ~marker
  <2>1. p \in dir /\ raw' = raw \union {p} /\ marks' = marks
    BY <1>4 DEF Upload
  <2>2. Sent!Copy(p) /\ UNCHANGED Marked!vars /\ UNCHANGED Pictured!vars
    BY <1>1, <2>1 DEF Sent!Copy, Marked!vars, Pictured!vars
  <2>3. HandedInv'
    BY <1>2, <1>4 DEF HandedInv
  <2>4. QED
    BY <2>2, <2>3 DEF HandsOver, Sent!Next
<1>5. QED
  BY <1>3, <1>4

\* The upload thread removes what has arrived, and sends the marker it has made.
LEMMA HandSteps ==
  ASSUME TypeInv, KeptInv, HandedInv, Remove \/ Touch \/ Mark \/ Unmark
  PROVE  HandsOver /\ HandedInv'
<1>1. UNCHANGED <<raw, jpg>> /\ Converted' = Converted
  BY DEF Remove, Touch, Mark, Unmark, UploadLeaves, server, Converted
<1>2. PICK p : p = up.file /\ p \in Photo /\ p \in raw
  BY DEF Remove, Touch, Mark, Unmark, TypeInv, Named, KeptInv, Busy
<1>3. up \in Step
  BY DEF TypeInv, TypeOK
<1>4. Followed(p) => p \in marks \union Converted
  BY <1>2 DEF Followed, Converted
<1>5. CASE Remove /\ up.marker
  <2>1. ok' = ok \ {p} /\ UNCHANGED <<dir, marks>> /\ up'.pc = "next"
    BY <1>2, <1>3, <1>5 DEF Remove, Resting, Step
  <2>2. p \in marks \union Converted
    BY <1>2, <1>4, <1>5 DEF HandedInv, Remove, Sending
  <2>3. Marked!Release(p) /\ UNCHANGED Sent!vars /\ UNCHANGED Pictured!vars
    BY <1>1, <2>1, <2>2 DEF Marked!Release, Sent!vars, Pictured!vars
  <2>4. HandedInv'
    BY <2>1 DEF HandedInv, Sending
  <2>5. QED
    BY <1>2, <2>3, <2>4 DEF HandsOver, Marked!Next
<1>6. CASE Remove /\ ~up.marker
  <2>1. dir' = dir \ {p} /\ UNCHANGED <<ok, marks>> /\ up'.pc = "touch"
    BY <1>2, <1>3, <1>6 DEF Remove, Step
  <2>2. Sent!Release(p) /\ UNCHANGED Marked!vars /\ UNCHANGED Pictured!vars
    BY <1>1, <1>2, <2>1 DEF Sent!Release, Marked!vars, Pictured!vars
  <2>3. HandedInv'
    BY <2>1 DEF HandedInv, Sending
  <2>4. QED
    BY <1>2, <2>2, <2>3 DEF HandsOver, Sent!Next
<1>7. CASE Touch
  <2>1. ok' = ok \union {p} /\ UNCHANGED <<dir, marks>> /\ up'.pc = "mark" /\ up'.file = p
    BY <1>2, <1>3, <1>7 DEF Touch, Step
  <2>2. Marked!Put(p) /\ UNCHANGED Sent!vars /\ UNCHANGED Pictured!vars
    BY <1>1, <2>1 DEF Marked!Put, Sent!vars, Pictured!vars
  <2>3. HandedInv'
    BY <2>1 DEF HandedInv, Sending
  <2>4. QED
    BY <1>2, <2>2, <2>3 DEF HandsOver, Marked!Next
<1>8. CASE Mark
  <2>1. p \in ok /\ UNCHANGED <<dir, ok>>
    BY <1>2, <1>8 DEF Mark, HandedInv
  <2>2. UNCHANGED Sent!vars
    BY <1>1, <2>1 DEF Sent!vars
  <2>3. CASE marks' = marks \union {p} /\ up' = [up EXCEPT !.pc = "unmark"]
    <3>1. Marked!Copy(p) /\ Pictured!Put(p)
      BY <1>1, <2>1, <2>3 DEF Marked!Copy, Pictured!Put
    <3>2. up'.pc = "unmark" /\ up'.file = p
      BY <1>2, <1>3, <2>3 DEF Step
    <3>3. HandedInv'
      BY <2>3, <3>2 DEF HandedInv, Followed
    <3>4. QED
      BY <1>2, <2>2, <3>1, <3>3 DEF HandsOver, Marked!Next, Pictured!Next
  <2>4. CASE up' = Resting /\ UNCHANGED marks
    <3>1. UNCHANGED Marked!vars /\ UNCHANGED Pictured!vars
      BY <1>1, <2>1, <2>4 DEF Marked!vars, Pictured!vars
    <3>2. HandedInv'
      BY <2>4 DEF HandedInv, Resting, Sending
    <3>3. QED
      BY <2>2, <3>1, <3>2 DEF HandsOver
  <2>5. QED
    BY <1>2, <1>8, <2>3, <2>4 DEF Mark
<1>9. CASE Unmark
  <2>1. ok' = ok \ {p} /\ UNCHANGED <<dir, marks>> /\ up' = Resting /\ up.pc = "unmark"
    BY <1>2, <1>9 DEF Unmark
  <2>2. p \in marks \union Converted
    BY <1>2, <1>4, <2>1 DEF HandedInv
  <2>3. Marked!Release(p) /\ UNCHANGED Sent!vars /\ UNCHANGED Pictured!vars
    BY <1>1, <2>1, <2>2 DEF Marked!Release, Sent!vars, Pictured!vars
  <2>4. HandedInv'
    BY <2>1 DEF HandedInv, Resting, Sending
  <2>5. QED
    BY <1>2, <2>3, <2>4 DEF HandsOver, Marked!Next
<1>10. QED
  BY <1>5, <1>6, <1>7, <1>8, <1>9

\* The other steps of the upload thread hand over nothing.
LEMMA HandCounts ==
  ASSUME TypeInv, HandedInv, Count \/ Check \/ Stop \/ CloseDir
  PROVE  HandsOver /\ HandedInv'
<1>1. UNCHANGED <<dir, ok, raw, marks, jpg>> /\ Converted' = Converted
  BY DEF Count, Check, Stop, CloseDir, UploadLeaves, photos, server, Converted
<1>2. HandsOver
  BY <1>1 DEF HandsOver, Sent!vars, Marked!vars, Pictured!vars
<1>3. \/ up'.pc = "look"
      \/ Sending /\ up'.pc \in {"check", "remove", "stop"} /\ up'.file = up.file /\ up'.marker = up.marker
  BY DEF TypeInv, TypeOK, Step, Count, Check, Stop, CloseDir, Resting, Sending
<1>4. up'.pc = "look" => HandedInv'
  BY DEF HandedInv, Sending
<1>5. QED
  BY <1>1, <1>2, <1>3, <1>4 DEF HandedInv, Sending, Followed

\* ysf_convert_photo writes the picture over one that is there, and removes the marker
\* when it is complete.
LEMMA HandConvert ==
  ASSUME TypeInv, KeptInv, HandedInv, Convert
  PROVE  HandsOver /\ HandedInv'
<1>1. UNCHANGED <<dir, ok, raw, up>>
  BY DEF Convert, ConvertStart, ConvertEnd, ConvertRemove, ServerLeaves
<1>2. UNCHANGED Sent!vars
  BY <1>1 DEF Sent!vars
<1>3. \A q \in Photo : Followed(q) <=> q \in marks \union Converted
  BY DEF Followed, Converted
<1>4. \A q \in Photo : Followed(q)' <=> q \in (marks \union Converted)'
  BY DEF Followed, Converted
<1>5. (Sending /\ up.marker) \/ up.pc = "unmark" => up.file \in Photo
  BY DEF Sending, TypeInv, Named
<1>6. ASSUME marks \union Converted \subseteq (marks \union Converted)'
      PROVE  HandedInv'
  BY <1>1, <1>3, <1>4, <1>5, <1>6 DEF HandedInv, Sending
<1>7. ASSUME NEW p \in Photo, ConvertStart(p) PROVE HandsOver /\ HandedInv'
  <2>1. p \in marks /\ marks' = marks /\ jpg' = [jpg EXCEPT ![p] = "torn"]
    BY <1>7 DEF ConvertStart
  <2>2. Converted' = Converted \ {p}
    BY <2>1 DEF Converted, TypeInv, TypeOK
  <2>3. (marks \union Converted)' = marks \union Converted
    BY <2>1, <2>2
  <2>4. Pictured!Overwrite(p) /\ UNCHANGED Marked!vars
    BY <1>1, <2>1, <2>2, <2>3 DEF Pictured!Overwrite, Marked!vars
  <2>5. QED
    BY <1>2, <1>6, <2>3, <2>4 DEF HandsOver, Pictured!Next
<1>8. ASSUME ConvertEnd PROVE HandsOver /\ HandedInv'
  <2>1. PICK p \in Photo : p = conv.photo /\ p \in marks
    BY <1>8 DEF ConvertEnd, TypeInv, Named, KeptInv
  <2>2. marks' = marks /\ (jpg' = jpg \/ jpg' = [jpg EXCEPT ![p] = "done"])
    BY <1>8, <2>1 DEF ConvertEnd
  <2>3. Converted' = Converted \/ Converted' = Converted \union {p}
    BY <2>2 DEF Converted, TypeInv, TypeOK
  <2>4. (marks \union Converted)' = marks \union Converted
    BY <2>1, <2>2, <2>3
  <2>5. UNCHANGED Marked!vars /\ (Pictured!Copy(p) \/ UNCHANGED Pictured!vars)
    BY <1>1, <2>1, <2>2, <2>3, <2>4 DEF Pictured!Copy, Marked!vars, Pictured!vars
  <2>6. QED
    BY <1>2, <1>6, <2>4, <2>5 DEF HandsOver, Pictured!Next
<1>9. ASSUME ConvertRemove PROVE HandsOver /\ HandedInv'
  <2>1. PICK p \in Photo : p = conv.photo /\ jpg[p] = "done"
    BY <1>9 DEF ConvertRemove, TypeInv, Named, KeptInv
  <2>2. marks' = marks \ {p} /\ Converted' = Converted /\ p \in Converted
    BY <1>9, <2>1 DEF ConvertRemove, Converted
  <2>3. (marks \union Converted)' = marks \union Converted
    BY <2>2
  <2>4. Pictured!Release(p) /\ UNCHANGED Marked!vars
    BY <1>1, <2>2, <2>3 DEF Pictured!Release, Marked!vars
  <2>5. QED
    BY <1>2, <1>6, <2>3, <2>4 DEF HandsOver, Pictured!Next
<1>10. QED
  BY <1>7, <1>8, <1>9 DEF Convert

\* The camera puts photos into the directory; the other steps leave the files alone.
LEMMA HandOthers ==
  ASSUME TypeInv, HandedInv, (Device \/ Server \/ World) /\ ~Convert
  PROVE  HandsOver /\ HandedInv'
<1>1. UNCHANGED <<ok, raw, marks, jpg>> /\ Converted' = Converted
  BY DEF Device, Server, World, upload_size_update, send_upload_warnning_to_server, RecvWarningResponse,
         RecvLimit, RecvConf, Heartbeat, RecvStatus, ClientRestart, RecvBeat, RecvWarning, DiskCheckTimer,
         ServerRestart, Midnight, DiskEdit, Loss, TakePhoto, LimitEdit, DeviceLeaves, ServerLeaves,
         WorldLeaves, photos, server, Converted
<1>2. up' = up \/ up' = Resting
  BY DEF Device, Server, World, upload_size_update, send_upload_warnning_to_server, RecvWarningResponse,
         RecvLimit, RecvConf, Heartbeat, RecvStatus, ClientRestart, RecvBeat, RecvWarning, DiskCheckTimer,
         ServerRestart, Midnight, DiskEdit, Loss, TakePhoto, LimitEdit, ServerLeaves, WorldLeaves
<1>3. HandedInv'
  <2>1. CASE up' = up
    BY <1>1, <2>1 DEF HandedInv, Sending, Followed
  <2>2. CASE up' = Resting
    BY <2>2 DEF HandedInv, Sending, Resting
  <2>3. QED
    BY <1>2, <2>1, <2>2
<1>4. UNCHANGED Marked!vars /\ UNCHANGED Pictured!vars
  BY <1>1 DEF Marked!vars, Pictured!vars
<1>5. UNCHANGED dir \/ \E p \in Photo : dir' = dir \union {p}
  <2>1. ASSUME NEW p, TakePhoto(p) PROVE p \in Photo /\ dir' = dir \union {p}
    BY <2>1, SetupsAreKnown DEF TakePhoto, TypeInv
  <2>2. CASE \A p \in Photo : ~TakePhoto(p)
    BY <2>2 DEF Device, Server, World, upload_size_update, send_upload_warnning_to_server, RecvWarningResponse,
         RecvLimit, RecvConf, Heartbeat, RecvStatus, ClientRestart, RecvBeat, RecvWarning, DiskCheckTimer,
         ServerRestart, Midnight, DiskEdit, Loss, LimitEdit, DeviceLeaves, ServerLeaves, WorldLeaves, photos
  <2>3. QED
    BY <2>1, <2>2
<1>6. [Sent!Next]_(Sent!vars)
  BY <1>1, <1>5 DEF Sent!Next, Sent!Put, Sent!vars
<1>7. QED
  BY <1>3, <1>4, <1>6 DEF HandsOver

\* Every step of the system does.
LEMMA HandStep ==
  ASSUME Followable, HandedInv, [Next]_vars
  PROVE  HandsOver /\ HandedInv'
<1>1. TypeInv /\ KeptInv
  BY DEF Followable
<1>2. CASE UNCHANGED vars
  BY <1>2 DEF vars, photos, server, HandsOver, Sent!vars, Marked!vars, Pictured!vars, Converted,
       HandedInv, Sending, Followed
<1>3. CASE ysf_rsync_photo
  BY <1>1, <1>3, HandUpload, HandSteps, HandCounts DEF ysf_rsync_photo
<1>4. CASE Convert
  BY <1>1, <1>4, HandConvert
<1>5. CASE (Device \/ Server \/ World) /\ ~Convert
  BY <1>1, <1>5, HandOthers
<1>6. QED
  BY <1>2, <1>3, <1>4, <1>5 DEF Next

\* A photo, its marker and the work it stands for are removed from their place only when
\* the next place has them: for any photos, and whatever fails, stops or is sent again.
THEOREM ImplementsHandOverHolds == Spec => ImplementsHandOver
<1>1. Init => HandedInv /\ Sent!Init /\ Marked!Init /\ Pictured!Init
  BY DEF Init, HandedInv, Sending, Resting, Sent!Init, Marked!Init, Pictured!Init, Converted
<1>2. Followable /\ HandedInv /\ [Next]_vars => HandsOver /\ HandedInv'
  BY HandStep
<1>3. HandsOver => [Sent!Next]_(Sent!vars) /\ [Marked!Next]_(Marked!vars) /\ [Pictured!Next]_(Pictured!vars)
  BY DEF HandsOver
<1>4. [Next /\ UNCHANGED setup]_<<vars, setup>> => [Next]_vars
  OBVIOUS
<1>5. QED
  BY <1>1, <1>2, <1>3, <1>4, FollowableHolds, PTL
     DEF Spec, ImplementsHandOver, Sent!Spec, Marked!Spec, Pictured!Spec

\* Hence what was put into one of the places is there or in the next one for good, and
\* what has left a place is not lost from the next one, unless that hands it on.
THEOREM NothingIsLost ==
    Spec => Sent!NothingLost /\ Marked!NothingLost /\ Pictured!NothingLost
<1>1. Sent!Spec => Sent!NothingLost
  <2>1. [Sent!Next]_(Sent!vars) =>
            [/\ dir \union raw \subseteq dir' \union raw'
             /\ raw \ dir \subseteq raw']_(Sent!vars)
    BY DEF Sent!Next, Sent!vars, Sent!Put, Sent!Copy, Sent!Overwrite, Sent!Release
  <2>2. QED
    BY <2>1, PTL DEF Sent!Spec, Sent!NothingLost
<1>2. Marked!Spec => Marked!NothingLost
  <2>1. [Marked!Next]_(Marked!vars) =>
            [/\ ok \union (marks \union Converted) \subseteq ok' \union (marks \union Converted)'
             /\ (marks \union Converted) \ ok \subseteq (marks \union Converted)']_(Marked!vars)
    BY DEF Marked!Next, Marked!vars, Marked!Put, Marked!Copy, Marked!Overwrite, Marked!Release
  <2>2. QED
    BY <2>1, PTL DEF Marked!Spec, Marked!NothingLost
<1>3. Pictured!Spec => Pictured!NothingLost
  <2>1. [Pictured!Next]_(Pictured!vars) =>
            [/\ marks \union Converted \subseteq marks' \union Converted'
             /\ Converted \ marks \subseteq Converted']_(Pictured!vars)
    BY DEF Pictured!Next, Pictured!vars, Pictured!Put, Pictured!Copy, Pictured!Overwrite, Pictured!Release
  <2>2. QED
    BY <2>1, PTL DEF Pictured!Spec, Pictured!NothingLost
<1>4. QED
  BY <1>1, <1>2, <1>3, ImplementsHandOverHolds, PTL DEF ImplementsHandOver

=============================================================================
