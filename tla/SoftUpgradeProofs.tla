-------------------------- MODULE SoftUpgradeProofs --------------------------
(***************************************************************************)
(* What SoftUpgrade keeps for any number of devices and threads, any       *)
(* limit, and whatever is lost, slow or restarted.                         *)
(***************************************************************************)
EXTENDS SoftUpgrade, FiniteSetTheorems, SequenceTheorems, TLAPS

\* The setup is one of the setups, and stays what it is.
SetupKnown == setup \in Setups
SetupStays == setup' = setup

\* What the proofs need of a setup.
LEMMA SetupParts ==
    ASSUME SetupKnown
    PROVE  setup.limit \in Nat
BY SetupsAreKnown DEF SetupKnown

\* A step of the specification is one of Next that leaves the setup alone.
LEMMA StepIsNext ==
    [Next /\ UNCHANGED setup]_<<vars, setup>> => [Next]_vars /\ SetupStays
BY DEF SetupStays

\* The setup is known in every state.
LEMMA SetupAlwaysKnown == Spec => []SetupKnown
<1>1. Init => SetupKnown
  BY DEF Init, SetupKnown
<1>2. SetupKnown /\ [Next /\ UNCHANGED setup]_<<vars, setup>> => SetupKnown'
  BY DEF SetupKnown
<1> QED BY <1>1, <1>2, PTL DEF Spec

-----------------------------------------------------------------------------
\* the parts of the type invariant
TableTypes ==
    /\ slot \in [Device -> {"none", "request", "ack"}]
    /\ aged \in [Device -> BOOLEAN] /\ held \in BOOLEAN

WorkTypes ==
    /\ work \in [Thread -> {NoWork} \cup [pc : {"take", "handle"}, dev : Device, msg : Messages]]
    /\ known \in [Device -> {"none", "old", "new"}]

NetTypes ==
    /\ down \in [Device -> {0, 1}]
    /\ up \in [Device -> Seq(Messages)]
    /\ link \in [Device -> BOOLEAN]

DeviceTypes ==
    /\ job \in [Device -> [Job -> {"idle", "rm", "respond", "wget", "fetch", "action", "unpack"}]]
    /\ archive \in [Device -> {"absent", "part", "whole"}]
    /\ runs \in [Device -> {"old", "new"}]

\* The parts make up the type invariant.
LEMMA TypeParts == TypeOK <=> TableTypes /\ WorkTypes /\ NetTypes /\ DeviceTypes
BY DEF TypeOK, TableTypes, WorkTypes, NetTypes, DeviceTypes

\* The same of the next state.
LEMMA TypePartsNext == TypeOK' <=> TableTypes' /\ WorkTypes' /\ NetTypes' /\ DeviceTypes'
BY DEF TypeOK, TableTypes, WorkTypes, NetTypes, DeviceTypes

\* The server and the devices start well typed.
LEMMA InitTyped == Init => TypeOK
<1> SUFFICES ASSUME Init PROVE TypeOK
  OBVIOUS
<1>1. TableTypes
  BY DEF Init, TableTypes
<1>2. WorkTypes
  BY DEF Init, WorkTypes
<1>3. NetTypes
  BY DEF Init, NetTypes
<1>4. DeviceTypes
  BY DEF Init, DeviceTypes
<1> QED BY <1>1, <1>2, <1>3, <1>4, TypeParts

\* A thread that is not idle works on a message of a device.
LEMMA BusyThread ==
    ASSUME TypeOK, NEW t \in Thread, work[t].pc # "idle"
    PROVE  work[t] \in [pc : {"take", "handle"}, dev : Device, msg : Messages]
BY DEF TypeOK, NoWork

\* An entry that is set or removed leaves the table well typed.
LEMMA TableTyped ==
    ASSUME TableTypes, NEW d \in Device,
           SetStatus(d, "request") \/ SetStatus(d, "ack") \/ RemoveEntry(d)
    PROVE  TableTypes'
<1>1. CASE SetStatus(d, "request")
  BY <1>1 DEF SetStatus, TableTypes
<1>2. CASE SetStatus(d, "ack")
  BY <1>2 DEF SetStatus, TableTypes
<1>3. CASE RemoveEntry(d)
  BY <1>3 DEF RemoveEntry, TableTypes
<1> QED BY <1>1, <1>2, <1>3

\* A step of a thread of the server keeps the types.
LEMMA ThreadTyped ==
    ASSUME TypeOK, NEW t \in Thread,
           TakeSlot(t) \/ Handle(t) \/ \E d \in Device : Recv(t, d)
    PROVE  TypeOK'
<1>1. CASE TakeSlot(t)
  <2> DEFINE d == work[t].dev
  <2>1. work[t] \in [pc : {"take", "handle"}, dev : Device, msg : Messages] /\ d \in Device
    BY <1>1, BusyThread DEF TakeSlot
  <2>2. TableTypes'
    BY <1>1, <2>1, TableTyped, TypeParts DEF TakeSlot
  <2>3. UNCHANGED <<known, up, link, device>>
        /\ work' = [work EXCEPT ![t].pc = "handle"]
        /\ (down' = down \/ down' = [down EXCEPT ![d] = 1])
    BY <1>1 DEF TakeSlot, SendRequest
  <2>4. WorkTypes'
    BY <2>1, <2>3 DEF TypeOK, WorkTypes
  <2>5. NetTypes' /\ DeviceTypes'
    BY <2>1, <2>3 DEF TypeOK, NetTypes, DeviceTypes, device
  <2> QED BY <2>2, <2>4, <2>5, TypePartsNext
<1>2. CASE Handle(t)
  <2> DEFINE d == work[t].dev
  <2>1. work[t] \in [pc : {"take", "handle"}, dev : Device, msg : Messages] /\ d \in Device
    BY <1>2, BusyThread DEF Handle
  <2>2. TableTypes'
    <3>1. SetStatus(d, "ack") \/ RemoveEntry(d) \/ UNCHANGED table
      BY <1>2 DEF Handle
    <3> QED BY <2>1, <3>1, TableTyped, TypeParts DEF table, TableTypes
  <2>3. WorkTypes'
    <3>1. work' = [work EXCEPT ![t] = NoWork]
      BY <1>2 DEF Handle
    <3>2. \/ known' = known
          \/ work[t].msg \in {"old", "new"} /\ known' = [known EXCEPT ![d] = work[t].msg]
      BY <1>2 DEF Handle
    <3>3. known' \in [Device -> {"none", "old", "new"}]
      BY <2>1, <3>2 DEF TypeOK
    <3> QED BY <3>1, <3>3 DEF TypeOK, WorkTypes
  <2>4. NetTypes' /\ DeviceTypes'
    BY <1>2 DEF Handle, TypeOK, NetTypes, DeviceTypes, net, device
  <2> QED BY <2>2, <2>3, <2>4, TypePartsNext
<1>3. ASSUME NEW d \in Device, Recv(t, d) PROVE TypeOK'
  <2>1. Head(up[d]) \in Messages /\ Tail(up[d]) \in Seq(Messages)
    BY <1>3 DEF Recv, TypeOK
  <2>2. WorkTypes'
    <3>1. PICK pc \in {"take", "handle"} :
            work' = [work EXCEPT ![t] = [pc |-> pc, dev |-> d, msg |-> Head(up[d])]]
      BY <1>3 DEF Recv
    <3> QED BY <1>3, <2>1, <3>1 DEF Recv, TypeOK, WorkTypes
  <2>3. NetTypes'
    BY <1>3, <2>1 DEF Recv, TypeOK, NetTypes
  <2>4. TableTypes' /\ DeviceTypes'
    BY <1>3 DEF Recv, TypeOK, TableTypes, DeviceTypes, table, device
  <2> QED BY <2>2, <2>3, <2>4, TypePartsNext
<1> QED BY <1>1, <1>2, <1>3

\* So do the main thread, time and a restart.
LEMMA MainTyped ==
    ASSUME TypeOK,
           \/ \E d \in Device : Age(d)
           \/ cnm_update_soft_status_timeout_check \/ ServerRestart
    PROVE  TypeOK'
<1>1. ASSUME NEW d \in Device, Age(d) PROVE TypeOK'
  BY <1>1 DEF Age, TypeOK, net, device
<1>2. CASE cnm_update_soft_status_timeout_check
  BY <1>2 DEF cnm_update_soft_status_timeout_check, TypeOK, net, device
<1>3. CASE ServerRestart
  <2>1. TableTypes'
    BY <1>3 DEF ServerRestart, TableTypes
  <2>2. WorkTypes'
    BY <1>3 DEF ServerRestart, WorkTypes
  <2>3. NetTypes'
    BY <1>3 DEF ServerRestart, NetTypes
  <2>4. DeviceTypes'
    BY <1>3, TypeParts DEF ServerRestart, DeviceTypes, device
  <2> QED BY <2>1, <2>2, <2>3, <2>4, TypePartsNext
<1> QED BY <1>1, <1>2, <1>3

\* What leaves a link is a prefix of what was under way.
LEMMA LeaveTyped ==
    ASSUME NetTypes, NEW d \in Device, Leave(d)
    PROVE  NetTypes'
<1>1. PICK n \in 0..Len(up[d]) : up' = [up EXCEPT ![d] = SubSeq(@, 1, n)]
  BY DEF Leave
<1>2. SubSeq(up[d], 1, n) \in Seq(Messages)
  <2>1. up[d] \in Seq(Messages) /\ Len(up[d]) \in Nat /\ n \in Nat /\ n <= Len(up[d])
    BY DEF NetTypes
  <2> QED BY <2>1, SubSeqProperties
<1> QED BY <1>1, <1>2 DEF Leave, NetTypes

\* What is written is one message more.
LEMMA WriteTyped ==
    ASSUME NetTypes, NEW d \in Device, NEW m \in Messages, Write(d, m)
    PROVE  up' \in [Device -> Seq(Messages)]
BY DEF NetTypes, Write

JobSteps == {"idle", "rm", "respond", "wget", "fetch", "action", "unpack"}

\* A thread of a device that goes to its next step, and threads that all end.
LEMMA JobTyped ==
    ASSUME DeviceTypes, NEW d \in Device
    PROVE  /\ [job EXCEPT ![d] = [i \in Job |-> "idle"]] \in [Device -> [Job -> JobSteps]]
           /\ \A j \in Job, to \in JobSteps :
                 [job EXCEPT ![d][j] = to] \in [Device -> [Job -> JobSteps]]
<1>1. job \in [Device -> [Job -> JobSteps]]
  BY DEF DeviceTypes, JobSteps
<1>2. [i \in Job |-> "idle"] \in [Job -> JobSteps]
  BY DEF JobSteps
<1>3. ASSUME NEW j \in Job, NEW to \in JobSteps
      PROVE  [job[d] EXCEPT ![j] = to] \in [Job -> JobSteps]
  BY <1>1
<1> QED BY <1>1, <1>2, <1>3

\* A step of a device keeps the types.
LEMMA DeviceTyped ==
    ASSUME TypeOK, NEW d \in Device,
           \/ Connect(d) \/ LinkDown(d) \/ ClientRestart(d) \/ Heartbeat(d)
           \/ \E j \in Job : Upgrading(d, j)
    PROVE  TypeOK'
<1>1. TableTypes' /\ WorkTypes'
  <2>1. ServerLeaves /\ (known' = known \/ known' = [known EXCEPT ![d] = "none"])
    BY DEF Connect, LinkDown, ClientRestart, Heartbeat, Upgrading, RecvRequest, UpdateRm,
           send_update_response_to_server, UpdateWget, UpdateFetched,
           send_update_action_to_server, UpdateInstall, DeviceLeaves
  <2> QED BY <2>1 DEF ServerLeaves, TypeOK, TableTypes, WorkTypes, table
<1>2. CASE Connect(d)
  BY <1>1, <1>2, TypePartsNext DEF Connect, TypeOK, NetTypes, DeviceTypes, device
<1>3. CASE LinkDown(d)
  <2>1. NetTypes' /\ UNCHANGED device
    BY <1>3, LeaveTyped, TypeParts DEF LinkDown
  <2> QED BY <1>1, <2>1, TypeParts, TypePartsNext DEF DeviceTypes, device
<1>4. CASE ClientRestart(d)
  <2>1. NetTypes'
    BY <1>4, LeaveTyped, TypeParts DEF ClientRestart
  <2>2. DeviceTypes'
    BY <1>4 DEF ClientRestart, TypeOK, DeviceTypes
  <2> QED BY <1>1, <2>1, <2>2, TypePartsNext
<1>5. CASE Heartbeat(d)
  <2>1. runs[d] \in Messages /\ Write(d, runs[d]) /\ UNCHANGED <<down, link, device>>
    BY <1>5 DEF Heartbeat, TypeOK, Messages
  <2>2. NetTypes'
    BY <2>1, WriteTyped, TypeParts DEF NetTypes
  <2> QED BY <1>1, <2>1, <2>2, TypeParts, TypePartsNext DEF DeviceTypes, device
<1>6. ASSUME NEW j \in Job, Upgrading(d, j) PROVE TypeOK'
  <2>1. CASE UpdateInstall(d, j)
    <3>1. NetTypes'
      BY <2>1, LeaveTyped, TypeParts DEF UpdateInstall, net, NetTypes
    <3>2. /\ runs' = runs \/ runs' = [runs EXCEPT ![d] = "new"]
          /\ archive' = archive \/ archive' = [archive EXCEPT ![d] = "absent"]
          /\ \/ job' = [job EXCEPT ![d] = [i \in Job |-> "idle"]]
             \/ job' = [job EXCEPT ![d][j] = "idle"]
      BY <2>1 DEF UpdateInstall
    <3>3. DeviceTypes
      BY TypeParts
    <3>4. job' \in [Device -> [Job -> JobSteps]]
      <4>1. "idle" \in JobSteps
        BY DEF JobSteps
      <4> QED BY <3>2, <3>3, <4>1, JobTyped
    <3>5. runs' \in [Device -> {"old", "new"}] /\ archive' \in [Device -> {"absent", "part", "whole"}]
      BY <3>2, <3>3 DEF DeviceTypes
    <3>6. DeviceTypes'
      BY <3>4, <3>5 DEF DeviceTypes, JobSteps
    <3> QED BY <1>1, <3>1, <3>6, TypePartsNext
  <2>2. CASE ~UpdateInstall(d, j)
    <3>1. UNCHANGED <<link, runs>>
      BY <1>6, <2>2 DEF Upgrading, RecvRequest, UpdateRm, send_update_response_to_server,
                        UpdateWget, UpdateFetched, send_update_action_to_server, DeviceLeaves
    <3>2. down' = down \/ down' = [down EXCEPT ![d] = 0]
      BY <1>6, <2>2 DEF Upgrading, RecvRequest, UpdateRm, send_update_response_to_server,
                        UpdateWget, UpdateFetched, send_update_action_to_server
    <3>3. up' = up \/ Write(d, "response") \/ Write(d, "action")
      BY <1>6, <2>2 DEF Upgrading, RecvRequest, UpdateRm, send_update_response_to_server,
                        UpdateWget, UpdateFetched, send_update_action_to_server
    <3>4. up' \in [Device -> Seq(Messages)]
      BY <3>3, WriteTyped, TypeParts DEF NetTypes, Messages
    <3>5. NetTypes'
      BY <3>1, <3>2, <3>4, TypeParts DEF NetTypes
    <3>6. \E to \in {"rm", "respond", "wget", "fetch", "action", "unpack"} :
            job' = [job EXCEPT ![d][j] = to]
      BY <1>6, <2>2 DEF Upgrading, RecvRequest, UpdateRm, send_update_response_to_server,
                        UpdateWget, UpdateFetched, send_update_action_to_server, Goes
    <3>7. \/ archive' = archive
          \/ \E a \in {"absent", "part", "whole"} : archive' = [archive EXCEPT ![d] = a]
      BY <1>6, <2>2, TypeParts DEF Upgrading, RecvRequest, UpdateRm, UpdateWget, UpdateFetched,
                        send_update_response_to_server, send_update_action_to_server, DeviceTypes
    <3>8. DeviceTypes'
      BY <3>1, <3>6, <3>7, JobTyped, TypeParts DEF DeviceTypes, JobSteps
    <3> QED BY <1>1, <3>5, <3>8, TypePartsNext
  <2> QED BY <2>1, <2>2
<1> QED BY <1>2, <1>3, <1>4, <1>5, <1>6

\* The type invariant, for every instance.
THEOREM TypeCorrect == Spec => []TypeOK
<1>1. TypeOK /\ [Next]_vars => TypeOK'
  <2> SUFFICES ASSUME TypeOK, [Next]_vars PROVE TypeOK'
    OBVIOUS
  <2>1. CASE Server
    BY <2>1, ThreadTyped, MainTyped DEF Server
  <2>2. CASE Devices
    BY <2>2, DeviceTyped DEF Devices
  <2>3. CASE UNCHANGED vars
    BY <2>3 DEF vars, TypeOK, table, net, device
  <2> QED BY <2>1, <2>2, <2>3 DEF Next
<1> QED BY <1>1, InitTyped, StepIsNext, PTL DEF Spec

-----------------------------------------------------------------------------
(* Requests that were not answered stay within the limit and one per thread. *)
(* The threads that have passed the comparison count as well: each may still *)
(* add a device without comparing again.                                     *)

\* What is counted is finite.
LEMMA CountsAreFinite == IsFiniteSet(Requested) /\ IsFiniteSet(Taking)
<1>1. Requested \subseteq Device /\ Taking \subseteq Thread
  BY DEF Requested, Taking
<1> QED BY <1>1, FiniteSystem, FS_Subset

\* A step that adds to neither of the two sets keeps the bound.
LEMMA SmallerKeepsBound ==
    ASSUME RequestsBounded, SetupKnown, NEW R, NEW T, R \subseteq Requested, T \subseteq Taking
    PROVE  Cardinality(R) + Cardinality(T) <= setup.limit + Cardinality(Thread)
<1>1. /\ Cardinality(R) \in Nat /\ Cardinality(Requested) \in Nat
      /\ Cardinality(R) <= Cardinality(Requested)
  BY CountsAreFinite, FS_Subset, FS_CardinalityType
<1>2. /\ Cardinality(T) \in Nat /\ Cardinality(Taking) \in Nat
      /\ Cardinality(T) <= Cardinality(Taking)
  BY CountsAreFinite, FS_Subset, FS_CardinalityType
<1>3. Cardinality(Thread) \in Nat /\ setup.limit \in Nat
  BY FiniteSystem, FS_CardinalityType, SetupParts
<1> QED BY <1>1, <1>2, <1>3 DEF RequestsBounded

\* A thread that takes an entry for a device gives up its own count for it.
LEMMA TradeKeepsBound ==
    ASSUME RequestsBounded, SetupKnown, NEW t \in Taking, NEW d,
           NEW R, R \subseteq Requested \cup {d}
    PROVE  Cardinality(R) + Cardinality(Taking \ {t}) <= setup.limit + Cardinality(Thread)
<1>1. /\ IsFiniteSet(Requested \cup {d})
      /\ Cardinality(Requested \cup {d}) \in Nat /\ Cardinality(Requested) \in Nat
      /\ Cardinality(Requested \cup {d}) <= Cardinality(Requested) + 1
  BY CountsAreFinite, FS_AddElement, FS_CardinalityType
<1>2. Cardinality(R) \in Nat /\ Cardinality(R) <= Cardinality(Requested \cup {d})
  BY <1>1, FS_Subset, FS_CardinalityType
<1>3. /\ Cardinality(Taking) \in Nat
      /\ Cardinality(Taking \ {t}) = Cardinality(Taking) - 1
  BY CountsAreFinite, FS_RemoveElement, FS_CardinalityType
<1>4. Cardinality(Thread) \in Nat /\ setup.limit \in Nat
  BY FiniteSystem, FS_CardinalityType, SetupParts
<1> QED BY <1>1, <1>2, <1>3, <1>4 DEF RequestsBounded

\* When a thread passes the comparison the limit holds without any thread, and
\* the threads add one each.
LEMMA ComparisonBounds ==
    ASSUME SetupKnown, NEW d \in Device, MayUpgrade(d), NEW T, T \subseteq Thread
    PROVE  Cardinality(Requested) + Cardinality(T) <= setup.limit + Cardinality(Thread)
<1> DEFINE Listed == {e \in Device : slot[e] # "none"}
<1>1. IsFiniteSet(Listed) /\ Requested \subseteq Listed
  <2>1. Listed \subseteq Device /\ Requested \subseteq Listed
    BY DEF Requested
  <2> QED BY <2>1, FiniteSystem, FS_Subset
<1>2. Cardinality(Requested) \in Nat /\ Cardinality(Requested) <= Cardinality(Listed)
  BY <1>1, CountsAreFinite, FS_Subset, FS_CardinalityType
<1>3. Cardinality(Listed) \in Nat /\ Cardinality(Listed) <= setup.limit
  BY <1>1, FS_CardinalityType DEF MayUpgrade, client_num
<1>4. Cardinality(T) \in Nat /\ Cardinality(T) <= Cardinality(Thread)
  BY FiniteSystem, FS_Subset, FS_CardinalityType
<1>5. Cardinality(Thread) \in Nat /\ setup.limit \in Nat
  BY FiniteSystem, FS_CardinalityType, SetupParts
<1> QED BY <1>2, <1>3, <1>4, <1>5

\* Steps of the devices, of the main thread, of time and restarts add nothing.
LEMMA OthersAddNothing ==
    ASSUME TypeOK,
           \/ Devices \/ UNCHANGED vars \/ cnm_update_soft_status_timeout_check
           \/ ServerRestart \/ \E d \in Device : Age(d)
    PROVE  Requested' \subseteq Requested /\ Taking' \subseteq Taking
<1>1. CASE Devices
  <2>1. UNCHANGED <<slot, work>>
    BY <1>1 DEF Devices, Connect, LinkDown, ClientRestart, Heartbeat, Upgrading, RecvRequest,
           UpdateRm, send_update_response_to_server, UpdateWget, UpdateFetched,
           send_update_action_to_server, UpdateInstall, DeviceLeaves, ServerLeaves, table
  <2> QED BY <2>1 DEF Requested, Taking
<1>2. CASE UNCHANGED vars
  BY <1>2 DEF vars, table, Requested, Taking
<1>3. CASE cnm_update_soft_status_timeout_check
  BY <1>3 DEF cnm_update_soft_status_timeout_check, Requested, Taking
<1>4. CASE ServerRestart
  BY <1>4 DEF ServerRestart, NoWork, Requested, Taking
<1>5. CASE \E d \in Device : Age(d)
  BY <1>5 DEF Age, Requested, Taking
<1> QED BY <1>1, <1>2, <1>3, <1>4, <1>5

\* An answer and the end of a download take a request out of the count.
LEMMA HandleAddsNothing ==
    ASSUME TypeOK, NEW t \in Thread, Handle(t)
    PROVE  Requested' \subseteq Requested /\ Taking' \subseteq Taking
<1> DEFINE d == work[t].dev
<1>1. d \in Device
  BY BusyThread DEF Handle
<1>2. slot' = slot \/ slot' = [slot EXCEPT ![d] = "ack"] \/ slot' = [slot EXCEPT ![d] = "none"]
  BY DEF Handle, SetStatus, RemoveEntry, table
<1>3. Requested' \subseteq Requested
  BY <1>1, <1>2 DEF Requested, TypeOK
<1>4. work' = [work EXCEPT ![t] = NoWork]
  BY DEF Handle
<1>5. Taking' \subseteq Taking
  BY <1>4 DEF Taking, TypeOK, NoWork
<1> QED BY <1>3, <1>5

\* A thread that takes the entry is no longer among those that take one.
LEMMA TakeSlotTrades ==
    ASSUME TypeOK, NEW t \in Thread, TakeSlot(t)
    PROVE  /\ t \in Taking /\ Taking' = Taking \ {t}
           /\ Requested' \subseteq Requested \cup {work[t].dev}
<1> DEFINE d == work[t].dev
<1>1. d \in Device /\ work[t].pc = "take"
  BY BusyThread DEF TakeSlot
<1>2. work' = [work EXCEPT ![t].pc = "handle"]
  BY DEF TakeSlot
<1>3. t \in Taking /\ Taking' = Taking \ {t}
  <2>1. work'[t].pc = "handle" /\ \A u \in Thread \ {t} : work'[u] = work[u]
    BY <1>1, <1>2, BusyThread DEF TypeOK
  <2> QED BY <1>1, <2>1 DEF Taking
<1>4. slot' = slot \/ slot' = [slot EXCEPT ![d] = "request"]
  BY DEF TakeSlot, SetStatus
<1>5. Requested' \subseteq Requested \cup {d}
  BY <1>1, <1>4 DEF Requested, TypeOK
<1> QED BY <1>3, <1>5

\* A thread that reads a message either passed the comparison, or takes nothing.
LEMMA RecvCompares ==
    ASSUME TypeOK, NEW t \in Thread, NEW d \in Device, Recv(t, d)
    PROVE  /\ Requested' = Requested /\ Taking' \subseteq Thread
           /\ Taking' \subseteq Taking \/ MayUpgrade(d)
<1>1. UNCHANGED table
  BY DEF Recv
<1>2. PICK pc \in {"take", "handle"} :
        /\ pc = "take" => MayUpgrade(d)
        /\ work' = [work EXCEPT ![t] = [pc |-> pc, dev |-> d, msg |-> Head(up[d])]]
  BY DEF Recv
<1>3. pc = "handle" => Taking' \subseteq Taking
  BY <1>2 DEF Taking, TypeOK
<1> QED BY <1>1, <1>2, <1>3 DEF table, Requested, Taking

\* Requests without an answer never exceed the limit by more than one for each
\* thread, for any number of devices and threads.
THEOREM RequestsBoundedHolds == Spec => []RequestsBounded
<1>1. Init => RequestsBounded
  <2> SUFFICES ASSUME Init PROVE RequestsBounded
    OBVIOUS
  <2>1. Requested = {} /\ Taking = {}
    BY DEF Init, Requested, Taking, NoWork
  <2>2. Cardinality(Thread) \in Nat /\ setup.limit \in Nat
    BY FiniteSystem, FS_CardinalityType, SetupParts DEF Init, SetupKnown
  <2> QED BY <2>1, <2>2, FS_EmptySet DEF RequestsBounded
<1>2. RequestsBounded /\ TypeOK /\ SetupKnown /\ [Next]_vars /\ SetupStays => RequestsBounded'
  <2> SUFFICES ASSUME RequestsBounded, TypeOK, SetupKnown, [Next]_vars, SetupStays
               PROVE  RequestsBounded'
    OBVIOUS
  <2>1. ASSUME Requested' \subseteq Requested, Taking' \subseteq Taking PROVE RequestsBounded'
    <3>1. Cardinality(Requested') + Cardinality(Taking') <= setup.limit + Cardinality(Thread)
      BY <2>1, SmallerKeepsBound
    <3> QED BY <3>1 DEF RequestsBounded, SetupStays
  <2>2. ASSUME NEW t \in Thread, TakeSlot(t) PROVE RequestsBounded'
    <3>1. Cardinality(Requested') + Cardinality(Taking') <= setup.limit + Cardinality(Thread)
      BY <2>2, TakeSlotTrades, TradeKeepsBound
    <3> QED BY <3>1 DEF RequestsBounded, SetupStays
  <2>3. ASSUME NEW t \in Thread, NEW d \in Device, Recv(t, d) PROVE RequestsBounded'
    <3>1. CASE MayUpgrade(d)
      <4>1. Cardinality(Requested) + Cardinality(Taking') <= setup.limit + Cardinality(Thread)
        BY <2>3, <3>1, RecvCompares, ComparisonBounds
      <4> QED BY <2>3, <4>1, RecvCompares DEF RequestsBounded, SetupStays
    <3>2. CASE ~MayUpgrade(d)
      BY <2>1, <2>3, <3>2, RecvCompares
    <3> QED BY <3>1, <3>2
  <2>4. CASE Server
    BY <2>1, <2>2, <2>3, <2>4, HandleAddsNothing, OthersAddNothing DEF Server
  <2>5. CASE Devices \/ UNCHANGED vars
    BY <2>1, <2>5, OthersAddNothing
  <2> QED BY <2>4, <2>5 DEF Next
<1> QED BY <1>1, <1>2, TypeCorrect, SetupAlwaysKnown, StepIsNext, PTL DEF Spec

-----------------------------------------------------------------------------
(* The table stands for the devices, as long as upgrades end within 1800     *)
(* seconds and nothing restarts.  The invariant says of each device how far  *)
(* its upgrade is: an entry without anything under way, a request that goes  *)
(* down, one thread at work whose messages go up, the end of the download    *)
(* that is still to be read, and nothing of that without the entry.          *)

\* a message of d is under way, or a thread of the server has it
Comes(d, m) ==
    \/ \E k \in 1..Len(up[d]) : up[d][k] = m
    \/ \E t \in Thread : work[t].dev = d /\ work[t].msg = m

\* an answer to a request, or the end of a download, is still to be handled
Due(d) == Comes(d, "response") \/ Comes(d, "action")

Idle(d) == \A j \in Job : job[d][j] = "idle"

\* no thread of the server works for d
Unread(d) == \A t \in Thread : work[t].dev # d

\* One thread of the device has the upgrade, and it has said no more than its steps.
OneJob(d) ==
    /\ \A i, j \in Job : job[d][i] # "idle" /\ job[d][j] # "idle" => i = j
    /\ \A j \in Job :
          /\ job[d][j] \in {"rm", "respond"} => ~Due(d)
          /\ job[d][j] \in {"wget", "fetch", "action"} => ~Comes(d, "action")
    /\ down[d] > 0 => ~Due(d) /\ Idle(d)

\* The entry is there until the end of the download was handled, and is not old before.
Covered(d) ==
    /\ aged[d] => down[d] = 0 /\ ~Due(d) /\ Idle(d)
    /\ slot[d] = "none" => down[d] = 0 /\ ~Due(d) /\ \A j \in Job : job[d][j] \in {"idle", "unpack"}
    /\ slot[d] = "none" /\ ~Idle(d) => up[d] = <<>> /\ Unread(d)

\* The end of the download is the last the device has said, and one thread reads it.
EndIsLast(d) ==
    /\ \A k \in 1..Len(up[d]) : up[d][k] = "action" => k = Len(up[d])
    /\ \A t \in Thread : work[t].dev = d /\ work[t].msg = "action" => up[d] = <<>>
    /\ \A t, u \in Thread : work[t].dev = d /\ work[u].dev = d => t = u

Stage(d) == OneJob(d) /\ Covered(d) /\ EndIsLast(d)

\* What the setups of EntryCoversDownload exclude.
LEMMA CalmMeans == Calm => ~May("slow") /\ ~May("late") /\ ~May("outage")
BY DEF Calm, May

\* Nothing is under way at the start.
LEMMA StageInit == ASSUME Init, NEW d \in Device PROVE Stage(d)
BY NoDeviceIsNoDevice
   DEF Init, Stage, OneJob, Covered, EndIsLast, Comes, Due, Idle, Unread, NoWork

\* A device whose messages, entry and threads a step leaves keeps its stage; its
\* messages may leave their thread.
LEMMA StageFrame ==
    ASSUME NEW e \in Device, Stage(e), UNCHANGED <<slot[e], aged[e], down[e], up[e], job[e]>>,
           \A t \in Thread : work'[t].dev = e => work[t].dev = e /\ work'[t].msg = work[t].msg
    PROVE  Stage(e)'
<1>1. \A m : Comes(e, m)' => Comes(e, m)
  BY DEF Comes
<1>2. (Due(e)' => Due(e)) /\ (Unread(e) => Unread(e)') /\ (Idle(e)' <=> Idle(e))
  BY <1>1 DEF Due, Unread, Idle
<1>3. OneJob(e)'
  BY <1>1, <1>2 DEF Stage, OneJob
<1>4. Covered(e)'
  BY <1>2 DEF Stage, Covered
<1>5. EndIsLast(e)'
  BY DEF Stage, EndIsLast
<1> QED BY <1>3, <1>4, <1>5 DEF Stage

\* What is left when the first message is taken.
LEMMA TailParts ==
    ASSUME NEW s \in Seq(Messages), s # <<>>
    PROVE  /\ Len(s) \in Nat /\ 1 \in 1..Len(s) /\ Head(s) = s[1]
           /\ \A k \in 1..Len(Tail(s)) : k + 1 \in 1..Len(s) /\ Tail(s)[k] = s[k + 1]
           /\ Len(Tail(s)) = Len(s) - 1
           /\ Len(s) = 1 => Tail(s) = <<>>
<1>1. /\ Len(s) \in Nat /\ Len(s) > 0 /\ Head(s) = s[1]
      /\ Len(Tail(s)) = Len(s) - 1 /\ Tail(s) \in Seq(Messages)
  OBVIOUS
<1>2. \A k \in 1..Len(Tail(s)) : Tail(s)[k] = s[k + 1]
  BY HeadTailProperties
<1>3. Len(s) = 1 => Tail(s) = <<>>
  <2>1. Len(s) = 1 => Len(Tail(s)) = 0
    BY <1>1
  <2> QED BY <1>1, <2>1, EmptySeq
<1> QED BY <1>1, <1>2, <1>3

\* A message that a thread takes.
LEMMA RecvStage ==
    ASSUME TypeOK, NEW t \in Thread, NEW d \in Device, Recv(t, d), NEW e \in Device, Stage(e)
    PROVE  Stage(e)'
<1>1. UNCHANGED <<slot, aged, down, job>>
  BY DEF Recv, table, device
<1>2. PICK pc : work' = [work EXCEPT ![t] = [pc |-> pc, dev |-> d, msg |-> Head(up[d])]]
  BY DEF Recv
<1>3. /\ up[d] \in Seq(Messages) /\ up[d] # <<>> /\ up' = [up EXCEPT ![d] = Tail(@)]
      /\ work[t] = NoWork /\ \A u \in Thread : work[u].dev # d
  BY DEF Recv, TypeOK
<1>4. /\ work'[t].dev = d /\ work'[t].msg = Head(up[d])
      /\ \A u \in Thread : u # t => work'[u] = work[u]
  BY <1>2 DEF TypeOK
<1>5. up'[d] = Tail(up[d]) /\ (e # d => up'[e] = up[e])
  BY <1>3 DEF TypeOK
<1>6. CASE e # d
  BY <1>1, <1>4, <1>5, <1>6, StageFrame
<1>7. CASE e = d
  <2>1. /\ Len(up[d]) \in Nat /\ 1 \in 1..Len(up[d]) /\ Head(up[d]) = up[d][1]
        /\ \A k \in 1..Len(up'[d]) : k + 1 \in 1..Len(up[d]) /\ up'[d][k] = up[d][k + 1]
        /\ Len(up'[d]) = Len(up[d]) - 1
        /\ Len(up[d]) = 1 => up'[d] = <<>>
    BY <1>3, <1>5, TailParts
  <2>2. \A m : Comes(d, m)' => Comes(d, m)
    BY <1>3, <1>4, <2>1 DEF Comes
  <2>3. (Due(d)' => Due(d)) /\ (Idle(d)' <=> Idle(d))
    BY <1>1, <2>2 DEF Due, Idle
  <2>4. OneJob(d)'
    BY <1>1, <1>7, <2>2, <2>3 DEF Stage, OneJob
  <2>5. Covered(d)'
    BY <1>1, <1>3, <1>7, <2>3 DEF Stage, Covered
  <2>6. \A k \in 1..Len(up'[d]) : up'[d][k] = "action" => k = Len(up'[d])
    BY <1>7, <2>1 DEF Stage, EndIsLast
  <2>7. \A u \in Thread : work'[u].dev = d => u = t
    BY <1>3, <1>4
  <2>8. Head(up[d]) = "action" => up'[d] = <<>>
    BY <1>7, <2>1 DEF Stage, EndIsLast
  <2>9. EndIsLast(d)'
    BY <1>4, <2>6, <2>7, <2>8 DEF EndIsLast
  <2> QED BY <1>7, <2>4, <2>5, <2>9 DEF Stage
<1> QED BY <1>6, <1>7

\* The thread goes on to the message after it has looked at the table.
LEMMA TakeSlotStage ==
    ASSUME TypeOK, NEW t \in Thread, TakeSlot(t), NEW e \in Device, Stage(e)
    PROVE  Stage(e)'
<1>1. PICK d \in Device : d = work[t].dev /\ work[t] \in [pc : {"take", "handle"}, dev : Device, msg : Messages]
  BY BusyThread DEF TakeSlot
<1>2. /\ UNCHANGED <<up, job>> /\ work' = [work EXCEPT ![t].pc = "handle"]
      /\ SetStatus(d, "request")
      /\ (slot'[d] # slot[d] /\ SendRequest(d)) \/ down' = down
  BY <1>1 DEF TakeSlot, device
<1>3. \A u \in Thread : work'[u].dev = work[u].dev /\ work'[u].msg = work[u].msg
  BY <1>1, <1>2 DEF TypeOK
<1>4. down' = down \/ down' = [down EXCEPT ![d] = 1]
  BY <1>2 DEF SendRequest
<1>5. CASE UNCHANGED <<slot, aged>>
  <2>1. down' = down
    BY <1>2, <1>5
  <2> QED BY <1>2, <1>3, <1>5, <2>1, StageFrame
<1>6. CASE /\ slot[d] = "none" /\ slot' = [slot EXCEPT ![d] = "request"]
           /\ aged' = [aged EXCEPT ![d] = FALSE]
  <2>1. CASE e # d
    <3>1. UNCHANGED <<slot[e], aged[e], down[e]>>
      BY <1>1, <1>4, <1>6, <2>1 DEF TypeOK
    <3> QED BY <1>2, <1>3, <3>1, StageFrame
  <2>2. CASE e = d
    <3>1. slot'[d] = "request" /\ aged'[d] = FALSE
      BY <1>1, <1>6 DEF TypeOK
    <3>2. ~Due(d) /\ Idle(d)
      BY <1>1, <1>6, <2>2 DEF Stage, Covered, Unread
    <3>3. ~Due(d)' /\ Idle(d)'
      BY <1>2, <1>3, <3>2 DEF Due, Comes, Idle
    <3>4. OneJob(d)'
      BY <3>3 DEF OneJob, Idle
    <3>5. Covered(d)'
      BY <3>1 DEF Covered
    <3>6. EndIsLast(d)'
      BY <1>2, <1>3, <2>2 DEF Stage, EndIsLast
    <3> QED BY <2>2, <3>4, <3>5, <3>6 DEF Stage
  <2> QED BY <2>1, <2>2
<1> QED BY <1>2, <1>5, <1>6 DEF SetStatus

\* The message is handled: an answer moves the entry, the end of the download removes it.
LEMMA HandleStage ==
    ASSUME TypeOK, NEW t \in Thread, Handle(t), NEW e \in Device, Stage(e)
    PROVE  Stage(e)'
<1>1. PICK d \in Device : d = work[t].dev /\ work[t] \in [pc : {"take", "handle"}, dev : Device, msg : Messages]
  BY BusyThread DEF Handle
<1>2. UNCHANGED <<up, job, down>> /\ work' = [work EXCEPT ![t] = NoWork]
  BY DEF Handle, net, device
<1>3. work'[t].dev = NoDevice /\ \A u \in Thread : u # t => work'[u] = work[u]
  BY <1>2 DEF TypeOK, NoWork
<1>4. \A f \in Device, u \in Thread : work'[u].dev = f => u # t /\ work'[u] = work[u]
  BY <1>3, NoDeviceIsNoDevice
<1>5. CASE UNCHANGED <<slot, aged>>
  BY <1>2, <1>4, <1>5, StageFrame
<1>6. CASE e # d
  <2>1. UNCHANGED <<slot[e], aged[e]>>
    BY <1>1, <1>6 DEF Handle, SetStatus, RemoveEntry, TypeOK, table
  <2> QED BY <1>2, <1>4, <2>1, StageFrame
<1>7. CASE e = d /\ work[t].msg = "response" /\ SetStatus(d, "ack") /\ ~UNCHANGED <<slot, aged>>
  <2>1. Due(d)
    BY <1>1, <1>7 DEF Due, Comes
  <2>2. slot[d] # "none"
    BY <1>7, <2>1 DEF Stage, Covered
  <2>3. slot'[d] = "ack" /\ aged'[d] = FALSE
    BY <1>1, <1>7, <2>2 DEF SetStatus, TypeOK
  <2>4. \A m : Comes(d, m)' => Comes(d, m)
    BY <1>1, <1>2, <1>4 DEF Comes
  <2>5. OneJob(d)'
    BY <1>2, <1>7, <2>4 DEF Stage, OneJob, Due, Idle
  <2>6. Covered(d)'
    BY <2>3 DEF Covered
  <2>7. EndIsLast(d)'
    BY <1>1, <1>2, <1>4, <1>7 DEF Stage, EndIsLast
  <2> QED BY <1>7, <2>5, <2>6, <2>7 DEF Stage
<1>8. CASE e = d /\ work[t].msg = "action" /\ RemoveEntry(d)
  <2>1. Comes(d, "action") /\ Due(d)
    BY <1>1, <1>8 DEF Due, Comes
  <2>2. up[d] = <<>> /\ \A u \in Thread : work[u].dev = d => u = t
    BY <1>1, <1>8 DEF Stage, EndIsLast
  <2>3. Unread(d)' /\ up'[d] = <<>>
    BY <1>1, <1>2, <1>4, <2>2 DEF Unread
  <2>4. ~Due(d)'
    BY <2>3 DEF Due, Comes, Unread
  <2>5. down'[d] = 0 /\ \A j \in Job : job'[d][j] \in {"idle", "unpack"}
    <3>1. down[d] \in {0, 1} /\ \A j \in Job : job[d][j] \in {"idle", "rm", "respond", "wget", "fetch", "action", "unpack"}
      BY <1>1 DEF TypeOK
    <3>2. down[d] = 0
      BY <1>8, <2>1, <3>1 DEF Stage, OneJob
    <3>3. \A j \in Job : job[d][j] \in {"idle", "unpack"}
      BY <1>8, <2>1, <3>1 DEF Stage, OneJob
    <3> QED BY <1>2, <3>2, <3>3
  <2>6. aged'[d] = FALSE
    BY <1>1, <1>8 DEF RemoveEntry, TypeOK
  <2>7. OneJob(d)'
    BY <1>2, <1>8, <2>4, <2>5 DEF Stage, OneJob, Idle
  <2>8. Covered(d)'
    BY <2>3, <2>4, <2>5, <2>6 DEF Covered
  <2>9. EndIsLast(d)'
    BY <2>3 DEF EndIsLast, Unread
  <2> QED BY <1>8, <2>7, <2>8, <2>9 DEF Stage
<1> QED BY <1>1, <1>5, <1>6, <1>7, <1>8 DEF Handle, table

\* Old entries are freed; they are those of devices that have nothing under way.
LEMMA TimeStage ==
    ASSUME TypeOK, Calm, NEW e \in Device, Stage(e),
           cnm_update_soft_status_timeout_check \/ \E d \in Device : Age(d)
    PROVE  Stage(e)'
<1>1. UNCHANGED <<work, down, up, job>>
  BY DEF cnm_update_soft_status_timeout_check, Age, net, device
<1>2. (Due(e)' <=> Due(e)) /\ (Idle(e)' <=> Idle(e)) /\ (Unread(e)' <=> Unread(e))
  BY <1>1 DEF Due, Comes, Idle, Unread
<1>3. OneJob(e)' /\ EndIsLast(e)'
  BY <1>1, <1>2 DEF Stage, OneJob, EndIsLast, Comes
<1>4. CASE cnm_update_soft_status_timeout_check
  <2>1. aged'[e] = FALSE /\ slot'[e] = IF aged[e] THEN "none" ELSE slot[e]
    BY <1>4 DEF cnm_update_soft_status_timeout_check
  <2>2. aged[e] => down[e] = 0 /\ ~Due(e) /\ Idle(e)
    BY DEF Stage, Covered
  <2>3. Covered(e)'
    BY <1>1, <1>2, <2>1, <2>2 DEF Stage, Covered, Idle
  <2> QED BY <1>3, <2>3 DEF Stage
<1>5. ASSUME NEW d \in Device, Age(d) PROVE Stage(e)'
  <2>1. slot' = slot /\ aged' = [aged EXCEPT ![d] = TRUE] /\ Working(d) = {} /\ ~UnderWay(d)
    BY <1>5, CalmMeans DEF Age
  <2>2. e # d => aged'[e] = aged[e]
    BY <2>1 DEF TypeOK
  <2>3. down[d] = 0 /\ ~Due(d) /\ Idle(d)
    <3>1. Idle(d)
      BY <2>1 DEF Working, Idle
    <3>2. down[d] \in {0, 1} /\ ~(down[d] > 0)
      BY <2>1 DEF UnderWay, TypeOK
    <3>3. ~Due(d)
      BY <2>1 DEF UnderWay, Due, Comes
    <3> QED BY <3>1, <3>2, <3>3
  <2>4. Covered(e)'
    BY <1>1, <1>2, <2>1, <2>2, <2>3 DEF Stage, Covered
  <2> QED BY <1>3, <2>4 DEF Stage
<1> QED BY <1>4, <1>5

\* A thread at work is the only one.
LEMMA JobAlone ==
    ASSUME TypeOK, NEW d \in Device, Stage(d), NEW j \in Job, job[d][j] # "idle",
           NEW to, job' = [job EXCEPT ![d][j] = to]
    PROVE  /\ job'[d][j] = to /\ ~Idle(d)
           /\ \A i \in Job : i # j => job[d][i] = "idle" /\ job'[d][i] = "idle"
           /\ \A e \in Device : e # d => job'[e] = job[e]
<1>1. job \in [Device -> [Job -> {"idle", "rm", "respond", "wget", "fetch", "action", "unpack"}]]
  BY DEF TypeOK
<1>2. job'[d][j] = to /\ \A i \in Job : i # j => job'[d][i] = job[d][i]
  BY <1>1
<1>3. \A i \in Job : i # j => job[d][i] = "idle"
  BY DEF Stage, OneJob
<1> QED BY <1>1, <1>2, <1>3 DEF Idle

\* The steps that say nothing to the server.
LEMMA QuietJobStage ==
    ASSUME TypeOK, NEW d \in Device, NEW j \in Job,
           UpdateRm(d, j) \/ UpdateWget(d, j) \/ UpdateFetched(d, j), NEW e \in Device, Stage(e), Stage(d)
    PROVE  Stage(e)'
<1>1. UNCHANGED <<slot, aged, work, down, up>>
  BY DEF UpdateRm, UpdateWget, UpdateFetched, DeviceLeaves, ServerLeaves, table
<1>2. PICK to \in {"respond", "fetch", "action"} :
        /\ job' = [job EXCEPT ![d][j] = to] /\ job[d][j] \in {"rm", "wget", "fetch"}
        /\ to = "respond" <=> job[d][j] = "rm"
  BY DEF UpdateRm, UpdateWget, UpdateFetched, Goes
<1>3. /\ job'[d][j] = to /\ ~Idle(d)
      /\ \A i \in Job : i # j => job[d][i] = "idle" /\ job'[d][i] = "idle"
      /\ \A f \in Device : f # d => job'[f] = job[f]
  BY <1>2, JobAlone
<1>4. CASE e # d
  BY <1>1, <1>3, <1>4, StageFrame
<1>5. CASE e = d
  <2>1. slot[d] # "none" /\ ~aged[d] /\ ~(down[d] > 0)
    BY <1>2, <1>3, <1>5 DEF Stage, Covered, OneJob
  <2>2. \A m : Comes(d, m)' <=> Comes(d, m)
    BY <1>1 DEF Comes
  <2>3. OneJob(d)'
    BY <1>1, <1>2, <1>3, <1>5, <2>1, <2>2 DEF Stage, OneJob, Due
  <2>4. Covered(d)'
    BY <1>1, <2>1 DEF Covered
  <2>5. EndIsLast(d)'
    BY <1>1, <1>5 DEF Stage, EndIsLast
  <2> QED BY <1>5, <2>3, <2>4, <2>5 DEF Stage
<1> QED BY <1>4, <1>5

\* What is written is the last message, and the others stay.
LEMMA WriteParts ==
    ASSUME TypeOK, NEW d \in Device, NEW m \in Messages, Write(d, m)
    PROVE  /\ Len(up[d]) \in Nat /\ Len(up'[d]) = Len(up[d]) + 1 /\ up'[d][Len(up'[d])] = m
           /\ \A k \in 1..Len(up[d]) : up'[d][k] = up[d][k]
           /\ \A k \in 1..Len(up'[d]) : k \in 1..Len(up[d]) \/ k = Len(up'[d])
           /\ \A f \in Device : f # d => up'[f] = up[f]
<1>1. up[d] \in Seq(Messages) /\ up'[d] = Append(up[d], m) /\ \A f \in Device : f # d => up'[f] = up[f]
  BY DEF Write, TypeOK
<1>2. Len(up[d]) \in Nat /\ Len(up'[d]) = Len(up[d]) + 1
  BY <1>1
<1>3. up'[d][Len(up'[d])] = m /\ \A k \in 1..Len(up[d]) : up'[d][k] = up[d][k]
  BY <1>1, <1>2
<1> QED BY <1>1, <1>2, <1>3

\* The steps that say something.
LEMMA TellingJobStage ==
    ASSUME TypeOK, NEW d \in Device, NEW j \in Job,
           send_update_response_to_server(d, j) \/ send_update_action_to_server(d, j),
           NEW e \in Device, Stage(e), Stage(d)
    PROVE  Stage(e)'
<1>1. UNCHANGED <<slot, aged, work, down>>
  BY DEF send_update_response_to_server, send_update_action_to_server, DeviceLeaves, ServerLeaves, table
<1>2. PICK m \in {"response", "action"}, to \in {"wget", "unpack"} :
        /\ Write(d, m)
        /\ job[d][j] = IF m = "response" THEN "respond" ELSE "action"
        /\ to = IF m = "response" THEN "wget" ELSE "unpack"
        /\ job' = [job EXCEPT ![d][j] = to]
  BY DEF send_update_response_to_server, send_update_action_to_server, Goes
<1>3. /\ job'[d][j] = to /\ ~Idle(d)
      /\ \A i \in Job : i # j => job[d][i] = "idle" /\ job'[d][i] = "idle"
      /\ \A f \in Device : f # d => job'[f] = job[f]
  <2>1. job[d][j] # "idle"
    BY <1>2
  <2>2. job' = [job EXCEPT ![d][j] = to]
    BY <1>2
  <2> QED BY <2>1, <2>2, JobAlone
<1>4. /\ Len(up[d]) \in Nat /\ Len(up'[d]) = Len(up[d]) + 1 /\ up'[d][Len(up'[d])] = m
      /\ \A k \in 1..Len(up[d]) : up'[d][k] = up[d][k]
      /\ \A k \in 1..Len(up'[d]) : k \in 1..Len(up[d]) \/ k = Len(up'[d])
      /\ \A f \in Device : f # d => up'[f] = up[f]
  BY <1>2, WriteParts DEF Messages
<1>5. CASE e # d
  BY <1>1, <1>3, <1>4, <1>5, StageFrame
<1>6. CASE e = d
  <2>1. slot[d] # "none" /\ ~aged[d] /\ ~(down[d] > 0)
    BY <1>2, <1>3, <1>6 DEF Stage, Covered, OneJob
  <2>2. ~Comes(d, "action")
    BY <1>2, <1>6 DEF Stage, OneJob, Due
  <2>3. m = "response" => ~Comes(d, "action")'
    BY <1>1, <1>4, <2>2 DEF Comes
  <2>4. OneJob(d)'
    BY <1>1, <1>2, <1>3, <2>1, <2>3 DEF OneJob
  <2>5. Covered(d)'
    BY <1>1, <2>1 DEF Covered
  <2>6. EndIsLast(d)'
    BY <1>1, <1>4, <1>6, <2>2 DEF Stage, EndIsLast, Comes
  <2> QED BY <1>6, <2>4, <2>5, <2>6 DEF Stage
<1> QED BY <1>5, <1>6

\* A request that has come down is given to a thread.
LEMMA RequestStage ==
    ASSUME TypeOK, NEW d \in Device, NEW j \in Job, RecvRequest(d, j), NEW e \in Device, Stage(e)
    PROVE  Stage(e)'
<1>1. /\ UNCHANGED <<slot, aged, work, up>> /\ down[d] > 0
      /\ down' = [down EXCEPT ![d] = 0] /\ job' = [job EXCEPT ![d][j] = "rm"]
  BY DEF RecvRequest, DeviceLeaves, ServerLeaves, table
<1>2. /\ job \in [Device -> [Job -> {"idle", "rm", "respond", "wget", "fetch", "action", "unpack"}]]
      /\ down \in [Device -> {0, 1}]
  BY DEF TypeOK
<1>3. /\ job'[d][j] = "rm" /\ \A i \in Job : i # j => job'[d][i] = job[d][i]
      /\ down'[d] = 0
      /\ \A f \in Device : f # d => job'[f] = job[f] /\ down'[f] = down[f]
  BY <1>1, <1>2
<1>4. CASE e # d
  BY <1>1, <1>3, <1>4, StageFrame
<1>5. CASE e = d
  <2>1. ~Due(d) /\ Idle(d) /\ down[d] # 0
    BY <1>1, <1>5 DEF Stage, OneJob
  <2>2. slot[d] # "none" /\ ~aged[d]
    BY <1>5, <2>1 DEF Stage, Covered
  <2>3. ~Due(d)'
    BY <1>1, <2>1 DEF Due, Comes
  <2>4. OneJob(d)'
    BY <1>3, <2>1, <2>3 DEF OneJob, Idle
  <2>5. Covered(d)'
    BY <1>1, <2>2 DEF Covered
  <2>6. EndIsLast(d)'
    BY <1>1, <1>5 DEF Stage, EndIsLast
  <2> QED BY <1>5, <2>4, <2>5, <2>6 DEF Stage
<1> QED BY <1>4, <1>5

\* A heartbeat comes when everything was read, and not between the end of the download
\* and update.sh.
LEMMA HeartbeatStage ==
    ASSUME TypeOK, Calm, NEW d \in Device, Heartbeat(d), NEW e \in Device, Stage(e)
    PROVE  Stage(e)'
<1>1. /\ UNCHANGED <<slot, aged, work, down, job>> /\ Write(d, runs[d]) /\ runs[d] \in {"old", "new"}
      /\ up[d] = <<>> /\ Unread(d) /\ \A j \in Job : job[d][j] # "unpack"
  BY CalmMeans DEF Heartbeat, ServerLeaves, table, device, Unread, TypeOK
<1>2. /\ Len(up[d]) \in Nat /\ Len(up'[d]) = Len(up[d]) + 1 /\ up'[d][Len(up'[d])] = runs[d]
      /\ \A k \in 1..Len(up'[d]) : k \in 1..Len(up[d]) \/ k = Len(up'[d])
      /\ \A f \in Device : f # d => up'[f] = up[f]
  BY <1>1, WriteParts DEF Messages
<1>3. CASE e # d
  BY <1>1, <1>2, <1>3, StageFrame
<1>4. CASE e = d
  <2>1. \A k \in 1..Len(up'[d]) : up'[d][k] \in {"old", "new"}
    BY <1>1, <1>2
  <2>2. ~Comes(d, "action")' /\ ~Due(d)'
    BY <1>1, <2>1 DEF Due, Comes, Unread
  <2>3. OneJob(d)'
    BY <1>1, <1>4, <2>2 DEF Stage, OneJob, Idle
  <2>4. slot[d] = "none" => Idle(d)
    BY <1>1, <1>4 DEF Stage, Covered, Idle
  <2>5. Covered(d)'
    BY <1>1, <1>4, <2>2, <2>4 DEF Stage, Covered, Idle
  <2>6. EndIsLast(d)'
    BY <1>1, <2>1 DEF EndIsLast, Unread
  <2> QED BY <1>4, <2>3, <2>5, <2>6 DEF Stage
<1> QED BY <1>3, <1>4

\* update.sh restarts the device, or there is none and the thread ends.
LEMMA InstallStage ==
    ASSUME TypeOK, NEW d \in Device, NEW j \in Job, UpdateInstall(d, j), NEW e \in Device, Stage(e), Stage(d)
    PROVE  Stage(e)'
<1>1. UNCHANGED <<slot, aged, work>> /\ job[d][j] = "unpack"
  BY DEF UpdateInstall, ServerLeaves, table
<1>2. ~aged[d] /\ ~(down[d] > 0)
  BY <1>1 DEF Stage, Covered, OneJob, Idle
<1>3. CASE archive[d] = "whole"
  <2>1. Leave(d) /\ job' = [job EXCEPT ![d] = [i \in Job |-> "idle"]]
    BY <1>3 DEF UpdateInstall
  <2>2. PICK n \in 0..Len(up[d]) : up' = [up EXCEPT ![d] = SubSeq(@, 1, n)] /\ down' = [down EXCEPT ![d] = 0]
    BY <2>1 DEF Leave
  <2>3. /\ Idle(d)' /\ down'[d] = 0 /\ up'[d] = SubSeq(up[d], 1, n)
        /\ \A f \in Device : f # d => job'[f] = job[f] /\ up'[f] = up[f] /\ down'[f] = down[f]
    BY <2>1, <2>2 DEF Idle, TypeOK
  <2>4. /\ Len(up[d]) \in Nat /\ n <= Len(up[d]) /\ Len(up'[d]) = n
        /\ \A k \in 1..n : k \in 1..Len(up[d]) /\ up'[d][k] = up[d][k]
        /\ up[d] = <<>> => up'[d] = <<>>
    <3>1. up[d] \in Seq(Messages) /\ Len(up[d]) \in Nat /\ n \in Nat /\ n <= Len(up[d])
      BY <2>2 DEF TypeOK
    <3>2. /\ SubSeq(up[d], 1, n) \in Seq(Messages)
          /\ Len(SubSeq(up[d], 1, n)) = IF 1 <= n THEN n - 1 + 1 ELSE 0
          /\ \A k \in 1..n : SubSeq(up[d], 1, n)[k] = up[d][1 + k - 1]
      BY <3>1, SubSeqProperties
    <3>3. \A k \in 1..n : k \in 1..Len(up[d]) /\ up'[d][k] = up[d][k]
      BY <2>3, <3>1, <3>2
    <3>4. up[d] = <<>> => Len(up'[d]) = 0
      BY <2>3, <3>1, <3>2
    <3>5. up[d] = <<>> => up'[d] = <<>>
      BY <2>3, <3>2, <3>4, EmptySeq
    <3>6. Len(up'[d]) = n
      BY <2>3, <3>1, <3>2
    <3> QED BY <3>1, <3>3, <3>5, <3>6
  <2>5. CASE e # d
    BY <1>1, <2>3, <2>5, StageFrame
  <2>6. CASE e = d
    <3>1. \A m : Comes(d, m)' => Comes(d, m)
      BY <1>1, <2>4 DEF Comes
    <3>2. OneJob(d)'
      BY <2>3 DEF OneJob, Idle
    <3>3. Covered(d)'
      BY <1>1, <1>2, <2>3, <2>6, <3>1 DEF Stage, Covered, Idle, Due
    <3>4. \A k \in 1..Len(up'[d]) : up'[d][k] = "action" => k = Len(up'[d])
      BY <2>4, <2>6 DEF Stage, EndIsLast
    <3>5. EndIsLast(d)'
      BY <1>1, <2>4, <2>6, <3>4 DEF Stage, EndIsLast
    <3> QED BY <2>6, <3>2, <3>3, <3>5 DEF Stage
  <2> QED BY <2>5, <2>6
<1>4. CASE archive[d] # "whole"
  <2>1. UNCHANGED <<up, down>> /\ job' = [job EXCEPT ![d][j] = "idle"]
    BY <1>4 DEF UpdateInstall, net
  <2>2. job'[d][j] = "idle" /\ (\A i \in Job : i # j => job'[d][i] = "idle") /\ \A f \in Device : f # d => job'[f] = job[f]
    BY <1>1, <2>1, JobAlone
  <2>3. CASE e # d
    BY <1>1, <2>1, <2>2, <2>3, StageFrame
  <2>4. CASE e = d
    <3>1. Idle(d)' /\ (Due(d)' <=> Due(d))
      BY <1>1, <2>1, <2>2 DEF Idle, Due, Comes
    <3>2. OneJob(d)'
      BY <1>2, <2>1, <3>1 DEF OneJob, Idle
    <3>3. Covered(d)'
      BY <1>1, <1>2, <2>1, <2>4, <3>1 DEF Stage, Covered, Idle
    <3>4. EndIsLast(d)'
      BY <1>1, <2>1, <2>4 DEF Stage, EndIsLast
    <3> QED BY <2>4, <3>2, <3>3, <3>4 DEF Stage
  <2> QED BY <2>3, <2>4
<1> QED BY <1>3, <1>4

StageInv == Calm => \A d \in Device : Stage(d)

\* Every step of a calm behaviour keeps every device at a stage.
LEMMA StageStep ==
    ASSUME TypeOK, Calm, \A d \in Device : Stage(d), [Next]_vars, NEW e \in Device
    PROVE  Stage(e)'
<1>1. CASE Server
  BY <1>1, RecvStage, TakeSlotStage, HandleStage, TimeStage, CalmMeans DEF Server, ServerRestart
<1>2. ASSUME NEW d \in Device, Connect(d) PROVE Stage(e)'
  <2>1. UNCHANGED <<slot, aged, work, down, up, job>>
    BY <1>2 DEF Connect, ServerLeaves, table, device
  <2> QED BY <2>1, StageFrame
<1>3. CASE Devices
  BY <1>2, <1>3, HeartbeatStage, RequestStage, QuietJobStage, TellingJobStage, InstallStage, CalmMeans
     DEF Devices, LinkDown, ClientRestart, Upgrading
<1>4. CASE UNCHANGED vars
  BY <1>4, StageFrame DEF vars, table, net, device
<1> QED BY <1>1, <1>3, <1>4 DEF Next

\* Every device is at a stage in every calm behaviour.
LEMMA StageInvHolds == Spec => []StageInv
<1>1. Init => StageInv
  BY StageInit DEF StageInv
<1>2. TypeOK /\ StageInv /\ [Next]_vars /\ SetupStays => StageInv'
  <2> SUFFICES ASSUME TypeOK, StageInv, [Next]_vars, SetupStays, Calm' PROVE \A d \in Device : Stage(d)'
    BY DEF StageInv
  <2>1. Calm
    BY DEF Calm, SetupStays
  <2> QED BY <2>1, StageStep DEF StageInv
<1> QED BY <1>1, <1>2, TypeCorrect, StepIsNext, PTL DEF Spec

\* A device that is downloading has an entry and one thread, for any number of
\* devices, threads and messages.
THEOREM EntryCoversDownloadHolds == Spec => []EntryCoversDownload
<1>1. ASSUME NEW d \in Device, Stage(d)
      PROVE  (d \in Downloading => slot[d] # "none") /\ Cardinality(Working(d)) <= 1
  <2>1. d \in Downloading => slot[d] # "none"
    BY <1>1 DEF Stage, Covered, Downloading
  <2>2. Working(d) = {} \/ \E j \in Job : Working(d) = {j}
    BY <1>1 DEF Stage, OneJob, Working
  <2>3. Working(d) = {} => Cardinality(Working(d)) = 0
    BY FS_EmptySet
  <2>4. ASSUME NEW j \in Job, Working(d) = {j} PROVE Cardinality(Working(d)) = 1
    BY <2>4, FS_Singleton
  <2> QED BY <2>1, <2>2, <2>3, <2>4
<1>2. StageInv => EntryCoversDownload
  BY <1>1 DEF StageInv, EntryCoversDownload
<1> QED BY <1>2, StageInvHolds, PTL

-----------------------------------------------------------------------------
(* The table does not get full, if it has room for the limit and one device  *)
(* for each thread but one: in calm behaviours only a thread that has passed *)
(* the comparison adds an entry, because answers find theirs.                *)

Listed == {d \in Device : slot[d] # "none"}

\* all entries and the threads about to take one
ListedBounded ==
    Cardinality(Listed) + Cardinality(Taking) <= setup.limit + Cardinality(Thread)

RoomInv == Calm => ListedBounded

Room == Calm /\ setup.limit + Cardinality(Thread) <= setup.table + 1

\* What is compared are numbers.
LEMMA RoomNumbers ==
    ASSUME SetupKnown
    PROVE  /\ IsFiniteSet(Listed) /\ Cardinality(Listed) \in Nat /\ Cardinality(Taking) \in Nat
           /\ Cardinality(Thread) \in Nat /\ setup.limit \in Nat /\ setup.table \in Nat
<1>1. IsFiniteSet(Listed)
  <2>1. Listed \subseteq Device
    BY DEF Listed
  <2> QED BY <2>1, FiniteSystem, FS_Subset
<1>2. setup.limit \in Nat /\ setup.table \in Nat
  BY SetupsAreKnown DEF SetupKnown
<1> QED BY <1>1, <1>2, CountsAreFinite, FiniteSystem, FS_CardinalityType

\* Fewer entries and fewer threads keep the bound.
LEMMA FewerListed ==
    ASSUME SetupKnown, ListedBounded, NEW R, NEW T, R \subseteq Listed, T \subseteq Taking
    PROVE  Cardinality(R) + Cardinality(T) <= setup.limit + Cardinality(Thread)
<1>1. Cardinality(R) \in Nat /\ Cardinality(R) <= Cardinality(Listed)
  BY RoomNumbers, FS_Subset, FS_CardinalityType
<1>2. Cardinality(T) \in Nat /\ Cardinality(T) <= Cardinality(Taking)
  BY CountsAreFinite, FS_Subset, FS_CardinalityType
<1> QED BY <1>1, <1>2, RoomNumbers DEF ListedBounded

\* A thread that takes an entry exchanges itself for it.
LEMMA ListedTrade ==
    ASSUME SetupKnown, ListedBounded, NEW t \in Taking, NEW d, NEW R, R \subseteq Listed \cup {d}
    PROVE  Cardinality(R) + Cardinality(Taking \ {t}) <= setup.limit + Cardinality(Thread)
<1>1. /\ IsFiniteSet(Listed \cup {d}) /\ Cardinality(Listed \cup {d}) \in Nat
      /\ Cardinality(Listed \cup {d}) <= Cardinality(Listed) + 1
  <2>1. IsFiniteSet(Listed) /\ Cardinality(Listed) \in Nat
    BY RoomNumbers
  <2> QED BY <2>1, FS_AddElement, FS_CardinalityType
<1>2. Cardinality(R) \in Nat /\ Cardinality(R) <= Cardinality(Listed \cup {d})
  BY <1>1, FS_Subset, FS_CardinalityType
<1>3. Cardinality(Taking \ {t}) = Cardinality(Taking) - 1
  BY CountsAreFinite, FS_RemoveElement
<1> QED BY <1>1, <1>2, <1>3, RoomNumbers DEF ListedBounded

\* The table has an entry more only in TakeSlot, as long as answers find theirs.
LEMMA RoomStep ==
    ASSUME TypeOK, SetupKnown, SetupStays, StageInv, Calm, ListedBounded, [Next]_vars
    PROVE  ListedBounded'
<1>1. ASSUME Listed' \subseteq Listed, Taking' \subseteq Taking PROVE ListedBounded'
  <2>1. Cardinality(Listed') + Cardinality(Taking') <= setup.limit + Cardinality(Thread)
    BY <1>1, FewerListed
  <2> QED BY <2>1 DEF ListedBounded, SetupStays
<1>2. ASSUME NEW t \in Thread, TakeSlot(t) PROVE ListedBounded'
  <2>1. PICK d \in Device : d = work[t].dev
    BY <1>2, BusyThread DEF TakeSlot
  <2>2. slot' = slot \/ slot' = [slot EXCEPT ![d] = "request"]
    BY <1>2, <2>1 DEF TakeSlot, SetStatus
  <2>3. Listed' \subseteq Listed \cup {d}
    BY <2>2 DEF Listed, TypeOK
  <2>4. t \in Taking /\ Taking' = Taking \ {t}
    BY <1>2, TakeSlotTrades
  <2>5. Cardinality(Listed') + Cardinality(Taking') <= setup.limit + Cardinality(Thread)
    BY <2>3, <2>4, ListedTrade
  <2> QED BY <2>5 DEF ListedBounded, SetupStays
<1>3. ASSUME NEW t \in Thread, Handle(t) PROVE ListedBounded'
  <2>1. PICK d \in Device : d = work[t].dev
    BY <1>3, BusyThread DEF Handle
  <2>2. work[t].msg = "response" => slot[d] # "none"
    BY <2>1 DEF StageInv, Stage, Covered, Due, Comes
  <2>3. slot' = slot \/ (slot[d] # "none" /\ slot' = [slot EXCEPT ![d] = "ack"]) \/ slot' = [slot EXCEPT ![d] = "none"]
    BY <1>3, <2>1, <2>2 DEF Handle, SetStatus, RemoveEntry, table
  <2>4. Listed' \subseteq Listed
    BY <2>3 DEF Listed, TypeOK
  <2> QED BY <1>1, <1>3, <2>4, HandleAddsNothing
<1>4. ASSUME NEW t \in Thread, NEW d \in Device, Recv(t, d) PROVE ListedBounded'
  <2>1. Listed' = Listed
    BY <1>4 DEF Recv, table, Listed
  <2>2. CASE MayUpgrade(d)
    <3>1. Cardinality(Listed) <= setup.limit
      BY <2>2 DEF MayUpgrade, client_num, Listed
    <3>2. Cardinality(Taking') \in Nat /\ Cardinality(Taking') <= Cardinality(Thread)
      BY <1>4, RecvCompares, FiniteSystem, FS_Subset, FS_CardinalityType
    <3>3. Cardinality(Listed') + Cardinality(Taking') <= setup.limit + Cardinality(Thread)
      BY <2>1, <3>1, <3>2, RoomNumbers
    <3> QED BY <3>3 DEF ListedBounded, SetupStays
  <2>3. CASE ~MayUpgrade(d)
    BY <1>1, <1>4, <2>1, <2>3, RecvCompares
  <2> QED BY <2>2, <2>3
<1>5. CASE \/ Devices \/ UNCHANGED vars \/ cnm_update_soft_status_timeout_check
           \/ ServerRestart \/ \E d \in Device : Age(d)
  <2>1. slot' = slot \/ cnm_update_soft_status_timeout_check \/ ServerRestart
    BY <1>5 DEF Devices, Connect, LinkDown, ClientRestart, Heartbeat, Upgrading, RecvRequest,
           UpdateRm, send_update_response_to_server, UpdateWget, UpdateFetched,
           send_update_action_to_server, UpdateInstall, DeviceLeaves, ServerLeaves, table, vars, Age
  <2>2. Listed' \subseteq Listed
    BY <2>1 DEF Listed, cnm_update_soft_status_timeout_check, ServerRestart
  <2> QED BY <1>1, <1>5, <2>2, OthersAddNothing
<1> QED BY <1>2, <1>3, <1>4, <1>5 DEF Next, Server

\* Entries and threads stay within the limit and one for each thread.
LEMMA RoomInvHolds == Spec => []RoomInv
<1>1. Init => RoomInv
  <2> SUFFICES ASSUME Init PROVE ListedBounded
    BY DEF RoomInv
  <2>1. Listed = {} /\ Taking = {}
    BY DEF Init, Listed, Taking, NoWork
  <2>2. SetupKnown
    BY DEF Init, SetupKnown
  <2> QED BY <2>1, <2>2, RoomNumbers, FS_EmptySet DEF ListedBounded
<1>2. TypeOK /\ SetupKnown /\ StageInv /\ RoomInv /\ [Next]_vars /\ SetupStays => RoomInv'
  <2> SUFFICES ASSUME TypeOK, SetupKnown, StageInv, RoomInv, [Next]_vars, SetupStays, Calm'
               PROVE  ListedBounded'
    BY DEF RoomInv
  <2>1. Calm
    BY DEF Calm, SetupStays
  <2> QED BY <2>1, RoomStep DEF RoomInv
<1> QED BY <1>1, <1>2, TypeCorrect, SetupAlwaysKnown, StageInvHolds, StepIsNext, PTL DEF Spec

\* The lock of the table is released, for any number of devices, if the table has room
\* for the limit and for one more device of each thread but one.
THEOREM LockIsReleasedHolds == Spec => []LockIsReleased
<1>1. Init => LockIsReleased
  BY DEF Init, LockIsReleased
<1>2. TypeOK /\ SetupKnown /\ StageInv /\ RoomInv /\ LockIsReleased /\ [Next]_vars /\ SetupStays
        => LockIsReleased'
  <2> SUFFICES ASSUME TypeOK, SetupKnown, StageInv, RoomInv, LockIsReleased, [Next]_vars, SetupStays, Room
               PROVE  ~held'
    BY DEF LockIsReleased, Room, Calm, SetupStays
  <2>1. ~held /\ Calm
    BY DEF LockIsReleased, Room
  <2>2. ASSUME NEW t \in Thread, TakeSlot(t) PROVE ~held'
    <3>1. t \in Taking
      BY <2>2, TakeSlotTrades
    <3>2. Cardinality(Taking) # 0
      BY <3>1, CountsAreFinite, FS_EmptySet
    <3>3. ~(client_num > setup.table)
      <4>1. client_num = Cardinality(Listed)
        BY DEF client_num, Listed
      <4>2. Cardinality(Listed) + Cardinality(Taking) <= setup.limit + Cardinality(Thread)
        BY <2>1 DEF RoomInv, ListedBounded
      <4>3. setup.limit + Cardinality(Thread) <= setup.table + 1
        BY DEF Room
      <4> QED BY <3>2, <4>1, <4>2, <4>3, RoomNumbers
    <3> QED BY <2>1, <2>2, <3>3 DEF TakeSlot, SetStatus
  <2>3. ASSUME NEW t \in Thread, Handle(t) PROVE ~held'
    <3>1. PICK d \in Device : d = work[t].dev
      BY <2>3, BusyThread DEF Handle
    <3>2. work[t].msg = "response" => slot[d] # "none"
      BY <2>1, <3>1 DEF StageInv, Stage, Covered, Due, Comes
    <3> QED BY <2>1, <2>3, <3>1, <3>2 DEF Handle, SetStatus, RemoveEntry, table
  <2>4. CASE Server
    BY <2>1, <2>2, <2>3, <2>4 DEF Server, Recv, Age, cnm_update_soft_status_timeout_check, ServerRestart, table
  <2>5. CASE Devices \/ UNCHANGED vars
    BY <2>1, <2>5 DEF Devices, Connect, LinkDown, ClientRestart, Heartbeat, Upgrading, RecvRequest,
           UpdateRm, send_update_response_to_server, UpdateWget, UpdateFetched,
           send_update_action_to_server, UpdateInstall, DeviceLeaves, ServerLeaves, table, vars
  <2> QED BY <2>4, <2>5 DEF Next
<1> QED BY <1>1, <1>2, TypeCorrect, SetupAlwaysKnown, StageInvHolds, RoomInvHolds, StepIsNext, PTL DEF Spec

\* The limit bounds the load: no more devices download at the same moment than it allows
\* and one for each thread, for any number of devices, threads and any size of the table.
THEOREM LoadBoundedHolds == Spec => []LoadBounded
<1>1. SetupKnown /\ RoomInv /\ EntryCoversDownload => LoadBounded
  <2> SUFFICES ASSUME SetupKnown, RoomInv, EntryCoversDownload, Calm
               PROVE  Cardinality(Downloading) <= setup.limit + Cardinality(Thread)
    BY DEF LoadBounded
  <2>1. ListedBounded
    BY DEF RoomInv
  <2>2. Downloading \subseteq Listed
    BY DEF EntryCoversDownload, Downloading, Listed
  <2>3. Cardinality(Downloading) + Cardinality({}) <= setup.limit + Cardinality(Thread)
    BY <2>1, <2>2, FewerListed
  <2>4. Cardinality(Downloading) \in Nat /\ Cardinality({}) = 0
    BY <2>2, RoomNumbers, FS_Subset, FS_CardinalityType, FS_EmptySet
  <2> QED BY <2>3, <2>4, RoomNumbers
<1> QED BY <1>1, SetupAlwaysKnown, RoomInvHolds, EntryCoversDownloadHolds, PTL

=============================================================================
