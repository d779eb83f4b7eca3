------------------------------- MODULE Presence -------------------------------
(***************************************************************************)
(* What the server promises about the presence of one device, however many *)
(* connections it has had and however late their threads are.  At most one *)
(* connection stands for the device, the last one that has told its serial. *)
(* Messages that were read over it, or over those it has replaced, are      *)
(* recorded later, which shows the device online; when it ends the device  *)
(* is put offline, before another connection can take its place.           *)
(***************************************************************************)

CONSTANT Connection   \* the connections the server can hold

VARIABLES
    may,       \* what can go wrong; it never changes
    holder,    \* the connection that stands for the device, if any
    busy,      \* the connections with a message that is not recorded yet
    closing,   \* the holder has ended, and the device is about to be put offline
    reported,  \* a message has been recorded over the holder
    online     \* what the device's row says

vars == <<may, holder, busy, closing, reported, online>>

\* "slow": a connection is replaced while its message waits to be recorded
\* "db": the database cannot be reached
Init ==
    /\ may \in SUBSET {"slow", "db"}
    /\ holder = {} /\ busy = {} /\ closing = FALSE /\ reported = FALSE
    /\ online = FALSE

\* the first message of connection c tells the device's serial
Claim(c) ==
    /\ ~closing /\ c \notin busy
    /\ "slow" \in may \/ busy = {}
    /\ holder' = {c} /\ busy' = busy \union {c} /\ reported' = FALSE
    /\ UNCHANGED <<may, closing, online>>

Read(c) ==
    /\ c \in holder \ busy
    /\ busy' = busy \union {c}
    /\ UNCHANGED <<may, holder, closing, reported, online>>

Record(c) ==
    /\ c \in busy /\ busy' = busy \ {c}
    /\ \/ online' = TRUE /\ reported' = (reported \/ c \in holder)
       \/ "db" \in may /\ UNCHANGED <<online, reported>>
    /\ UNCHANGED <<may, holder, closing>>

Close(c) ==
    /\ c \in holder \ busy
    /\ holder' = {} /\ closing' = TRUE /\ reported' = FALSE
    /\ UNCHANGED <<may, busy, online>>

PutOffline ==
    /\ closing /\ closing' = FALSE
    /\ online' = FALSE \/ ("db" \in may /\ UNCHANGED online)
    /\ UNCHANGED <<may, holder, busy, reported>>

Restart ==
    /\ holder' = {} /\ busy' = {} /\ closing' = FALSE /\ reported' = FALSE
    /\ online' = FALSE /\ UNCHANGED may

Next == PutOffline \/ Restart \/ \E c \in Connection : Claim(c) \/ Read(c) \/ Record(c) \/ Close(c)

Spec == Init /\ [][Next]_vars

-----------------------------------------------------------------------------
\* The row and the connections agree: a device that has reported over its present
\* connection is online; and one that is online has a connection, or is about to be put
\* offline, unless threads were late or the database has failed.
RowAgrees ==
    /\ reported => online
    /\ may = {} /\ online => holder # {} \/ closing

\* A device goes offline only when no connection stands for it.
OfflineWithoutHolder == [][online /\ ~online' => holder' = {}]_vars

=============================================================================
