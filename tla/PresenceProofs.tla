---------------------------- MODULE PresenceProofs ----------------------------
(* What every implementation of Presence inherits.                           *)
EXTENDS Presence, TLAPS

\* While a device is about to be put offline nothing stands for it, and with nobody late
\* only its present connection has a message to be recorded.
PresenceInv ==
    /\ RowAgrees
    /\ \A c, d \in holder : c = d
    /\ closing => holder = {}
    /\ holder # {} \/ ~reported
    /\ "slow" \notin may => busy \subseteq holder

\* The invariant holds at the start and stays.
LEMMA PresenceInvHolds == Spec => []PresenceInv
<1>1. Init => PresenceInv
  BY DEF Init, PresenceInv, RowAgrees
<1>2. PresenceInv /\ [Next]_vars => PresenceInv'
  <2> SUFFICES ASSUME PresenceInv, [Next]_vars PROVE PresenceInv'
    OBVIOUS
  <2> USE DEF PresenceInv, RowAgrees
  <2>1. CASE PutOffline
    BY <2>1 DEF PutOffline
  <2>2. CASE Restart
    BY <2>2 DEF Restart
  <2>3. ASSUME NEW c \in Connection, Claim(c) PROVE PresenceInv'
    BY <2>3 DEF Claim
  <2>4. ASSUME NEW c \in Connection, Read(c) PROVE PresenceInv'
    BY <2>4 DEF Read
  <2>5. ASSUME NEW c \in Connection, Record(c) PROVE PresenceInv'
    <3>1. busy' \subseteq busy /\ UNCHANGED <<may, holder, closing>>
      BY <2>5 DEF Record
    <3>2. CASE online' = TRUE /\ reported' = (reported \/ c \in holder)
      <4>1. reported' => holder # {}
        BY <3>2
      <4>2. may = {} => holder # {}
        BY <2>5 DEF Record
      <4>3. QED
        BY <3>1, <3>2, <4>1, <4>2
    <3>3. CASE UNCHANGED <<online, reported>>
      BY <3>1, <3>3
    <3>4. QED
      BY <2>5, <3>2, <3>3 DEF Record
  <2>6. ASSUME NEW c \in Connection, Close(c) PROVE PresenceInv'
    <3>1. "slow" \notin may => busy = {}
      BY <2>6 DEF Close
    <3>2. QED
      BY <2>6, <3>1 DEF Close
  <2>7. CASE UNCHANGED vars
    BY <2>7 DEF vars
  <2> QED
    BY <2>1, <2>2, <2>3, <2>4, <2>5, <2>6, <2>7 DEF Next
<1> QED
  BY <1>1, <1>2, PTL DEF Spec

\* The row and the connections of a device agree.
THEOREM RowAgreesHolds == Spec => []RowAgrees
<1>1. PresenceInv => RowAgrees
  BY DEF PresenceInv
<1> QED
  BY <1>1, PresenceInvHolds, PTL

\* A device goes offline only when no connection stands for it.
THEOREM OfflineWithoutHolderHolds == Spec => OfflineWithoutHolder
<1>1. PresenceInv /\ [Next]_vars => [online /\ ~online' => holder' = {}]_vars
  BY DEF PresenceInv, Next, PutOffline, Restart, Claim, Read, Record, Close, vars
<1> QED
  BY <1>1, PresenceInvHolds, PTL DEF Spec, OfflineWithoutHolder

=============================================================================
