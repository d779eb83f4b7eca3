----------------------------- MODULE SettingPush -----------------------------
(***************************************************************************)
(* What the synchronisation of one setting of one device promises, however *)
(* the setting travels.  Every edit raises the number that is asked for.   *)
(* The number goes from the device's row through copies - the pass of      *)
(* CfgUpdateTimer, nodes of connections, threads that wait for the database*)
(* - and comes back to the row as the number that is recorded, each time   *)
(* the device has acknowledged something.                                  *)
(***************************************************************************)
EXTENDS Naturals

CONSTANT Reset     \* whether a node that has sent nothing may have its 0 recorded

VARIABLES
    asked,         \* the number of the newest edit
    recorded,      \* the number the row calls synchronised
    carried        \* the numbers of which the server has a copy

vars == <<asked, recorded, carried>>

Init ==
    /\ asked \in {0, 1}
    /\ recorded = 0
    /\ carried = {}

Ask ==
    /\ asked' = asked + 1
    /\ UNCHANGED <<recorded, carried>>

\* only the newest number is copied out of the row, while it is not recorded
Carry ==
    /\ asked # recorded
    /\ carried' = carried \cup {asked}
    /\ UNCHANGED <<asked, recorded>>

\* copies are overwritten and lost
Drop ==
    /\ carried' \in SUBSET carried
    /\ UNCHANGED <<asked, recorded>>

\* what is recorded was copied from the row
Record ==
    /\ recorded' \in carried \/ (Reset /\ recorded' = 0)
    /\ carried' \in SUBSET carried
    /\ UNCHANGED asked

Next == Ask \/ Carry \/ Drop \/ Record

Spec == Init /\ [][Next]_vars

-----------------------------------------------------------------------------
\* Every number of which there is a copy, and the one recorded, has been asked for.
NumbersWereAsked ==
    /\ asked \in Nat
    /\ carried \subseteq 1..asked
    /\ recorded \in 0..asked

\* A number of which the last copy is lost comes back only while it is the newest:
\* an edit that was overtaken is never pushed or recorded again.
OvertakenStaysLost ==
    [][\A n \in Nat :
          /\ n \notin carried /\ n # asked => n \notin carried'
          /\ n \notin carried /\ n # 0 /\ recorded' = n => recorded = n]_vars

=============================================================================
