-------------------------- MODULE SettingPushProofs --------------------------
(* What every implementation of SettingPush inherits.                       *)
EXTENDS SettingPush, TLAPS

\* Every number of which the server has a copy, and the one the row calls
\* synchronised, is the number of some edit.
THEOREM NumbersWereAskedHolds == Spec => []NumbersWereAsked
<1>1. Init => NumbersWereAsked
  BY DEF Init, NumbersWereAsked
<1>2. NumbersWereAsked /\ [Next]_vars => NumbersWereAsked'
  <2> SUFFICES ASSUME NumbersWereAsked, [Next]_vars
               PROVE  NumbersWereAsked'
    OBVIOUS
  <2> USE DEF NumbersWereAsked
  <2>1. CASE Ask
    <3>1. 1..asked \subseteq 1..asked'
      BY <2>1 DEF Ask
    <3> QED
      BY <2>1, <3>1 DEF Ask
  <2>2. CASE Carry
    <3>1. asked \in 1..asked /\ carried' = carried \cup {asked}
      BY <2>2 DEF Carry
    <3> QED
      BY <2>2, <3>1 DEF Carry
  <2>3. CASE Drop
    BY <2>3 DEF Drop
  <2>4. CASE Record
    <3>1. (recorded' \in carried \/ recorded' = 0) /\ carried' \subseteq carried /\ asked' = asked
      BY <2>4, Zenon DEF Record
    <3>2. \A n \in carried : n \in 0..asked
      OBVIOUS
    <3>3. 0 \in 0..asked
      OBVIOUS
    <3>4. recorded' \in 0..asked
      BY <3>1, <3>2, <3>3, Zenon
    <3>5. carried' \subseteq 1..asked
      BY <3>1, Zenon
    <3> QED
      BY <3>1, <3>4, <3>5, Zenon
  <2>5. CASE UNCHANGED vars
    BY <2>5 DEF vars
  <2> QED
    BY <2>1, <2>2, <2>3, <2>4, <2>5 DEF Next
<1> QED
  BY <1>1, <1>2, PTL DEF Spec

\* An edit that was overtaken, and of which no copy is left, is never carried or
\* recorded again, whatever the copies of other edits go through.
THEOREM OvertakenStaysLostHolds == Spec => OvertakenStaysLost
<1>1. [Next]_vars =>
        [\A n \in Nat :
            /\ n \notin carried /\ n # asked => n \notin carried'
            /\ n \notin carried /\ n # 0 /\ recorded' = n => recorded = n]_vars
  <2> SUFFICES ASSUME [Next]_vars, NEW n \in Nat, n \notin carried
               PROVE  /\ n # asked => n \notin carried'
                      /\ n # 0 /\ recorded' = n => recorded = n
    OBVIOUS
  <2> QED
    BY DEF Next, Ask, Carry, Drop, Record, vars
<1> QED
  BY <1>1, PTL DEF Spec, OvertakenStaysLost

=============================================================================
