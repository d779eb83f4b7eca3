------------------------------- MODULE HandOver -------------------------------
(***************************************************************************)
(* What each place on the way of a photo promises, whatever fails or stops *)
(* between two steps: an item is copied to the next place first, perhaps   *)
(* several times, and removed only when its copy is there.                 *)
(***************************************************************************)

CONSTANTS
    Item,       \* what is handed over
    Overwrites  \* whether a second copy is written over the first one

VARIABLES
    source,     \* the items that wait in this place
    target      \* the items of which the next place has a copy

vars == <<source, target>>

Init == source = {} /\ target = {}

Put(p) == source' = source \union {p} /\ UNCHANGED target

Copy(p) == p \in source /\ target' = target \union {p} /\ UNCHANGED source

\* a copy that is being overwritten is none
Overwrite(p) == Overwrites /\ p \in source /\ target' = target \ {p} /\ UNCHANGED source

Release(p) == p \in target /\ source' = source \ {p} /\ UNCHANGED target

Next == \E p \in Item : Put(p) \/ Copy(p) \/ Overwrite(p) \/ Release(p)

Spec == Init /\ [][Next]_vars

-----------------------------------------------------------------------------
\* What was put is in one of the two places for good, and what has left the first one
\* stays in the second.
NothingLost ==
    [][/\ source \union target \subseteq source' \union target'
       /\ target \ source \subseteq target']_vars

=============================================================================
