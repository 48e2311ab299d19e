------------------------------ MODULE IdSupply ------------------------------
(***************************************************************************)
(* What the ids of one kind promise: an id is handed out once, and none    *)
(* below a floor once that floor has been asked for.                       *)
(***************************************************************************)
EXTENDS Naturals

CONSTANT Ids

VARIABLES
    issued,     \* the ids handed out
    floor       \* no id below this one is handed out any more

Init == issued = {} /\ floor = 1

Issue(n) ==
    /\ n \notin issued /\ n >= floor
    /\ issued' = issued \cup {n}
    /\ UNCHANGED floor

Reserve(v) ==
    /\ floor' = IF floor < v THEN v ELSE floor
    /\ UNCHANGED issued

Next == \E n \in Ids : Issue(n) \/ Reserve(n)

Spec == Init /\ [][Next]_<<issued, floor>>
=============================================================================
