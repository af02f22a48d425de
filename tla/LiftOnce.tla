------------------------------ MODULE LiftOnce ------------------------------
(***************************************************************************)
(* What an agent that reads a stream of items promises, however its runs   *)
(* overlap or end: an item is marked once, what follows from it is put on  *)
(* record only after that and only once, and nothing on record is taken    *)
(* back.                                                                   *)
(***************************************************************************)
CONSTANTS
    Items,
    FollowUps  \* the most that may follow from each item

VARIABLES
    marked,    \* items that were dealt with
    lifted     \* what is on record of each item

Mark(i) ==
    /\ i \in Items \ marked
    /\ marked' = marked \cup {i}
    /\ UNCHANGED lifted

Lift(i, f) ==
    /\ i \in marked
    /\ f \in FollowUps[i] \ lifted[i]
    /\ lifted' = [lifted EXCEPT ![i] = @ \cup {f}]
    /\ UNCHANGED marked

Init ==
    /\ marked = {}
    /\ lifted = [i \in Items |-> {}]

Next == \E i \in Items : Mark(i) \/ \E f \in FollowUps[i] : Lift(i, f)

Spec == Init /\ [][Next]_<<marked, lifted>>
=============================================================================
