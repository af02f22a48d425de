------------------------------ MODULE WorkItem ------------------------------
(***************************************************************************)
(* What a queue promises for one of its items, whatever becomes of the     *)
(* others and of those who work on them: one takes it at a time, only who  *)
(* holds it settles it, a failure costs one try, the last try drops it,    *)
(* and what is settled stays so. The promise ends for an item that slips:  *)
(* that comes back to the queue while somebody holds it, or in a way that  *)
(* undoes what was settled.                                                *)
(***************************************************************************)
EXTENDS Naturals

CONSTANTS
    Hands,     \* those who may hold the item
    MaxTries,  \* how often it may fail
    Returns    \* how it may come back to the queue: put back, or revived

VARIABLES
    status,    \* absent, waiting, taken, done or dropped
    tries,     \* failures so far
    holders,   \* those who hold it
    slipped    \* it came back when it should not have

vars == <<status, tries, holders, slipped>>

Add ==
    /\ status = "absent"
    /\ status' = "waiting"
    /\ tries' = 0
    /\ UNCHANGED <<holders, slipped>>

Take(h) ==
    /\ status = "waiting"
    /\ slipped \/ holders = {}
    /\ status' = "taken"
    /\ holders' = holders \cup {h}
    /\ UNCHANGED <<tries, slipped>>

\* A holder settles the item, as the only one unless it slipped.
Settles(h) ==
    /\ h \in holders
    /\ slipped \/ (status = "taken" /\ holders = {h})
    /\ holders' = holders \ {h}
    /\ UNCHANGED slipped

Finish(h) ==
    /\ Settles(h)
    /\ status' = "done"
    /\ UNCHANGED tries

Fail(h) ==
    /\ Settles(h)
    /\ tries' \in IF slipped THEN 1..MaxTries ELSE {tries + 1}
    /\ tries' <= MaxTries
    /\ status' = IF tries' = MaxTries THEN "dropped" ELSE "waiting"

\* Holders are gone and leave the item as it is.
LetGo(H) ==
    /\ H # {}
    /\ holders' = holders \ H
    /\ UNCHANGED <<status, tries, slipped>>

\* A taken item goes back with the tries it has left.
PutBack ==
    /\ "put_back" \in Returns
    /\ status = "taken"
    /\ status' = "waiting"
    /\ slipped' = (slipped \/ holders # {})
    /\ UNCHANGED <<tries, holders>>

\* A dropped item gets all its tries again.
Revive ==
    /\ "revived" \in Returns
    /\ status # "absent"
    /\ status' = "waiting"
    /\ tries' = 0
    /\ slipped' = (slipped \/ status # "dropped")
    /\ UNCHANGED holders

Init ==
    /\ status \in {"absent", "waiting"}
    /\ tries = 0
    /\ holders = {}
    /\ slipped = FALSE

Next ==
    \/ Add
    \/ \E h \in Hands : Take(h) \/ Finish(h) \/ Fail(h)
    \/ \E H \in SUBSET Hands : LetGo(H)
    \/ PutBack
    \/ Revive

\* A step, or one that does not concern the item.
Step == [Next]_vars

Spec == Init /\ [][Next]_vars
=============================================================================
