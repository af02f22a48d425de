-------------------------- MODULE RegulationWatch ---------------------------
(***************************************************************************)
(* New laws. A run reads the whole feed, then the homes of the             *)
(* organisation, and for each law it does not have inserts it and maps it  *)
(* to the homes it concerns, one insert each. Every statement is a         *)
(* transaction of its own. The cursor the run writes at its end plays no   *)
(* part: the adapter ignores it.                                           *)
(***************************************************************************)
EXTENDS Naturals

CONSTANTS
    Laws,           \* items of the feed (a bound)
    Homes,          \* rows of properties (a bound)
    Concerns,       \* the homes each law matches, none when its scope is unknown
    WatchRuns,      \* runs of the agent that may overlap (a bound)
    MaxLawFaults    \* how often a run ends half way (a bound)

ASSUME LawAssumption ==
    /\ Concerns \in [Laws -> SUBSET Homes]
    /\ MaxLawFaults \in Nat

VARIABLES
    inFeed,        \* laws the feed lists
    homes,         \* homes that exist
    recorded,      \* rows of regulation_items
    impacts,       \* the homes each law is mapped to
    lawRun,        \* what each run is at
    lawFaults,     \* faults so far
    knownHomes,    \* the homes the run that inserted each law knew of
    lawInterrupted \* laws a run was at when it ended by a fault

lawRows == <<inFeed, homes, recorded, impacts>>
lawVars == <<lawRows, lawRun, lawFaults, knownHomes, lawInterrupted>>

\* items: the laws read and not looked at yet; known: the homes read; law: the
\* one at hand; left: the homes it is still to be mapped to.
LawOff == [at |-> "off", items |-> {}, known |-> {}, law |-> {}, left |-> {}]

-----------------------------------------------------------------------------
PublishLaw(l) ==
    /\ l \in Laws \ inFeed
    /\ inFeed' = inFeed \cup {l}
    /\ UNCHANGED <<homes, recorded, impacts, lawRun, lawFaults, knownHomes, lawInterrupted>>

AddHome(h) ==
    /\ h \in Homes \ homes
    /\ homes' = homes \cup {h}
    /\ UNCHANGED <<inFeed, recorded, impacts, lawRun, lawFaults, knownHomes, lawInterrupted>>

\* A feed that cannot be reached ends the run: it looks again the next time.
PollFeed(r) ==
    /\ lawRun[r] = LawOff
    /\ lawRun' = [lawRun EXCEPT ![r].at = "polled", ![r].items = inFeed]
    /\ UNCHANGED <<lawRows, lawFaults, knownHomes, lawInterrupted>>

ReadHomes(r) ==
    /\ lawRun[r].at = "polled"
    /\ lawRun' = [lawRun EXCEPT ![r].at = "next", ![r].known = homes]
    /\ UNCHANGED <<lawRows, lawFaults, knownHomes, lawInterrupted>>

LookForLaw(r, l) ==
    /\ lawRun[r].at = "next"
    /\ l \in lawRun[r].items
    /\ lawRun' = IF l \in recorded THEN [lawRun EXCEPT ![r].items = @ \ {l}]
                 ELSE [lawRun EXCEPT ![r].items = @ \ {l}, ![r].at = "insert", ![r].law = {l}]
    /\ UNCHANGED <<lawRows, lawFaults, knownHomes, lawInterrupted>>

\* Variant of Taken: nothing is unique in regulation_items.
NeverTaken(l) == FALSE
Taken(l) == l \in recorded

\* Unique per organisation and feed id: the second of two runs that both missed
\* the law is refused, and ends.
RecordLaw(r, l) ==
    /\ lawRun[r].at = "insert"
    /\ lawRun[r].law = {l}
    /\ IF Taken(l)
       THEN /\ lawRun' = [lawRun EXCEPT ![r] = LawOff]
            /\ UNCHANGED <<recorded, knownHomes>>
       ELSE /\ recorded' = recorded \cup {l}
            /\ knownHomes' = [knownHomes EXCEPT ![l] = lawRun[r].known]
            /\ lawRun' = [lawRun EXCEPT ![r].at = "map",
                                        ![r].left = lawRun[r].known \cap Concerns[l]]
    /\ UNCHANGED <<inFeed, homes, impacts, lawFaults, lawInterrupted>>

MapToHome(r, l, h) ==
    /\ lawRun[r].at = "map"
    /\ lawRun[r].law = {l}
    /\ h \in lawRun[r].left
    /\ impacts' = [impacts EXCEPT ![l] = @ \cup {h}]
    /\ lawRun' = [lawRun EXCEPT ![r].left = @ \ {h}]
    /\ UNCHANGED <<inFeed, homes, recorded, lawFaults, knownHomes, lawInterrupted>>

LawDone(r) ==
    /\ lawRun[r].at = "map"
    /\ lawRun[r].left = {}
    /\ lawRun' = [lawRun EXCEPT ![r].at = "next", ![r].law = {}]
    /\ UNCHANGED <<lawRows, lawFaults, knownHomes, lawInterrupted>>

WatchEnds(r) ==
    /\ lawRun[r].at = "next"
    /\ lawRun[r].items = {}
    /\ lawRun' = [lawRun EXCEPT ![r] = LawOff]
    /\ UNCHANGED <<lawRows, lawFaults, knownHomes, lawInterrupted>>

\* A statement throws, or the worker is gone.
WatchFails(r) ==
    /\ lawRun[r] # LawOff
    /\ lawFaults < MaxLawFaults
    /\ lawFaults' = lawFaults + 1
    /\ lawInterrupted' = lawInterrupted \cup
          (IF lawRun[r].at = "map" THEN lawRun[r].law ELSE {})
    /\ lawRun' = [lawRun EXCEPT ![r] = LawOff]
    /\ UNCHANGED <<lawRows, knownHomes>>

-----------------------------------------------------------------------------
LawInit ==
    /\ inFeed = {} /\ homes = {} /\ recorded = {}
    /\ impacts = [l \in Laws |-> {}]
    /\ lawRun = [r \in WatchRuns |-> LawOff]
    /\ lawFaults = 0 /\ lawInterrupted = {}
    /\ knownHomes = [l \in Laws |-> {}]

LawStep(r) ==
    \/ PollFeed(r) \/ ReadHomes(r) \/ LawDone(r) \/ WatchEnds(r)
    \/ \E l \in Laws : LookForLaw(r, l) \/ RecordLaw(r, l) \/ \E h \in Homes : MapToHome(r, l, h)

LawNext ==
    \/ \E l \in Laws : PublishLaw(l)
    \/ \E h \in Homes : AddHome(h)
    \/ \E r \in WatchRuns : LawStep(r) \/ WatchFails(r)

LawSpec == LawInit /\ [][LawNext]_lawVars

-----------------------------------------------------------------------------
(* Rows and runs hold what the code may write. *)
LawTypeOK ==
    /\ inFeed \subseteq Laws /\ homes \subseteq Homes
    /\ recorded \subseteq inFeed
    /\ impacts \in [Laws -> SUBSET homes]
    /\ lawRun \in [WatchRuns ->
          [at: {"off", "polled", "next", "insert", "map"}, items: SUBSET inFeed,
           known: SUBSET homes, law: {{}} \cup {{l} : l \in inFeed}, left: SUBSET homes]]
    /\ lawFaults \in 0..MaxLawFaults
    /\ knownHomes \in [Laws -> SUBSET homes]
    /\ lawInterrupted \subseteq recorded

(* A law that no run is mapping concerns exactly the homes it matches among *)
(* those the inserting run knew of, unless a fault ended that run: then the *)
(* law is on record, no later run looks at it, and the rest are never       *)
(* mapped; and so it is for every home that was added after the read.       *)
LawsAreMapped ==
    \A l \in recorded \ lawInterrupted :
        (\A r \in WatchRuns : lawRun[r].at = "map" => lawRun[r].law # {l}) =>
            impacts[l] = knownHomes[l] \cap Concerns[l]

Watch == INSTANCE LiftOnce WITH
    Items <- Laws,
    FollowUps <- Concerns,
    marked <- recorded,
    lifted <- impacts

(* The watch keeps the promise of LiftOnce: a law is mapped to homes after it *)
(* was recorded, once each, only to homes it concerns, and stays mapped.      *)
LawsLiftedOnce == Watch!Spec
=============================================================================
