------------------------- MODULE InteractionMemory --------------------------
(***************************************************************************)
(* The memory of contacts with a tenant. A run picks the notes that have   *)
(* no summary, writes the summary of each, then inserts the promises found *)
(* in it one by one, and when it has done them all marks the promises      *)
(* whose date has passed. Every statement is a transaction of its own; a   *)
(* promise is unique per note and text, and inserting it again throws.     *)
(***************************************************************************)
EXTENDS Naturals, Sequences

CONSTANTS
    Notes,          \* rows of staff_notes, sessions and communications (a bound)
    TableOf,        \* which of the three tables each note is in
    Texts,          \* what a promise may say
    TextOf,         \* the promises that the summariser finds in each note, in order
    MemoryRuns,     \* runs of the agent that may overlap (a bound)
    MaxMemoryFaults \* how often a run ends half way (a bound)

ASSUME MemoryAssumption ==
    /\ TableOf \in [Notes -> 1..3]
    /\ TextOf \in [Notes -> Seq(Texts)]
    /\ MaxMemoryFaults \in Nat

Found(n) == 1..Len(TextOf[n])   \* in the order they are lifted
AllPromises == UNION {{<<n, k>> : k \in Found(n)} : n \in Notes}

VARIABLES
    written,       \* notes that exist
    summarised,    \* notes with a summary
    promises,      \* rows of commitments, as the note and the place of the promise in it
    pastDue,       \* promises whose date has passed
    overdue,       \* promises with status overdue
    memoryRun,     \* what each run is at
    memoryFaults,  \* faults so far
    interrupted    \* notes a run was at when it ended by a fault

noteVars == <<written, summarised, promises, pastDue, overdue>>
memoryVars == <<noteVars, memoryRun, memoryFaults, interrupted>>

\* table: the last table that was read; queue: its notes left to do; note: the one whose promises are being
\* lifted, from the next-th on; late: the promises found past their date.
MemoryOff == [at |-> "off", table |-> 0, queue |-> {}, note |-> {}, next |-> 0, late |-> {}]
Pending == written \ summarised

-----------------------------------------------------------------------------
WriteNote(n) ==
    /\ n \in Notes \ written
    /\ written' = written \cup {n}
    /\ UNCHANGED <<summarised, promises, pastDue, overdue, memoryRun, memoryFaults, interrupted>>

DayPasses(p) ==
    /\ p \in promises \ pastDue
    /\ pastDue' = pastDue \cup {p}
    /\ UNCHANGED <<written, summarised, promises, overdue, memoryRun, memoryFaults, interrupted>>

\* The notes of the next table, when those of the last one are done.
PickNotes(r) ==
    /\ memoryRun[r].at \in {"off", "picked"}
    /\ memoryRun[r].queue = {} /\ memoryRun[r].table < 3
    /\ LET table == memoryRun[r].table + 1
       IN  memoryRun' = [memoryRun EXCEPT ![r].at = "picked", ![r].table = table,
                                          ![r].queue = {n \in Pending : TableOf[n] = table}]
    /\ UNCHANGED <<noteVars, memoryFaults, interrupted>>

\* Variant of SummariseNote: the promises come before the summary.
SummariseLater(r, n) ==
    /\ memoryRun[r].at = "picked"
    /\ n \in memoryRun[r].queue
    /\ memoryRun' = [memoryRun EXCEPT ![r].at = "lift", ![r].note = {n}, ![r].next = 1]
    /\ UNCHANGED <<noteVars, memoryFaults, interrupted>>

\* By id: a note that another run has summarised meanwhile is summarised again.
SummariseNote(r, n) ==
    /\ memoryRun[r].at = "picked"
    /\ n \in memoryRun[r].queue
    /\ summarised' = summarised \cup {n}
    /\ memoryRun' = [memoryRun EXCEPT ![r].at = "lift", ![r].note = {n}, ![r].next = 1]
    /\ UNCHANGED <<written, promises, pastDue, overdue, memoryFaults, interrupted>>

\* Variant of OnRecord: a note with one promise on record has them all.
OnRecordOfNote(n, k) == \E j \in Found(n) : <<n, j>> \in promises
\* UNIQUE (source_table, source_id, text).
OnRecord(n, k) == \E j \in Found(n) : <<n, j>> \in promises /\ TextOf[n][j] = TextOf[n][k]

\* A duplicate, which another run left or the note itself repeats, throws and ends
\* the run before the rest of the note, its other notes and its sweep.
LiftPromise(r, n) ==
    /\ memoryRun[r].at = "lift"
    /\ memoryRun[r].note = {n}
    /\ memoryRun[r].next \in Found(n)
    /\ IF OnRecord(n, memoryRun[r].next)
       THEN /\ memoryRun' = [memoryRun EXCEPT ![r] = MemoryOff]
            /\ UNCHANGED promises
       ELSE /\ promises' = promises \cup {<<n, memoryRun[r].next>>}
            /\ memoryRun' = [memoryRun EXCEPT ![r].next = @ + 1]
    /\ UNCHANGED <<written, summarised, pastDue, overdue, memoryFaults, interrupted>>

NoteDone(r, n) ==
    /\ memoryRun[r].at = "lift"
    /\ memoryRun[r].note = {n}
    /\ memoryRun[r].next \notin Found(n)
    /\ memoryRun' = [memoryRun EXCEPT ![r].at = "picked", ![r].queue = @ \ {n},
                                      ![r].note = {}, ![r].next = 0]
    /\ UNCHANGED <<noteVars, memoryFaults, interrupted>>

FindOverdue(r) ==
    /\ memoryRun[r].at = "picked"
    /\ memoryRun[r].queue = {} /\ memoryRun[r].table = 3
    /\ memoryRun' = [memoryRun EXCEPT ![r] =
          IF (promises \cap pastDue) \ overdue = {} THEN MemoryOff
          ELSE [@ EXCEPT !.at = "mark", !.late = (promises \cap pastDue) \ overdue]]
    /\ UNCHANGED <<noteVars, memoryFaults, interrupted>>

MarkOverdue(r, p) ==
    /\ memoryRun[r].at = "mark"
    /\ p \in memoryRun[r].late
    /\ overdue' = overdue \cup {p}
    /\ memoryRun' = [memoryRun EXCEPT ![r] =
          IF memoryRun[r].late = {p} THEN MemoryOff ELSE [@ EXCEPT !.late = memoryRun[r].late \ {p}]]
    /\ UNCHANGED <<written, summarised, promises, pastDue, memoryFaults, interrupted>>

\* The summariser or a statement throws, or the worker is gone.
MemoryRunEnds(r) ==
    /\ memoryRun[r] # MemoryOff
    /\ memoryFaults < MaxMemoryFaults
    /\ memoryFaults' = memoryFaults + 1
    /\ interrupted' = interrupted \cup memoryRun[r].note
    /\ memoryRun' = [memoryRun EXCEPT ![r] = MemoryOff]
    /\ UNCHANGED noteVars

-----------------------------------------------------------------------------
MemoryInit ==
    /\ written = {} /\ summarised = {} /\ promises = {} /\ pastDue = {} /\ overdue = {}
    /\ memoryRun = [r \in MemoryRuns |-> MemoryOff]
    /\ memoryFaults = 0 /\ interrupted = {}

MemoryStep(r) ==
    \/ PickNotes(r) \/ FindOverdue(r)
    \/ \E n \in Notes : SummariseNote(r, n) \/ LiftPromise(r, n) \/ NoteDone(r, n)
    \/ \E p \in AllPromises : MarkOverdue(r, p)

MemoryNext ==
    \/ \E n \in Notes : WriteNote(n)
    \/ \E p \in AllPromises : DayPasses(p)
    \/ \E r \in MemoryRuns : MemoryStep(r) \/ MemoryRunEnds(r)

MemorySpec == MemoryInit /\ [][MemoryNext]_memoryVars

-----------------------------------------------------------------------------
(* Rows and runs hold what the code may write. *)
MemoryTypeOK ==
    /\ written \subseteq Notes
    /\ summarised \subseteq written
    /\ promises \subseteq AllPromises
    /\ pastDue \subseteq promises /\ overdue \subseteq pastDue
    /\ memoryRun \in [MemoryRuns ->
          [at: {"off", "picked", "lift", "mark"}, table: 0..3, queue: SUBSET written,
           note: {{}} \cup {{n} : n \in written}, next: Nat, late: SUBSET pastDue]]
    /\ memoryFaults \in 0..MaxMemoryFaults
    /\ interrupted \subseteq written

\* The promises of a note up to the first that repeats an earlier one.
BeforeRepeats(n) ==
    {k \in Found(n) : \A i, j \in 1..k : TextOf[n][i] = TextOf[n][j] => i = j}

\* A note that was dealt with: no run is at it, and no fault ended one at it.
Settled(n) ==
    n \in summarised \ interrupted /\ \A r \in MemoryRuns : memoryRun[r].note # {n}

(* No promise is lost to overlapping runs: the run whose insert is refused   *)
(* ends, and the one that was first lifts the rest. A summarised note that   *)
(* no run is at has its promises on record as far as it repeats none, unless *)
(* a fault ended a run at it: the summary is there, and no later run looks   *)
(* at the note again.                                                        *)
PromisesAreLifted ==
    \A n \in Notes : Settled(n) => \A k \in BeforeRepeats(n) : <<n, k>> \in promises

(* Every note is summarised and every promise past its date is marked. *)
NothingForgotten == Pending = {} /\ promises \cap pastDue \subseteq overdue

Memory == INSTANCE LiftOnce WITH
    Items <- Notes,
    FollowUps <- [n \in Notes |-> Found(n)],
    marked <- summarised,
    lifted <- [n \in Notes |-> {k \in Found(n) : <<n, k>> \in promises}]

(* The memory keeps the promise of LiftOnce: a promise goes on record after  *)
(* its note has a summary, once, and stays.                                  *)
MemoryLiftsOnce == Memory!Spec
=============================================================================
