---------------------------- MODULE AgentProofs -----------------------------
(***************************************************************************)
(* Proofs about the agents. Two mark an item first and put what follows    *)
(* from it on record afterwards: they implement LiftOnce, and nothing is   *)
(* left out of an item that no fault hit. A ticket has one job and one     *)
(* call, a renewal cycle one decision. All five are well typed. For any    *)
(* items, runs and faults.                                                 *)
(***************************************************************************)
EXTENDS MCAgents, FiniteSetTheorems, TLAPS

-----------------------------------------------------------------------------
\* A note is marked while its promises are lifted; a run that lifts has left
\* none of the earlier ones out; a note that is not summarised has none.
MemoryRunType ==
    [at: {"off", "picked", "lift", "mark"}, table: 0..3, queue: SUBSET Notes,
     note: {{}} \cup {{n} : n \in Notes}, next: Nat, late: SUBSET AllPromises]
MemoryTyped ==
    /\ written \subseteq Notes /\ summarised \subseteq Notes
    /\ promises \subseteq AllPromises
    /\ pastDue \subseteq AllPromises
    /\ memoryRun \in [MemoryRuns -> MemoryRunType]
LiftingIsMarked ==
    \A r \in MemoryRuns :
        IF memoryRun[r].at = "lift"
        THEN memoryRun[r].next >= 1 /\ \E n \in summarised : memoryRun[r].note = {n}
        ELSE memoryRun[r].note = {}
LiftedInOrder ==
    \A r \in MemoryRuns, n \in Notes :
        memoryRun[r].note = {n} =>
            \A k \in Found(n) : k < memoryRun[r].next => <<n, k>> \in promises
UnmarkedIsEmpty == \A n \in Notes \ summarised : \A k \in Found(n) : <<n, k>> \notin promises

\* The run that will lift the rest of a note: none of it is on record yet.
Leads(r, n) ==
    /\ memoryRun[r].note = {n}
    /\ \A k \in Found(n) : k >= memoryRun[r].next => <<n, k>> \notin promises
Complete(n) == \A k \in BeforeRepeats(n) : <<n, k>> \in promises
LedOrComplete ==
    \A n \in summarised \ interrupted : Complete(n) \/ \E r \in MemoryRuns : Leads(r, n)

MemoryInv ==
    MemoryTyped /\ LiftingIsMarked /\ LiftedInOrder /\ UnmarkedIsEmpty /\ LedOrComplete

\* The promises of a note are counted from one.
LEMMA FoundIsNat == \A n \in Notes : \A k \in Found(n) : k \in Nat /\ k >= 1
<1>1. \A n \in Notes : Len(TextOf[n]) \in Nat
    BY MemoryAssumption
<1> QED BY <1>1 DEF Found

LEMMA MemoryInvInit == MemoryInit => MemoryInv
<1> SUFFICES ASSUME MemoryInit PROVE MemoryInv
    OBVIOUS
<1> USE DEF MemoryInit, MemoryOff
<1>1. MemoryTyped
    BY DEF MemoryTyped, MemoryRunType
<1>2. LiftingIsMarked /\ LiftedInOrder /\ UnmarkedIsEmpty /\ LedOrComplete
    BY DEF LiftingIsMarked, LiftedInOrder, UnmarkedIsEmpty, LedOrComplete
<1> QED BY <1>1, <1>2 DEF MemoryInv

\* What each step of a run makes of the run.
LEMMA PickNotesRun ==
    ASSUME MemoryTyped, NEW r \in MemoryRuns, PickNotes(r)
    PROVE  \E new \in MemoryRunType :
              /\ memoryRun' = [memoryRun EXCEPT ![r] = new]
              /\ new.at = "picked" /\ new.note = memoryRun[r].note
<1> DEFINE old == memoryRun[r]
           new == [old EXCEPT !.at = "picked", !.table = old.table + 1,
                              !.queue = {n \in Pending : TableOf[n] = old.table + 1}]
<1>1. old \in MemoryRunType
    BY DEF MemoryTyped
<1>2. memoryRun' = [memoryRun EXCEPT ![r] = new]
    BY DEF PickNotes, MemoryTyped
<1>3. old.table + 1 \in 0..3
    BY <1>1 DEF PickNotes, MemoryRunType
<1>4. {n \in Pending : TableOf[n] = old.table + 1} \in SUBSET Notes
    BY DEF MemoryTyped, Pending
<1>5. new \in MemoryRunType /\ new.at = "picked" /\ new.note = old.note
    BY <1>1, <1>3, <1>4 DEF MemoryRunType
<1> QED BY <1>2, <1>5

LEMMA SweepRun ==
    ASSUME MemoryTyped, NEW r \in MemoryRuns,
           FindOverdue(r) \/ \E p \in AllPromises : MarkOverdue(r, p)
    PROVE  /\ memoryRun[r].at # "lift"
           /\ \E new \in MemoryRunType :
                /\ memoryRun' = [memoryRun EXCEPT ![r] = new]
                /\ new = MemoryOff \/ (new.at = "mark" /\ new.note = memoryRun[r].note)
<1> DEFINE old == memoryRun[r]
<1>1. old \in MemoryRunType /\ MemoryOff \in MemoryRunType
    BY DEF MemoryTyped, MemoryRunType, MemoryOff
<1>2. ASSUME FindOverdue(r)
      PROVE  \E new \in MemoryRunType :
                /\ memoryRun' = [memoryRun EXCEPT ![r] = new]
                /\ new = MemoryOff \/ (new.at = "mark" /\ new.note = old.note)
    <2> DEFINE new == [old EXCEPT !.at = "mark", !.late = (promises \cap pastDue) \ overdue]
    <2>1. new \in MemoryRunType /\ new.at = "mark" /\ new.note = old.note
        BY <1>1 DEF MemoryTyped, MemoryRunType
    <2>2. \/ memoryRun' = [memoryRun EXCEPT ![r] = new]
          \/ memoryRun' = [memoryRun EXCEPT ![r] = MemoryOff]
        BY <1>2 DEF FindOverdue, MemoryTyped
    <2> HIDE DEF new
    <2> QED BY <1>1, <2>1, <2>2
<1>3. ASSUME NEW p \in AllPromises, MarkOverdue(r, p)
      PROVE  \E new \in MemoryRunType :
                /\ memoryRun' = [memoryRun EXCEPT ![r] = new]
                /\ new = MemoryOff \/ (new.at = "mark" /\ new.note = old.note)
    <2> DEFINE new == [old EXCEPT !.late = @ \ {p}]
    <2>1. new \in MemoryRunType /\ new.at = "mark" /\ new.note = old.note
        BY <1>1, <1>3 DEF MarkOverdue, MemoryRunType
    <2>2. \/ memoryRun' = [memoryRun EXCEPT ![r] = new]
          \/ memoryRun' = [memoryRun EXCEPT ![r] = MemoryOff]
        <3>1. CASE memoryRun[r].late = {p}
            BY <1>3, <3>1 DEF MarkOverdue, MemoryTyped
        <3>2. CASE memoryRun[r].late # {p}
            BY <1>3, <3>2 DEF MarkOverdue, MemoryTyped
        <3> QED BY <3>1, <3>2
    <2> HIDE DEF new
    <2> QED BY <1>1, <2>1, <2>2
<1>4. old.at # "lift"
    BY DEF FindOverdue, MarkOverdue
<1> QED BY <1>2, <1>3, <1>4

LEMMA SummariseRun ==
    ASSUME MemoryTyped, NEW r \in MemoryRuns, NEW n \in Notes, SummariseNote(r, n)
    PROVE  \E new \in MemoryRunType :
              /\ memoryRun' = [memoryRun EXCEPT ![r] = new]
              /\ new.at = "lift" /\ new.note = {n} /\ new.next = 1
<1> DEFINE old == memoryRun[r]
           new == [old EXCEPT !.at = "lift", !.note = {n}, !.next = 1]
<1>1. old \in MemoryRunType
    BY DEF MemoryTyped
<1>2. memoryRun' = [memoryRun EXCEPT ![r] = new]
    BY DEF SummariseNote, MemoryTyped
<1>3. new \in MemoryRunType /\ new.at = "lift" /\ new.note = {n} /\ new.next = 1
    BY <1>1 DEF MemoryRunType
<1> QED BY <1>2, <1>3

LEMMA LiftRun ==
    ASSUME MemoryTyped, NEW r \in MemoryRuns, NEW n \in Notes, LiftPromise(r, n),
           ~ OnRecord(n, memoryRun[r].next)
    PROVE  \E new \in MemoryRunType :
              /\ memoryRun' = [memoryRun EXCEPT ![r] = new]
              /\ new.at = "lift" /\ new.note = {n} /\ new.next = memoryRun[r].next + 1
<1> DEFINE old == memoryRun[r]
           new == [old EXCEPT !.next = @ + 1]
<1>1. old \in MemoryRunType
    BY DEF MemoryTyped
<1>2. memoryRun' = [memoryRun EXCEPT ![r] = new]
    BY DEF LiftPromise, MemoryTyped
<1>3. new \in MemoryRunType /\ new.at = "lift" /\ new.note = {n} /\ new.next = old.next + 1
    BY <1>1 DEF MemoryRunType, LiftPromise
<1> QED BY <1>2, <1>3

LEMMA DoneRun ==
    ASSUME MemoryTyped, NEW r \in MemoryRuns, NEW n \in Notes, NoteDone(r, n)
    PROVE  \E new \in MemoryRunType :
              /\ memoryRun' = [memoryRun EXCEPT ![r] = new]
              /\ new.at = "picked" /\ new.note = {}
<1> DEFINE old == memoryRun[r]
           new == [old EXCEPT !.at = "picked", !.queue = @ \ {n}, !.note = {}, !.next = 0]
<1>1. old \in MemoryRunType
    BY DEF MemoryTyped
<1>2. memoryRun' = [memoryRun EXCEPT ![r] = new]
    BY DEF NoteDone, MemoryTyped
<1>3. new \in MemoryRunType /\ new.at = "picked" /\ new.note = {}
    BY <1>1 DEF MemoryRunType
<1> QED BY <1>2, <1>3

\* A step leaves the rows alone and no run's lifting changes, or it is one of
\* the four that matter to what is on record.
LEMMA MemoryStepKinds ==
    ASSUME MemoryTyped, LiftingIsMarked, [MemoryNext]_memoryVars
    PROVE  /\ MemoryTyped'
           /\ \/ /\ UNCHANGED <<summarised, promises, interrupted>>
                 /\ \A r \in MemoryRuns :
                       \/ memoryRun'[r] = memoryRun[r]
                       \/ /\ memoryRun[r].note = {} /\ memoryRun'[r].note = {}
                          /\ memoryRun'[r].at # "lift"
              \/ \E r \in MemoryRuns, n \in Notes :
                    SummariseNote(r, n) \/ LiftPromise(r, n) \/ NoteDone(r, n)
              \/ \E r \in MemoryRuns : MemoryRunEnds(r)
<1>1. CASE UNCHANGED memoryVars
    BY <1>1 DEF memoryVars, noteVars, MemoryTyped
<1>2. ASSUME NEW n \in Notes, WriteNote(n) PROVE MemoryTyped' /\ memoryRun' = memoryRun
    BY <1>2 DEF WriteNote, MemoryTyped
<1>3. ASSUME NEW p \in AllPromises, DayPasses(p) PROVE MemoryTyped' /\ memoryRun' = memoryRun
    BY <1>3 DEF DayPasses, MemoryTyped
<1>4. ASSUME NEW r \in MemoryRuns, PickNotes(r)
      PROVE  /\ MemoryTyped'
             /\ \A q \in MemoryRuns : memoryRun'[q] = memoryRun[q]
                   \/ (memoryRun[q].note = {} /\ memoryRun'[q].note = {} /\ memoryRun'[q].at # "lift")
    <2>1. PICK new \in MemoryRunType :
              /\ memoryRun' = [memoryRun EXCEPT ![r] = new]
              /\ new.at = "picked" /\ new.note = memoryRun[r].note
        BY <1>4, PickNotesRun
    <2>2. memoryRun[r].note = {}
        BY <1>4 DEF PickNotes, LiftingIsMarked
    <2> QED BY <1>4, <2>1, <2>2 DEF PickNotes, noteVars, MemoryTyped
<1>5. ASSUME NEW r \in MemoryRuns, FindOverdue(r) \/ \E p \in AllPromises : MarkOverdue(r, p)
      PROVE  /\ MemoryTyped'
             /\ \A q \in MemoryRuns : memoryRun'[q] = memoryRun[q]
                   \/ (memoryRun[q].note = {} /\ memoryRun'[q].note = {} /\ memoryRun'[q].at # "lift")
    <2>1. PICK new \in MemoryRunType :
              /\ memoryRun' = [memoryRun EXCEPT ![r] = new]
              /\ new = MemoryOff \/ (new.at = "mark" /\ new.note = memoryRun[r].note)
        BY <1>5, SweepRun
    <2>2. memoryRun[r].note = {}
        BY <1>5, SweepRun DEF LiftingIsMarked
    <2>3. new.note = {} /\ new.at # "lift"
        BY <2>1, <2>2 DEF MemoryOff
    <2>4. UNCHANGED <<written, summarised, promises, pastDue, interrupted>>
        BY <1>5 DEF FindOverdue, MarkOverdue, noteVars
    <2> QED BY <2>1, <2>2, <2>3, <2>4 DEF MemoryTyped
<1>6. ASSUME NEW r \in MemoryRuns, NEW n \in Notes, SummariseNote(r, n) PROVE MemoryTyped'
    <2>1. PICK new \in MemoryRunType : memoryRun' = [memoryRun EXCEPT ![r] = new]
        BY <1>6, SummariseRun
    <2> QED BY <1>6, <2>1 DEF SummariseNote, MemoryTyped
<1>7. ASSUME NEW r \in MemoryRuns, NEW n \in Notes, LiftPromise(r, n) PROVE MemoryTyped'
    <2>1. CASE OnRecord(n, memoryRun[r].next)
        <3>1. MemoryOff \in MemoryRunType
            BY DEF MemoryOff, MemoryRunType
        <3> QED BY <1>7, <2>1, <3>1 DEF LiftPromise, MemoryTyped
    <2>2. CASE ~ OnRecord(n, memoryRun[r].next)
        <3>1. PICK new \in MemoryRunType : memoryRun' = [memoryRun EXCEPT ![r] = new]
            BY <1>7, <2>2, LiftRun
        <3>2. <<n, memoryRun[r].next>> \in AllPromises
            BY <1>7 DEF LiftPromise, AllPromises
        <3>3. /\ promises' = promises \cup {<<n, memoryRun[r].next>>}
              /\ UNCHANGED <<written, summarised, pastDue>>
            BY <1>7, <2>2 DEF LiftPromise
        <3> QED BY <3>1, <3>2, <3>3 DEF MemoryTyped
    <2> QED BY <2>1, <2>2
<1>8. ASSUME NEW r \in MemoryRuns, NEW n \in Notes, NoteDone(r, n) PROVE MemoryTyped'
    <2>1. PICK new \in MemoryRunType : memoryRun' = [memoryRun EXCEPT ![r] = new]
        BY <1>8, DoneRun
    <2>2. UNCHANGED <<written, summarised, promises, pastDue>>
        BY <1>8 DEF NoteDone, noteVars
    <2> QED BY <2>1, <2>2 DEF MemoryTyped
<1>9. ASSUME NEW r \in MemoryRuns, MemoryRunEnds(r) PROVE MemoryTyped'
    <2>1. MemoryOff \in MemoryRunType
        BY DEF MemoryOff, MemoryRunType
    <2> QED BY <1>9, <2>1 DEF MemoryRunEnds, noteVars, MemoryTyped
<1>10. ASSUME NEW n \in Notes, WriteNote(n) PROVE UNCHANGED <<summarised, promises, interrupted>>
    BY <1>10 DEF WriteNote
<1>11. ASSUME NEW p \in AllPromises, DayPasses(p) PROVE UNCHANGED <<summarised, promises, interrupted>>
    BY <1>11 DEF DayPasses
<1>12. ASSUME NEW r \in MemoryRuns, PickNotes(r) PROVE UNCHANGED <<summarised, promises, interrupted>>
    BY <1>12 DEF PickNotes, noteVars
<1>13. ASSUME NEW r \in MemoryRuns, FindOverdue(r) \/ \E p \in AllPromises : MarkOverdue(r, p)
       PROVE UNCHANGED <<summarised, promises, interrupted>>
    BY <1>13 DEF FindOverdue, MarkOverdue, noteVars
<1> QED BY <1>1, <1>2, <1>3, <1>4, <1>5, <1>6, <1>7, <1>8, <1>9, <1>10, <1>11, <1>12, <1>13
        DEF MemoryNext, MemoryStep

LEMMA MemoryInvStep == MemoryInv /\ [MemoryNext]_memoryVars => MemoryInv'
<1> SUFFICES ASSUME MemoryInv, [MemoryNext]_memoryVars PROVE MemoryInv'
    OBVIOUS
<1>t. MemoryTyped /\ LiftingIsMarked /\ LiftedInOrder /\ UnmarkedIsEmpty /\ LedOrComplete
    BY DEF MemoryInv
<1>k. MemoryTyped'
    BY <1>t, MemoryStepKinds
<1> DEFINE Same == UNCHANGED <<summarised, promises, interrupted>>
           Quiet == \A r \in MemoryRuns :
                       \/ memoryRun'[r] = memoryRun[r]
                       \/ /\ memoryRun[r].note = {} /\ memoryRun'[r].note = {}
                          /\ memoryRun'[r].at # "lift"
           Goal == LiftingIsMarked' /\ LiftedInOrder' /\ UnmarkedIsEmpty' /\ LedOrComplete'
<1>1. ASSUME Same, Quiet PROVE Goal
    <2>1. LiftingIsMarked'
        BY <1>1, <1>t DEF LiftingIsMarked
    <2>2. LiftedInOrder'
        BY <1>1, <1>t DEF LiftedInOrder
    <2>3. UnmarkedIsEmpty'
        BY <1>1, <1>t DEF UnmarkedIsEmpty
    <2>4. \A r \in MemoryRuns, n \in Notes : Leads(r, n) => Leads(r, n)'
        BY <1>1 DEF Leads
    <2>5. LedOrComplete'
        BY <1>1, <1>t, <2>4 DEF LedOrComplete, Complete, MemoryTyped
    <2> QED BY <2>1, <2>2, <2>3, <2>5
<1>2. ASSUME NEW r \in MemoryRuns, NEW n \in Notes, SummariseNote(r, n) PROVE Goal
    <2>1. PICK new \in MemoryRunType :
              /\ memoryRun' = [memoryRun EXCEPT ![r] = new]
              /\ new.at = "lift" /\ new.note = {n} /\ new.next = 1
        BY <1>2, <1>t, SummariseRun
    <2>2. /\ memoryRun[r].note = {}
          /\ summarised' = summarised \cup {n} /\ UNCHANGED <<promises, interrupted>>
        BY <1>2, <1>t DEF SummariseNote, LiftingIsMarked
    <2>3. /\ memoryRun'[r] = new
          /\ \A q \in MemoryRuns : q # r => memoryRun'[q] = memoryRun[q]
        BY <2>1, <1>t DEF MemoryTyped
    <2>4. LiftingIsMarked'
        BY <2>1, <2>2, <2>3, <1>t DEF LiftingIsMarked
    <2>5. LiftedInOrder'
        BY <2>1, <2>2, <2>3, <1>t, FoundIsNat DEF LiftedInOrder
    <2>6. UnmarkedIsEmpty'
        BY <2>2, <1>t DEF UnmarkedIsEmpty
    <2>7. \A q \in MemoryRuns, m \in Notes : Leads(q, m) => Leads(q, m)'
        BY <2>1, <2>2, <2>3 DEF Leads
    <2>8. n \notin summarised => Leads(r, n)'
        BY <2>1, <2>2, <2>3, <1>t DEF Leads, UnmarkedIsEmpty
    <2>9. LedOrComplete'
        BY <2>2, <2>7, <2>8, <1>t DEF LedOrComplete, Complete, MemoryTyped
    <2> QED BY <2>4, <2>5, <2>6, <2>9
<1>3. ASSUME NEW r \in MemoryRuns, NEW n \in Notes, LiftPromise(r, n),
             OnRecord(n, memoryRun[r].next)
      PROVE  Goal
    <2>1. memoryRun' = [memoryRun EXCEPT ![r] = MemoryOff]
          /\ UNCHANGED <<summarised, promises, interrupted>>
        BY <1>3 DEF LiftPromise
    <2>2. /\ memoryRun'[r] = MemoryOff
          /\ \A q \in MemoryRuns : q # r => memoryRun'[q] = memoryRun[q]
        BY <2>1, <1>t DEF MemoryTyped
    <2>3. MemoryOff.at = "off" /\ MemoryOff.note = {}
        BY DEF MemoryOff
    <2>4. LiftingIsMarked'
        BY <2>1, <2>2, <2>3, <1>t DEF LiftingIsMarked
    <2>5. LiftedInOrder'
        BY <2>1, <2>2, <2>3, <1>t DEF LiftedInOrder
    <2>6. UnmarkedIsEmpty'
        BY <2>1, <1>t DEF UnmarkedIsEmpty
    <2>7. \A m \in Notes : Leads(r, m) => Complete(m)
        <3>1. /\ memoryRun[r].note = {n} /\ memoryRun[r].next \in Found(n)
            BY <1>3 DEF LiftPromise
        <3>2. SUFFICES ASSUME Leads(r, n) PROVE Complete(n)
            BY <3>1 DEF Leads
        <3>3. PICK j \in Found(n) :
                  <<n, j>> \in promises /\ TextOf[n][j] = TextOf[n][memoryRun[r].next]
            BY <1>3 DEF OnRecord
        <3>4. j < memoryRun[r].next
            BY <3>1, <3>2, <3>3, FoundIsNat DEF Leads
        <3>5. \A k \in BeforeRepeats(n) : k \in Found(n) /\ k < memoryRun[r].next
            BY <3>1, <3>3, <3>4, FoundIsNat DEF BeforeRepeats
        <3> QED BY <3>1, <3>5, <1>t DEF Complete, LiftedInOrder
    <2>8. \A q \in MemoryRuns, m \in Notes : q # r /\ Leads(q, m) => Leads(q, m)'
        BY <2>1, <2>2 DEF Leads
    <2>9. LedOrComplete'
        BY <2>1, <2>7, <2>8, <1>t DEF LedOrComplete, Complete, MemoryTyped
    <2> QED BY <2>4, <2>5, <2>6, <2>9
<1>4. ASSUME NEW r \in MemoryRuns, NEW n \in Notes, LiftPromise(r, n),
             ~ OnRecord(n, memoryRun[r].next)
      PROVE  Goal
    <2> DEFINE old == memoryRun[r]
    <2>1. PICK new \in MemoryRunType :
              /\ memoryRun' = [memoryRun EXCEPT ![r] = new]
              /\ new.at = "lift" /\ new.note = {n} /\ new.next = old.next + 1
        BY <1>4, <1>t, LiftRun
    <2>2. /\ old.at = "lift" /\ old.note = {n} /\ old.next \in Found(n) /\ old.next \in Nat
          /\ promises' = promises \cup {<<n, old.next>>} /\ UNCHANGED <<summarised, interrupted>>
          /\ <<n, old.next>> \notin promises
        BY <1>4, <1>t DEF LiftPromise, OnRecord, MemoryTyped, MemoryRunType
    <2>3. /\ memoryRun'[r] = new
          /\ \A q \in MemoryRuns : q # r => memoryRun'[q] = memoryRun[q]
        BY <2>1, <1>t DEF MemoryTyped
    <2>4. LiftingIsMarked'
        BY <2>1, <2>2, <2>3, <1>t DEF LiftingIsMarked
    <2>5. LiftedInOrder'
        <3>1. \A k \in Found(n) : k < new.next => k < old.next \/ k = old.next
            BY <2>1, <2>2, FoundIsNat
        <3>2. \A k \in Found(n) : k < new.next => <<n, k>> \in promises'
            BY <2>2, <3>1, <1>t DEF LiftedInOrder
        <3> QED BY <2>1, <2>2, <2>3, <3>2, <1>t DEF LiftedInOrder
    <2>6. n \in summarised
        BY <2>2, <1>t DEF LiftingIsMarked
    <2>7. UnmarkedIsEmpty'
        BY <2>2, <2>6, <1>t DEF UnmarkedIsEmpty
    <2>8. \A q \in MemoryRuns, m \in Notes : m # n /\ Leads(q, m) => Leads(q, m)'
        BY <2>1, <2>2, <2>3 DEF Leads
    <2>9. ASSUME NEW q \in MemoryRuns, Leads(q, n) PROVE Leads(r, n)'
        <3>1. memoryRun[q].next \in Nat
            BY <1>t DEF MemoryTyped, MemoryRunType
        <3>2. ~ (old.next < memoryRun[q].next)
            BY <2>2, <2>9, <1>t DEF Leads, LiftedInOrder
        <3>3. \A k \in Found(n) : k >= new.next =>
                    k >= memoryRun[q].next /\ k # old.next
            <4>1. Found(n) \subseteq Nat
                BY FoundIsNat
            <4>2. old.next \in Nat /\ new.next = old.next + 1
                BY <2>1, <2>2
            <4> HIDE DEF old
            <4> QED BY <4>1, <4>2, <3>1, <3>2
        <3>4. \A k \in Found(n) : k >= new.next => <<n, k>> \notin promises'
            BY <2>2, <2>9, <3>3 DEF Leads
        <3> QED BY <2>1, <2>3, <3>4 DEF Leads
    <2>10. \A m \in Notes : Complete(m) => Complete(m)'
        BY <2>2 DEF Complete
    <2>11. LedOrComplete'
        BY <2>2, <2>8, <2>9, <2>10, <1>t DEF LedOrComplete, MemoryTyped
    <2> QED BY <2>4, <2>5, <2>7, <2>11
<1>5. ASSUME NEW r \in MemoryRuns, NEW n \in Notes, NoteDone(r, n) PROVE Goal
    <2> DEFINE old == memoryRun[r]
    <2>1. PICK new \in MemoryRunType :
              /\ memoryRun' = [memoryRun EXCEPT ![r] = new]
              /\ new.at = "picked" /\ new.note = {}
        BY <1>5, <1>t, DoneRun
    <2>2. /\ old.at = "lift" /\ old.note = {n} /\ old.next \notin Found(n)
          /\ UNCHANGED <<summarised, promises, interrupted>>
        BY <1>5 DEF NoteDone, noteVars
    <2>3. /\ memoryRun'[r] = new
          /\ \A q \in MemoryRuns : q # r => memoryRun'[q] = memoryRun[q]
        BY <2>1, <1>t DEF MemoryTyped
    <2>4. LiftingIsMarked'
        BY <2>1, <2>2, <2>3, <1>t DEF LiftingIsMarked
    <2>5. LiftedInOrder'
        BY <2>1, <2>2, <2>3, <1>t DEF LiftedInOrder
    <2>6. UnmarkedIsEmpty'
        BY <2>2, <1>t DEF UnmarkedIsEmpty
    <2>7. Complete(n)
        <3>1. old.next \in Nat /\ old.next >= 1
            BY <2>2, <1>t DEF LiftingIsMarked, MemoryTyped, MemoryRunType
        <3>2. \A k \in Found(n) : k < old.next
            <4>1. Len(TextOf[n]) \in Nat
                BY MemoryAssumption
            <4> QED BY <2>2, <3>1, <4>1 DEF Found
        <3> QED BY <2>2, <3>2, <1>t DEF Complete, LiftedInOrder, BeforeRepeats
    <2>8. \A q \in MemoryRuns, m \in Notes : q # r /\ Leads(q, m) => Leads(q, m)'
        BY <2>2, <2>3 DEF Leads
    <2>9. \A m \in Notes : Complete(m) => Complete(m)'
        BY <2>2 DEF Complete
    <2>10. \A m \in Notes : Leads(r, m) => m = n
        BY <2>2 DEF Leads
    <2>11. LedOrComplete'
        BY <2>2, <2>7, <2>8, <2>9, <2>10, <1>t DEF LedOrComplete, MemoryTyped
    <2> QED BY <2>4, <2>5, <2>6, <2>11
<1>6. ASSUME NEW r \in MemoryRuns, MemoryRunEnds(r) PROVE Goal
    <2>1. /\ memoryRun' = [memoryRun EXCEPT ![r] = MemoryOff]
          /\ interrupted' = interrupted \cup memoryRun[r].note
          /\ UNCHANGED <<summarised, promises>>
        BY <1>6 DEF MemoryRunEnds, noteVars
    <2>2. /\ memoryRun'[r] = MemoryOff
          /\ \A q \in MemoryRuns : q # r => memoryRun'[q] = memoryRun[q]
        BY <2>1, <1>t DEF MemoryTyped
    <2>3. MemoryOff.at = "off" /\ MemoryOff.note = {}
        BY DEF MemoryOff
    <2>4. LiftingIsMarked'
        BY <2>1, <2>2, <2>3, <1>t DEF LiftingIsMarked
    <2>5. LiftedInOrder'
        BY <2>1, <2>2, <2>3, <1>t DEF LiftedInOrder
    <2>6. UnmarkedIsEmpty'
        BY <2>1, <1>t DEF UnmarkedIsEmpty
    <2>7. \A q \in MemoryRuns, m \in Notes : q # r /\ Leads(q, m) => Leads(q, m)'
        BY <2>1, <2>2 DEF Leads
    <2>8. \A m \in Notes : Complete(m) => Complete(m)'
        BY <2>1 DEF Complete
    <2>9. \A m \in Notes : Leads(r, m) => m \in interrupted'
        BY <2>1 DEF Leads
    <2>10. LedOrComplete'
        BY <2>1, <2>7, <2>8, <2>9, <1>t DEF LedOrComplete, MemoryTyped
    <2> QED BY <2>4, <2>5, <2>6, <2>10
<1>7. Goal
    <2>1. \/ Same /\ Quiet
          \/ \E r \in MemoryRuns, n \in Notes :
                SummariseNote(r, n) \/ LiftPromise(r, n) \/ NoteDone(r, n)
          \/ \E r \in MemoryRuns : MemoryRunEnds(r)
        BY <1>t, MemoryStepKinds
    <2> HIDE DEF Same, Quiet, Goal
    <2> QED BY <2>1, <1>1, <1>2, <1>3, <1>4, <1>5, <1>6
<1> QED BY <1>k, <1>7 DEF MemoryInv

(* In every reachable state the marks and the promises of the notes are in   *)
(* step: what the two theorems below rest on.                                *)
THEOREM MemoryInvHolds == MemorySpec => []MemoryInv
<1> QED BY MemoryInvInit, MemoryInvStep, PTL DEF MemorySpec

(* Overlapping runs of the memory lose no promise: a summarised note that no *)
(* run is at has them on record as far as it repeats none, unless a fault    *)
(* ended a run at it.                                                        *)
THEOREM PromisesAreLiftedCorrect == MemorySpec => []PromisesAreLifted
<1>1. MemoryInv => PromisesAreLifted
    BY DEF MemoryInv, LedOrComplete, Complete, Leads, Settled, PromisesAreLifted
<1> QED BY <1>1, MemoryInvHolds, PTL

-----------------------------------------------------------------------------
\* What is on record of a note, as LiftOnce sees it.
LiftedOf(n) == {k \in Found(n) : <<n, k>> \in promises}

LEMMA MemoryInitLifts == MemoryInit => Memory!Init
BY DEF MemoryInit, Memory!Init

LEMMA MemoryStepLifts ==
    ASSUME MemoryInv, [MemoryNext]_memoryVars
    PROVE  [Memory!Next]_<<summarised, [n \in Notes |-> LiftedOf(n)]>>
<1> DEFINE lifted == [n \in Notes |-> LiftedOf(n)]
<1>t. MemoryTyped /\ LiftingIsMarked /\ LiftedInOrder /\ UnmarkedIsEmpty /\ LedOrComplete
    BY DEF MemoryInv
<1>1. CASE UNCHANGED <<summarised, promises>>
    BY <1>1 DEF LiftedOf
<1>2. ASSUME NEW r \in MemoryRuns, NEW n \in Notes, SummariseNote(r, n)
      PROVE  Memory!Mark(n) \/ UNCHANGED <<summarised, promises>>
    <2>1. summarised' = summarised \cup {n} /\ UNCHANGED promises
        BY <1>2 DEF SummariseNote
    <2>2. UNCHANGED lifted
        BY <2>1 DEF LiftedOf
    <2>3. CASE n \in summarised
        BY <2>1, <2>3
    <2>4. CASE n \notin summarised
        BY <2>1, <2>2, <2>4 DEF Memory!Mark, LiftedOf
    <2> QED BY <2>3, <2>4
<1>3. ASSUME NEW r \in MemoryRuns, NEW n \in Notes, LiftPromise(r, n),
             ~ OnRecord(n, memoryRun[r].next)
      PROVE  \E k \in Found(n) : Memory!Lift(n, k)
    <2> DEFINE k == memoryRun[r].next
    <2>1. /\ memoryRun[r].at = "lift" /\ memoryRun[r].note = {n} /\ k \in Found(n)
          /\ promises' = promises \cup {<<n, k>>} /\ UNCHANGED summarised
          /\ <<n, k>> \notin promises
        BY <1>3 DEF LiftPromise, OnRecord
    <2>2. n \in summarised
        BY <2>1, <1>t DEF LiftingIsMarked
    <2>3. k \in LiftedOf(n)' /\ k \notin LiftedOf(n)
        BY <2>1 DEF LiftedOf
    <2>4. \A m \in Notes : LiftedOf(m)' = IF m = n THEN LiftedOf(n) \cup {k} ELSE LiftedOf(m)
        BY <2>1 DEF LiftedOf
    <2>5. lifted' = [lifted EXCEPT ![n] = lifted[n] \cup {k}]
        BY <2>4
    <2> HIDE DEF k
    <2> QED BY <2>1, <2>2, <2>3, <2>5 DEF Memory!Lift, LiftedOf
<1>4. ASSUME NEW r \in MemoryRuns, NEW n \in Notes,
             NoteDone(r, n) \/ (LiftPromise(r, n) /\ OnRecord(n, memoryRun[r].next))
      PROVE  UNCHANGED <<summarised, promises>>
    BY <1>4 DEF NoteDone, LiftPromise, noteVars
<1>5. ASSUME NEW r \in MemoryRuns, MemoryRunEnds(r) PROVE UNCHANGED <<summarised, promises>>
    BY <1>5 DEF MemoryRunEnds, noteVars
<1>6. \/ UNCHANGED <<summarised, promises>>
      \/ \E n \in Notes : Memory!Mark(n)
      \/ \E n \in Notes : \E k \in Found(n) : Memory!Lift(n, k)
    BY <1>2, <1>3, <1>4, <1>5, <1>t, MemoryStepKinds
<1>7. (\E n \in Notes : Memory!Mark(n)) => Memory!Next
    BY DEF Memory!Next
<1>8. (\E n \in Notes : \E k \in Found(n) : Memory!Lift(n, k)) => Memory!Next
    BY DEF Memory!Next
<1> QED BY <1>1, <1>6, <1>7, <1>8

(* The memory of contacts implements LiftOnce: whatever runs overlap or end, *)
(* a promise goes on record after its note has its summary, once, and stays. *)
THEOREM MemoryLiftsOnceCorrect == MemorySpec => MemoryLiftsOnce
<1>1. MemoryInv /\ [MemoryNext]_memoryVars
        => [Memory!Next]_<<summarised, [n \in Notes |-> {k \in Found(n) : <<n, k>> \in promises}]>>
    BY MemoryStepLifts DEF LiftedOf
<1> QED BY <1>1, MemoryInitLifts, MemoryInvHolds, PTL DEF MemorySpec, MemoryLiftsOnce, Memory!Spec

-----------------------------------------------------------------------------
\* One run maps a law, it maps what the run that recorded it knew of, and only
\* what is left of that; of a law that is not recorded nothing is mapped.
LawRunType ==
    [at: {"off", "polled", "next", "insert", "map"}, items: SUBSET Laws,
     known: SUBSET Homes, law: {{}} \cup {{l} : l \in Laws}, left: SUBSET Homes]
LawTyped ==
    /\ inFeed \subseteq Laws /\ homes \subseteq Homes /\ recorded \subseteq Laws
    /\ impacts \in [Laws -> SUBSET Homes] /\ knownHomes \in [Laws -> SUBSET Homes]
    /\ lawRun \in [WatchRuns -> LawRunType]
Maps(r, l) == lawRun[r].at = "map" /\ lawRun[r].law = {l}
Wanted(l) == knownHomes[l] \cap Concerns[l]
MappingIsRecorded ==
    \A r \in WatchRuns : lawRun[r].at = "map" => \E l \in recorded : lawRun[r].law = {l}
OneMapper == \A r, q \in WatchRuns, l \in Laws : Maps(r, l) /\ Maps(q, l) => r = q
LeftIsMissing ==
    \A r \in WatchRuns, l \in Laws :
        Maps(r, l) => /\ impacts[l] \cup lawRun[r].left = Wanted(l)
                      /\ impacts[l] \cap lawRun[r].left = {}
UnrecordedIsUnmapped == \A l \in Laws \ recorded : impacts[l] = {}
MappedOrInHand ==
    \A l \in recorded \ lawInterrupted :
        impacts[l] = Wanted(l) \/ \E r \in WatchRuns : Maps(r, l)

LawInv == LawTyped /\ MappingIsRecorded /\ OneMapper /\ LeftIsMissing
             /\ UnrecordedIsUnmapped /\ MappedOrInHand

LEMMA LawInvInit == LawInit => LawInv
<1> SUFFICES ASSUME LawInit PROVE LawInv
    OBVIOUS
<1>1. LawTyped
    BY DEF LawInit, LawTyped, LawRunType, LawOff
<1>2. \A r \in WatchRuns : lawRun[r].at = "off"
    BY DEF LawInit, LawOff
<1>3. recorded = {} /\ \A l \in Laws : impacts[l] = {}
    BY DEF LawInit
<1> QED BY <1>1, <1>2, <1>3 DEF LawInv, MappingIsRecorded, OneMapper, LeftIsMissing,
          UnrecordedIsUnmapped, MappedOrInHand, Maps

\* A step of one run that is not a mapping one, and changes no row.
LEMMA LawQuietStep ==
    ASSUME LawInv, NEW r \in WatchRuns, NEW new \in LawRunType,
           lawRun' = [lawRun EXCEPT ![r] = new], new.at # "map",
           lawRun[r].at # "map",
           UNCHANGED <<lawRows, knownHomes, lawInterrupted>>
    PROVE  LawInv'
<1>t. LawTyped /\ MappingIsRecorded /\ OneMapper /\ LeftIsMissing
         /\ UnrecordedIsUnmapped /\ MappedOrInHand
    BY DEF LawInv
<1>1. LawTyped'
    BY <1>t DEF LawTyped, lawRows
<1>2. \A q \in WatchRuns : lawRun'[q] = lawRun[q] \/ (q = r /\ lawRun'[q] = new)
    BY <1>t DEF LawTyped
<1>3. \A q \in WatchRuns, l \in Laws : (Maps(q, l)' <=> Maps(q, l))
                                       /\ (Maps(q, l) => lawRun'[q] = lawRun[q])
    BY <1>2 DEF Maps
<1>4. \A l \in Laws : Wanted(l)' = Wanted(l)
    BY DEF Wanted
<1>5. MappingIsRecorded'
    BY <1>t, <1>2 DEF MappingIsRecorded, lawRows
<1>6. OneMapper'
    BY <1>t, <1>3 DEF OneMapper
<1>7. LeftIsMissing'
    BY <1>t, <1>3, <1>4 DEF LeftIsMissing, lawRows
<1>8. UnrecordedIsUnmapped' /\ MappedOrInHand'
    BY <1>t, <1>3, <1>4 DEF UnrecordedIsUnmapped, MappedOrInHand, lawRows, LawTyped
<1> QED BY <1>1, <1>5, <1>6, <1>7, <1>8 DEF LawInv

\* The steps before a law is recorded, and the end of a run, are quiet ones.
LEMMA LawReads ==
    ASSUME LawTyped, NEW r \in WatchRuns,
           \/ PollFeed(r) \/ ReadHomes(r) \/ WatchEnds(r) \/ \E l \in Laws : LookForLaw(r, l)
    PROVE  /\ lawRun[r].at # "map"
           /\ UNCHANGED <<lawRows, knownHomes, lawInterrupted>>
           /\ \E new \in LawRunType : lawRun' = [lawRun EXCEPT ![r] = new] /\ new.at # "map"
<1> DEFINE old == lawRun[r]
<1>t. old \in LawRunType /\ LawOff \in LawRunType /\ LawOff.at = "off"
    BY DEF LawTyped, LawRunType, LawOff
<1>1. CASE PollFeed(r)
    <2> DEFINE new == [old EXCEPT !.at = "polled", !.items = inFeed]
    <2>1. lawRun' = [lawRun EXCEPT ![r] = new]
        BY <1>1 DEF PollFeed, LawTyped
    <2>2. new \in LawRunType /\ new.at # "map"
        BY <1>t DEF LawTyped, LawRunType
    <2> HIDE DEF new
    <2> QED BY <1>1, <1>t, <2>1, <2>2 DEF PollFeed
<1>2. CASE ReadHomes(r)
    <2> DEFINE new == [old EXCEPT !.at = "next", !.known = homes]
    <2>1. lawRun' = [lawRun EXCEPT ![r] = new]
        BY <1>2 DEF ReadHomes, LawTyped
    <2>2. new \in LawRunType /\ new.at # "map"
        BY <1>t DEF LawTyped, LawRunType
    <2> HIDE DEF new
    <2> QED BY <1>2, <2>1, <2>2 DEF ReadHomes
<1>3. CASE WatchEnds(r)
    BY <1>3, <1>t DEF WatchEnds
<1>4. ASSUME NEW l \in Laws, LookForLaw(r, l)
      PROVE  /\ old.at # "map"
             /\ UNCHANGED <<lawRows, knownHomes, lawInterrupted>>
             /\ \E new \in LawRunType : lawRun' = [lawRun EXCEPT ![r] = new] /\ new.at # "map"
    <2> DEFINE skip == [old EXCEPT !.items = old.items \ {l}]
               take == [old EXCEPT !.items = old.items \ {l}, !.at = "insert", !.law = {l}]
    <2>1. \/ lawRun' = [lawRun EXCEPT ![r] = skip]
          \/ lawRun' = [lawRun EXCEPT ![r] = take]
        BY <1>4 DEF LookForLaw, LawTyped
    <2>2. old.at = "next"
        BY <1>4 DEF LookForLaw
    <2>3. skip \in LawRunType /\ skip.at # "map"
        BY <1>t, <2>2 DEF LawRunType
    <2>4. take \in LawRunType /\ take.at # "map"
        BY <1>t DEF LawRunType
    <2>5. UNCHANGED <<lawRows, knownHomes, lawInterrupted>>
        BY <1>4 DEF LookForLaw
    <2> HIDE DEF skip, take
    <2> QED BY <2>1, <2>2, <2>3, <2>4, <2>5
<1> QED BY <1>1, <1>2, <1>3, <1>4

LEMMA RecordLawRun ==
    ASSUME LawTyped, NEW r \in WatchRuns, NEW l \in Laws, RecordLaw(r, l), ~ Taken(l)
    PROVE  \E new \in LawRunType :
              /\ lawRun' = [lawRun EXCEPT ![r] = new]
              /\ new.at = "map" /\ new.law = {l} /\ new.left = lawRun[r].known \cap Concerns[l]
<1> DEFINE old == lawRun[r]
           new == [old EXCEPT !.at = "map", !.left = old.known \cap Concerns[l]]
<1>1. old \in LawRunType
    BY DEF LawTyped
<1>2. lawRun' = [lawRun EXCEPT ![r] = new]
    BY DEF RecordLaw, LawTyped
<1>3. new \in LawRunType /\ new.at = "map" /\ new.law = {l} /\ new.left = old.known \cap Concerns[l]
    BY <1>1 DEF LawRunType, RecordLaw
<1> HIDE DEF new
<1> QED BY <1>2, <1>3

LEMMA MapRun ==
    ASSUME LawTyped, NEW r \in WatchRuns, NEW l \in Laws, NEW h \in Homes, MapToHome(r, l, h)
    PROVE  \E new \in LawRunType :
              /\ lawRun' = [lawRun EXCEPT ![r] = new]
              /\ new.at = "map" /\ new.law = {l} /\ new.left = lawRun[r].left \ {h}
<1> DEFINE old == lawRun[r]
           new == [old EXCEPT !.left = old.left \ {h}]
<1>1. old \in LawRunType
    BY DEF LawTyped
<1>2. lawRun' = [lawRun EXCEPT ![r] = new]
    BY DEF MapToHome, LawTyped
<1>3. new \in LawRunType /\ new.at = "map" /\ new.law = {l} /\ new.left = old.left \ {h}
    BY <1>1 DEF LawRunType, MapToHome
<1> HIDE DEF new
<1> QED BY <1>2, <1>3

LEMMA LawDoneRun ==
    ASSUME LawTyped, NEW r \in WatchRuns, LawDone(r)
    PROVE  \E new \in LawRunType : lawRun' = [lawRun EXCEPT ![r] = new] /\ new.at = "next"
<1> DEFINE old == lawRun[r]
           new == [old EXCEPT !.at = "next", !.law = {}]
<1>1. old \in LawRunType
    BY DEF LawTyped
<1>2. lawRun' = [lawRun EXCEPT ![r] = new]
    BY DEF LawDone, LawTyped
<1>3. new \in LawRunType /\ new.at = "next"
    BY <1>1 DEF LawRunType
<1> HIDE DEF new
<1> QED BY <1>2, <1>3

LEMMA LawInvStep == LawInv /\ [LawNext]_lawVars => LawInv'
<1> SUFFICES ASSUME LawInv, [LawNext]_lawVars PROVE LawInv'
    OBVIOUS
<1>t. LawTyped /\ MappingIsRecorded /\ OneMapper /\ LeftIsMissing
         /\ UnrecordedIsUnmapped /\ MappedOrInHand
    BY DEF LawInv
<1>o. LawOff \in LawRunType /\ LawOff.at = "off"
    BY DEF LawRunType, LawOff
<1>1. ASSUME UNCHANGED <<recorded, impacts, lawRun, knownHomes, lawInterrupted>>,
             inFeed' \subseteq Laws, homes' \subseteq Homes
      PROVE  LawInv'
    <2>1. LawTyped'
        BY <1>1, <1>t DEF LawTyped
    <2>2. \A r \in WatchRuns, l \in Laws : Maps(r, l)' <=> Maps(r, l)
        BY <1>1 DEF Maps
    <2>3. \A l \in Laws : Wanted(l)' = Wanted(l)
        BY <1>1 DEF Wanted
    <2>4. MappingIsRecorded' /\ OneMapper' /\ LeftIsMissing'
        BY <1>1, <1>t, <2>2, <2>3 DEF MappingIsRecorded, OneMapper, LeftIsMissing
    <2>5. UnrecordedIsUnmapped' /\ MappedOrInHand'
        BY <1>1, <1>t, <2>2, <2>3 DEF UnrecordedIsUnmapped, MappedOrInHand, LawTyped
    <2> QED BY <2>1, <2>4, <2>5 DEF LawInv
<1>2. ASSUME NEW r \in WatchRuns,
             PollFeed(r) \/ ReadHomes(r) \/ WatchEnds(r) \/ \E l \in Laws : LookForLaw(r, l)
      PROVE  LawInv'
    BY <1>2, <1>t, LawReads, LawQuietStep
<1>3. ASSUME NEW r \in WatchRuns, NEW l \in Laws, RecordLaw(r, l), Taken(l) PROVE LawInv'
    <2>1. /\ lawRun[r].at # "map" /\ lawRun' = [lawRun EXCEPT ![r] = LawOff]
          /\ UNCHANGED <<lawRows, knownHomes, lawInterrupted>>
        BY <1>3 DEF RecordLaw, lawRows
    <2> QED BY <2>1, <1>o, LawQuietStep
<1>4. ASSUME NEW r \in WatchRuns, NEW l \in Laws, RecordLaw(r, l), ~ Taken(l) PROVE LawInv'
    <2>1. PICK new \in LawRunType :
              /\ lawRun' = [lawRun EXCEPT ![r] = new]
              /\ new.at = "map" /\ new.law = {l} /\ new.left = lawRun[r].known \cap Concerns[l]
        BY <1>4, <1>t, RecordLawRun
    <2>2. /\ lawRun[r].at = "insert" /\ l \notin recorded
          /\ recorded' = recorded \cup {l}
          /\ knownHomes' = [knownHomes EXCEPT ![l] = lawRun[r].known]
          /\ UNCHANGED <<inFeed, homes, impacts, lawInterrupted>>
        BY <1>4 DEF RecordLaw, Taken
    <2>3. /\ lawRun'[r] = new
          /\ \A q \in WatchRuns : q # r => lawRun'[q] = lawRun[q]
        BY <2>1, <1>t DEF LawTyped
    <2>4. lawRun[r].known \subseteq Homes
        BY <1>t DEF LawTyped, LawRunType
    <2>5. LawTyped'
        BY <2>1, <2>2, <2>4, <1>t DEF LawTyped
    <2>6. \A q \in WatchRuns : ~ Maps(q, l)
        BY <2>2, <1>t DEF Maps, MappingIsRecorded
    <2>7. \A q \in WatchRuns, m \in Laws : Maps(q, m)' <=> (Maps(q, m) \/ (q = r /\ m = l))
        BY <2>1, <2>2, <2>3 DEF Maps
    <2>8. /\ Wanted(l)' = new.left
          /\ \A m \in Laws : m # l => Wanted(m)' = Wanted(m)
        BY <2>1, <2>2, <1>t DEF Wanted, LawTyped
    <2>9. MappingIsRecorded'
        BY <2>1, <2>2, <2>3, <1>t DEF MappingIsRecorded
    <2>10. OneMapper'
        BY <2>6, <2>7, <1>t DEF OneMapper
    <2>11. LeftIsMissing'
        <3>1. ASSUME NEW q \in WatchRuns, NEW m \in Laws, Maps(q, m)'
              PROVE  impacts'[m] \cup lawRun'[q].left = Wanted(m)' /\ impacts'[m] \cap lawRun'[q].left = {}
            <4>1. CASE q = r /\ m = l
                BY <4>1, <2>2, <2>3, <2>8, <1>t DEF UnrecordedIsUnmapped
            <4>2. CASE Maps(q, m)
                <5>1. m # l /\ q # r
                    BY <4>2, <2>2, <2>6 DEF Maps
                <5> QED BY <4>2, <5>1, <2>2, <2>3, <2>8, <1>t DEF LeftIsMissing
            <4> QED BY <3>1, <4>1, <4>2, <2>7
        <3> QED BY <3>1 DEF LeftIsMissing
    <2>12. UnrecordedIsUnmapped'
        BY <2>2, <1>t DEF UnrecordedIsUnmapped
    <2>13. MappedOrInHand'
        BY <2>2, <2>7, <2>8, <1>t DEF MappedOrInHand, LawTyped
    <2> QED BY <2>5, <2>9, <2>10, <2>11, <2>12, <2>13 DEF LawInv
<1>5. ASSUME NEW r \in WatchRuns, NEW l \in Laws, NEW h \in Homes, MapToHome(r, l, h) PROVE LawInv'
    <2>1. PICK new \in LawRunType :
              /\ lawRun' = [lawRun EXCEPT ![r] = new]
              /\ new.at = "map" /\ new.law = {l} /\ new.left = lawRun[r].left \ {h}
        BY <1>5, <1>t, MapRun
    <2>2. /\ Maps(r, l) /\ h \in lawRun[r].left
          /\ impacts' = [impacts EXCEPT ![l] = @ \cup {h}]
          /\ UNCHANGED <<inFeed, homes, recorded, knownHomes, lawInterrupted>>
        BY <1>5 DEF MapToHome, Maps
    <2>3. /\ lawRun'[r] = new
          /\ \A q \in WatchRuns : q # r => lawRun'[q] = lawRun[q]
        BY <2>1, <1>t DEF LawTyped
    <2>4. /\ impacts'[l] = impacts[l] \cup {h}
          /\ \A m \in Laws : m # l => impacts'[m] = impacts[m]
        BY <2>2, <1>t DEF LawTyped
    <2>5. LawTyped'
        BY <2>1, <2>2, <1>t DEF LawTyped
    <2>6. \A q \in WatchRuns, m \in Laws : Maps(q, m)' <=> Maps(q, m)
        BY <2>1, <2>2, <2>3 DEF Maps
    <2>7. \A m \in Laws : Wanted(m)' = Wanted(m)
        BY <2>2 DEF Wanted
    <2>8. \A q \in WatchRuns : Maps(q, l) => q = r
        BY <2>2, <1>t DEF OneMapper
    <2>9. MappingIsRecorded' /\ OneMapper'
        BY <2>1, <2>2, <2>3, <2>6, <1>t DEF MappingIsRecorded, OneMapper, Maps
    <2>10. LeftIsMissing'
        <3>1. ASSUME NEW q \in WatchRuns, NEW m \in Laws, Maps(q, m)
              PROVE  impacts'[m] \cup lawRun'[q].left = Wanted(m) /\ impacts'[m] \cap lawRun'[q].left = {}
            <4>0. impacts[m] \cup lawRun[q].left = Wanted(m) /\ impacts[m] \cap lawRun[q].left = {}
                BY <3>1, <1>t DEF LeftIsMissing
            <4>1. CASE m = l
                BY <4>0, <4>1, <3>1, <2>1, <2>2, <2>3, <2>4, <2>8
            <4>2. CASE m # l
                <5>1. q # r
                    BY <4>2, <3>1, <2>2 DEF Maps
                <5> QED BY <4>0, <4>2, <5>1, <2>3, <2>4
            <4> QED BY <4>1, <4>2
        <3> QED BY <3>1, <2>6, <2>7 DEF LeftIsMissing
    <2>11. l \in recorded
        BY <2>2, <1>t DEF Maps, MappingIsRecorded
    <2>12. UnrecordedIsUnmapped'
        BY <2>2, <2>4, <2>11, <1>t DEF UnrecordedIsUnmapped
    <2>13. MappedOrInHand'
        BY <2>2, <2>4, <2>6, <2>7, <1>t DEF MappedOrInHand, LawTyped
    <2> QED BY <2>5, <2>9, <2>10, <2>12, <2>13 DEF LawInv
<1>6. ASSUME NEW r \in WatchRuns, NEW new \in LawRunType, new.at # "map",
             lawRun' = [lawRun EXCEPT ![r] = new],
             lawRun[r].at = "map",
             lawRun[r].left = {} \/ lawRun[r].law \subseteq lawInterrupted',
             lawInterrupted \subseteq lawInterrupted', UNCHANGED <<lawRows, knownHomes>>
      PROVE  LawInv'
    <2>1. /\ lawRun'[r] = new
          /\ \A q \in WatchRuns : q # r => lawRun'[q] = lawRun[q]
        BY <1>6, <1>t DEF LawTyped
    <2>2. LawTyped'
        BY <1>6, <1>t DEF LawTyped, lawRows
    <2>3. \A q \in WatchRuns, m \in Laws : Maps(q, m)' <=> (Maps(q, m) /\ q # r)
        BY <1>6, <2>1 DEF Maps
    <2>4. \A m \in Laws : Wanted(m)' = Wanted(m)
        BY <1>6 DEF Wanted
    <2>5. MappingIsRecorded'
        BY <1>6, <1>t, <2>1 DEF MappingIsRecorded, lawRows
    <2>6. OneMapper'
        BY <2>3, <1>t DEF OneMapper
    <2>7. LeftIsMissing'
        BY <1>6, <2>1, <2>3, <2>4, <1>t DEF LeftIsMissing, lawRows
    <2>8. UnrecordedIsUnmapped'
        BY <1>6, <1>t DEF UnrecordedIsUnmapped, lawRows
    <2>9. \A m \in Laws : Maps(r, m) => impacts[m] = Wanted(m) \/ m \in lawInterrupted'
        <3>1. ASSUME NEW m \in Laws, Maps(r, m), lawRun[r].left = {} PROVE impacts[m] = Wanted(m)
            <4>1. impacts[m] \cup lawRun[r].left = Wanted(m)
                BY <3>1, <1>t DEF LeftIsMissing
            <4> QED BY <3>1, <4>1
        <3>2. ASSUME NEW m \in Laws, Maps(r, m), lawRun[r].law \subseteq lawInterrupted'
              PROVE  m \in lawInterrupted'
            BY <3>2 DEF Maps
        <3> QED BY <3>1, <3>2, <1>6
    <2>10. MappedOrInHand'
        BY <1>6, <2>3, <2>4, <2>9, <1>t DEF MappedOrInHand, lawRows, LawTyped
    <2> QED BY <2>2, <2>5, <2>6, <2>7, <2>8, <2>10 DEF LawInv
<1>7. ASSUME NEW r \in WatchRuns, LawDone(r) PROVE LawInv'
    <2>1. PICK new \in LawRunType : lawRun' = [lawRun EXCEPT ![r] = new] /\ new.at = "next"
        BY <1>7, <1>t, LawDoneRun
    <2>2. /\ lawRun[r].at = "map" /\ lawRun[r].left = {}
          /\ UNCHANGED <<lawRows, knownHomes, lawInterrupted>>
        BY <1>7 DEF LawDone
    <2> QED BY <2>1, <2>2, <1>6
<1>8. ASSUME NEW r \in WatchRuns, WatchFails(r) PROVE LawInv'
    <2>1. /\ lawRun' = [lawRun EXCEPT ![r] = LawOff]
          /\ lawInterrupted' = lawInterrupted \cup (IF lawRun[r].at = "map" THEN lawRun[r].law ELSE {})
          /\ UNCHANGED <<lawRows, knownHomes>>
        BY <1>8 DEF WatchFails
    <2>2. CASE lawRun[r].at = "map"
        BY <2>1, <2>2, <1>o, <1>6
    <2>3. CASE lawRun[r].at # "map"
        <3>1. UNCHANGED lawInterrupted
            BY <2>1, <2>3
        <3> QED BY <2>1, <2>3, <3>1, <1>o, LawQuietStep
    <2> QED BY <2>2, <2>3
<1>9. CASE UNCHANGED lawVars
    BY <1>9, <1>1, <1>t DEF lawVars, lawRows, LawTyped
<1>10. ASSUME NEW l \in Laws, PublishLaw(l) PROVE LawInv'
    BY <1>10, <1>1, <1>t DEF PublishLaw, LawTyped
<1>11. ASSUME NEW h \in Homes, AddHome(h) PROVE LawInv'
    BY <1>11, <1>1, <1>t DEF AddHome, LawTyped
<1> QED BY <1>2, <1>3, <1>4, <1>5, <1>7, <1>8, <1>9, <1>10, <1>11 DEF LawNext, LawStep

(* In every reachable state each law being mapped is in one run's hands, and *)
(* what it has left is what is missing.                                      *)
THEOREM LawInvHolds == LawSpec => []LawInv
<1> QED BY LawInvInit, LawInvStep, PTL DEF LawSpec

(* A law that no run is mapping is mapped to every home it concerns among    *)
(* those its run knew of, unless a fault ended that run.                     *)
THEOREM LawsAreMappedCorrect == LawSpec => []LawsAreMapped
<1>1. LawInv => LawsAreMapped
    BY DEF LawInv, MappedOrInHand, Maps, Wanted, LawsAreMapped
<1> QED BY <1>1, LawInvHolds, PTL

-----------------------------------------------------------------------------
LEMMA LawStepLifts ==
    ASSUME LawInv, [LawNext]_lawVars
    PROVE  [Watch!Next]_<<recorded, impacts>>
<1>t. LawTyped /\ MappingIsRecorded /\ LeftIsMissing
    BY DEF LawInv
<1>1. CASE UNCHANGED <<recorded, impacts>>
    BY <1>1
<1>2. ASSUME NEW r \in WatchRuns, NEW l \in Laws, RecordLaw(r, l), ~ Taken(l)
      PROVE  Watch!Mark(l)
    BY <1>2 DEF RecordLaw, Taken, Watch!Mark
<1>3. ASSUME NEW r \in WatchRuns, NEW l \in Laws, NEW h \in Homes, MapToHome(r, l, h)
      PROVE  h \in Concerns[l] /\ Watch!Lift(l, h)
    <2>1. Maps(r, l) /\ h \in lawRun[r].left
        BY <1>3 DEF MapToHome, Maps
    <2>2. l \in recorded
        BY <2>1, <1>t DEF Maps, MappingIsRecorded
    <2>3. h \in Concerns[l] /\ h \notin impacts[l]
        BY <2>1, <1>t DEF LeftIsMissing, Wanted
    <2> QED BY <1>3, <2>2, <2>3 DEF MapToHome, Watch!Lift
<1>4. ASSUME NEW r \in WatchRuns,
             \/ PollFeed(r) \/ ReadHomes(r) \/ WatchEnds(r) \/ LawDone(r) \/ WatchFails(r)
             \/ \E l \in Laws : LookForLaw(r, l) \/ (RecordLaw(r, l) /\ Taken(l))
      PROVE  UNCHANGED <<recorded, impacts>>
    BY <1>4 DEF PollFeed, ReadHomes, WatchEnds, LawDone, WatchFails, LookForLaw, RecordLaw, lawRows
<1>5. ASSUME UNCHANGED lawVars \/ (\E l \in Laws : PublishLaw(l)) \/ (\E h \in Homes : AddHome(h))
      PROVE  UNCHANGED <<recorded, impacts>>
    BY <1>5 DEF lawVars, lawRows, PublishLaw, AddHome
<1>6. \/ UNCHANGED <<recorded, impacts>>
      \/ \E l \in Laws : Watch!Mark(l)
      \/ \E l \in Laws : \E h \in Concerns[l] : Watch!Lift(l, h)
    BY <1>2, <1>3, <1>4, <1>5 DEF LawNext, LawStep
<1> QED BY <1>6 DEF Watch!Next

(* The law watch implements LiftOnce: a law is mapped after it was recorded, *)
(* once to each home it concerns, and stays mapped.                          *)
THEOREM LawsLiftedOnceCorrect == LawSpec => LawsLiftedOnce
<1>1. LawInit => Watch!Init
    BY DEF LawInit, Watch!Init
<1> QED BY <1>1, LawStepLifts, LawInvHolds, PTL DEF LawSpec, LawsLiftedOnce, Watch!Spec

(* What the two theorems above show of each agent alone holds of the run     *)
(* that explores all five: both implement LiftOnce there.                    *)
THEOREM AgentsLiftOnceCorrect == AgentsSpec => AgentsLiftOnce
<1>1. AgentsInit => MemoryInit /\ LawInit
    BY DEF AgentsInit
<1>2. [AgentsNext]_agentVars => [MemoryNext]_memoryVars /\ [LawNext]_lawVars
    BY DEF AgentsNext, agentVars
<1>3. AgentsSpec => MemorySpec /\ LawSpec
    BY <1>1, <1>2, PTL DEF AgentsSpec, MemorySpec, LawSpec
<1> QED BY <1>3, MemoryLiftsOnceCorrect, LawsLiftedOnceCorrect DEF AgentsLiftOnce
-----------------------------------------------------------------------------
(* Repair tickets: one job each, and one call.                              *)
-----------------------------------------------------------------------------
\* A run is at the ticket it has just classified, and that is still in its queue.
AtHandIsQueued ==
    \A r \in TriageRuns :
        /\ triageRun[r].at \in {"call", "open"} <=> triageRun[r].ticket # NoTicket
        /\ triageRun[r].ticket \subseteq triageRun[r].queue
\* Two runs have a ticket only if both had picked it.
QueuesAreApart ==
    \A r, q \in TriageRuns :
        r # q => triageRun[r].queue \cap triageRun[q].queue \subseteq pickedTwice
\* What a run has still to write is not classified, and what it is at has no job.
QueuedIsNew ==
    \A r \in TriageRuns : \A t \in triageRun[r].queue \ pickedTwice :
        t \in triaged => triageRun[r].ticket = {t}
AtHandHasNoJob ==
    \A r \in TriageRuns, t \in reported \ pickedTwice :
        triageRun[r].ticket = {t} =>
            /\ dispatchJobs[t] = 0
            /\ tradeCalls[t] <= 1 /\ (triageRun[r].at = "call" => tradeCalls[t] = 0)

TriageInv ==
    /\ TriageTypeOK /\ AtHandIsQueued /\ QueuesAreApart /\ QueuedIsNew /\ AtHandHasNoJob
    /\ TicketHandledOnce

TriageRunType ==
    {TriageOff} \cup
    [queue: SUBSET reported, seen: SUBSET reported, at: {"write", "call", "open"},
     ticket: {NoTicket} \cup {{t} : t \in triaged}]

LEMMA TriageRunHolds ==
    ASSUME TriageInv, NEW r \in TriageRuns
    PROVE  /\ triageRun[r] \in TriageRunType
           /\ triageRun[r].queue \subseteq reported /\ triageRun[r].seen \subseteq reported
           /\ triageRun[r].at \in {"off", "write", "call", "open"}
           /\ triageRun[r].ticket = {} \/ \E t \in triaged : triageRun[r].ticket = {t}
           /\ triageRun[r].at \notin {"call", "open"} => triageRun[r].ticket = {}
           /\ triageRun[r].at \in {"call", "open"} =>
                \E t \in triaged \cap triageRun[r].queue : triageRun[r].ticket = {t}
<1>1. triageRun[r] \in TriageRunType /\ AtHandIsQueued
    BY DEF TriageInv, TriageTypeOK, TriageRunType
<1>2. CASE triageRun[r] = TriageOff
    <2>1. /\ triageRun[r].queue = {} /\ triageRun[r].seen = {}
          /\ triageRun[r].at = "off" /\ triageRun[r].ticket = {}
        BY <1>2 DEF TriageOff, NoTicket
    <2> QED BY <1>1, <2>1
<1>3. CASE triageRun[r] # TriageOff
    <2>1. triageRun[r] \in [queue: SUBSET reported, seen: SUBSET reported,
                            at: {"write", "call", "open"},
                            ticket: {NoTicket} \cup {{t} : t \in triaged}]
        BY <1>1, <1>3 DEF TriageRunType
    <2>2. /\ triageRun[r].queue \subseteq reported /\ triageRun[r].seen \subseteq reported
          /\ triageRun[r].at \in {"write", "call", "open"}
          /\ triageRun[r].ticket = {} \/ \E t \in triaged : triageRun[r].ticket = {t}
        BY <2>1 DEF NoTicket
    <2>3. /\ (triageRun[r].at \in {"call", "open"}) <=> (triageRun[r].ticket # {})
          /\ triageRun[r].ticket \subseteq triageRun[r].queue
        BY <1>1 DEF AtHandIsQueued, NoTicket
    <2> QED BY <1>1, <2>2, <2>3
<1> QED BY <1>2, <1>3

\* No other run is at a ticket that only this one picked.
LEMMA AtHandAlone ==
    ASSUME TriageInv, NEW r \in TriageRuns, NEW q \in TriageRuns, q # r,
           NEW t, t \in triageRun[r].queue, t \notin pickedTwice
    PROVE  t \notin triageRun[q].queue /\ triageRun[q].ticket # {t}
<1>1. QueuesAreApart /\ AtHandIsQueued
    BY DEF TriageInv
<1>2. t \notin triageRun[q].queue
    BY <1>1 DEF QueuesAreApart
<1> QED BY <1>1, <1>2 DEF AtHandIsQueued

LEMMA TriageInvInit == TriageInit => TriageInv
<1> SUFFICES ASSUME TriageInit PROVE TriageInv
    OBVIOUS
<1>1. TriageTypeOK
    BY TriageAssumption DEF TriageInit, TriageTypeOK, TriageOff
<1>2. \A r \in TriageRuns : triageRun[r].queue = {} /\ triageRun[r].ticket = {}
                            /\ triageRun[r].at = "off"
    BY DEF TriageInit, TriageOff, NoTicket
<1>3. AtHandIsQueued /\ QueuesAreApart /\ QueuedIsNew
    BY <1>2 DEF AtHandIsQueued, QueuesAreApart, QueuedIsNew, NoTicket
<1>4. AtHandHasNoJob /\ TicketHandledOnce
    BY DEF TriageInit, AtHandHasNoJob, TicketHandledOnce
<1> QED BY <1>1, <1>3, <1>4 DEF TriageInv

\* What other runs have stays well typed as tickets are reported and triaged.
LEMMA TriageRunStays ==
    ASSUME TriageInv, reported \subseteq reported', triaged \subseteq triaged',
           NEW r \in TriageRuns, triageRun'[r] = triageRun[r]
    PROVE  triageRun'[r] \in TriageRunType'
<1>1. triageRun[r] \in TriageRunType
    BY TriageRunHolds
<1>2. CASE triageRun[r] = TriageOff
    BY <1>2 DEF TriageRunType, TriageOff, NoTicket
<1>3. CASE triageRun[r] # TriageOff
    BY <1>1, <1>3 DEF TriageRunType, TriageOff, NoTicket
<1> QED BY <1>2, <1>3

LEMMA ReportTicketKeeps ==
    ASSUME TriageInv, NEW t \in Tickets, ReportTicket(t)
    PROVE  TriageInv'
<1>t. TriageTypeOK /\ AtHandIsQueued /\ QueuesAreApart /\ QueuedIsNew /\ AtHandHasNoJob
      /\ TicketHandledOnce
    BY DEF TriageInv
<1>s. /\ t \notin reported /\ reported' = reported \cup {t}
      /\ UNCHANGED <<resolved, triaged, tradeCalls, dispatchJobs, triageRun, triageFaults,
                     pickedTwice, undispatched>>
    BY DEF ReportTicket
<1>1. \A r \in TriageRuns : triageRun'[r] \in TriageRunType'
    BY <1>s, TriageRunStays
<1>2. triageRun' \in [TriageRuns -> TriageRunType']
    BY <1>1, <1>s, <1>t DEF TriageTypeOK
<1>3. TriageTypeOK'
    BY <1>s, <1>t, <1>2 DEF TriageTypeOK, TriageRunType, NoTicket, TriageOff
<1>4. t \notin triaged /\ tradeCalls[t] = 0 /\ dispatchJobs[t] = 0
    <2>1. t \notin triaged /\ tradeCalls[t] \in Nat /\ dispatchJobs[t] \in Nat
        BY <1>s, <1>t DEF TriageTypeOK
    <2>2. ~ (tradeCalls[t] + dispatchJobs[t] > 0)
        BY <2>1, <1>t DEF TriageTypeOK
    <2> QED BY <2>1, <2>2
<1>5. AtHandHasNoJob'
    <2>1. \A r \in TriageRuns : triageRun[r].ticket # {t}
        BY <1>4, TriageRunHolds
    <2> QED BY <2>1, <1>s, <1>t DEF AtHandHasNoJob
<1>6. TicketHandledOnce'
    BY <1>4, <1>s, <1>t DEF TicketHandledOnce
<1>7. AtHandIsQueued' /\ QueuesAreApart' /\ QueuedIsNew'
    BY <1>s, <1>t DEF AtHandIsQueued, QueuesAreApart, QueuedIsNew, NoTicket
<1> QED BY <1>3, <1>5, <1>6, <1>7 DEF TriageInv

LEMMA ResolveTicketKeeps ==
    ASSUME TriageInv, NEW t \in Tickets, ResolveTicket(t)
    PROVE  TriageInv'
<1>t. TriageTypeOK /\ AtHandIsQueued /\ QueuesAreApart /\ QueuedIsNew /\ AtHandHasNoJob
      /\ TicketHandledOnce
    BY DEF TriageInv
<1>s. /\ t \in reported /\ resolved' = resolved \cup {t}
      /\ UNCHANGED <<reported, triaged, tradeCalls, dispatchJobs, triageRun, triageFaults,
                     pickedTwice, undispatched>>
    BY DEF ResolveTicket
<1>1. TriageTypeOK'
    BY <1>s, <1>t DEF TriageTypeOK, NoTicket, TriageOff
<1>2. AtHandIsQueued' /\ QueuesAreApart' /\ QueuedIsNew'
    BY <1>s, <1>t DEF AtHandIsQueued, QueuesAreApart, QueuedIsNew, NoTicket
<1>3. AtHandHasNoJob' /\ TicketHandledOnce'
    BY <1>s, <1>t DEF AtHandHasNoJob, TicketHandledOnce
<1> QED BY <1>1, <1>2, <1>3 DEF TriageInv

LEMMA PickTicketsKeeps ==
    ASSUME TriageInv, NEW r \in TriageRuns, PickTickets(r)
    PROVE  TriageInv'
<1>t. TriageTypeOK /\ AtHandIsQueued /\ QueuesAreApart /\ QueuedIsNew /\ AtHandHasNoJob
      /\ TicketHandledOnce
    BY DEF TriageInv
<1> DEFINE new == IF Candidates = {} THEN TriageOff
                  ELSE [queue |-> Candidates, seen |-> resolved, at |-> "write",
                        ticket |-> NoTicket]
<1>s. /\ triageRun[r] = TriageOff
      /\ pickedTwice' = pickedTwice \cup (Candidates \cap Picked)
      /\ UNCHANGED <<reported, resolved, triaged, tradeCalls, dispatchJobs, triageFaults,
                     undispatched>>
    BY DEF PickTickets, ticketVars
<1>d. triageRun \in [TriageRuns -> TriageRunType]
    BY <1>t DEF TriageTypeOK, TriageRunType
<1>1. triageRun' = [triageRun EXCEPT ![r] = new]
    BY <1>s, <1>d DEF PickTickets
<1>2. /\ new \in TriageRunType /\ new.ticket = {} /\ new.at \notin {"call", "open"}
      /\ new.queue \subseteq Candidates
    BY <1>t DEF TriageTypeOK, TriageRunType, TriageOff, NoTicket, Candidates
<1> HIDE DEF new
<1>3. /\ triageRun'[r] = new
      /\ \A q \in TriageRuns \ {r} : triageRun'[q] = triageRun[q]
      /\ triageRun[r].ticket = {} /\ triageRun[r].queue = {}
    BY <1>1, <1>d, <1>s DEF TriageOff, NoTicket
<1>4. TriageTypeOK'
    <2>1. triageRun' \in [TriageRuns -> TriageRunType]
        BY <1>1, <1>2, <1>d
    <2>2. pickedTwice' \subseteq reported
        BY <1>s, <1>t DEF TriageTypeOK, Candidates
    <2> QED BY <2>1, <2>2, <1>s, <1>t DEF TriageTypeOK, TriageRunType, TriageOff, NoTicket
<1>5. AtHandIsQueued'
    BY <1>2, <1>3, <1>t DEF AtHandIsQueued, NoTicket
<1>6. QueuesAreApart'
    <2>1. \A q \in TriageRuns : Candidates \cap triageRun[q].queue \subseteq pickedTwice'
        BY <1>s DEF Picked
    <2>2. \A q \in TriageRuns : new.queue \cap triageRun[q].queue \subseteq pickedTwice'
        BY <2>1, <1>2
    <2> QED BY <2>2, <1>3, <1>s, <1>t DEF QueuesAreApart
<1>7. QueuedIsNew'
    BY <1>2, <1>3, <1>s, <1>t DEF QueuedIsNew, Candidates
<1>8. AtHandHasNoJob'
    BY <1>2, <1>3, <1>s, <1>t DEF AtHandHasNoJob
<1>9. TicketHandledOnce'
    <2>1. \A q \in TriageRuns : triageRun'[q].ticket = triageRun[q].ticket
        BY <1>2, <1>3
    <2> QED BY <2>1, <1>s, <1>t DEF TicketHandledOnce
<1> QED BY <1>4, <1>5, <1>6, <1>7, <1>8, <1>9 DEF TriageInv

LEMMA WriteTriageKeeps ==
    ASSUME TriageInv, NEW r \in TriageRuns, NEW t \in Tickets, NEW dispatch \in BOOLEAN,
           WriteTriage(r, t, dispatch)
    PROVE  TriageInv'
<1>t. TriageTypeOK /\ AtHandIsQueued /\ QueuesAreApart /\ QueuedIsNew /\ AtHandHasNoJob
      /\ TicketHandledOnce
    BY DEF TriageInv
<1> DEFINE new == [triageRun[r] EXCEPT !.ticket = {t},
                                       !.at = IF dispatch THEN "call" ELSE "open"]
<1>s. /\ triageRun[r].at = "write" /\ t \in triageRun[r].queue
      /\ triaged' = triaged \cup {t}
      /\ resolved' \subseteq resolved \cup {t}
      /\ UNCHANGED <<reported, tradeCalls, dispatchJobs, triageFaults, pickedTwice, undispatched>>
    BY DEF WriteTriage
<1>d. triageRun \in [TriageRuns -> TriageRunType]
    BY <1>t DEF TriageTypeOK, TriageRunType
<1>1. triageRun' = [triageRun EXCEPT ![r] = new]
    BY <1>d DEF WriteTriage
<1>2. /\ triageRun[r].ticket = {} /\ triageRun[r].queue \subseteq reported
    BY <1>s, TriageRunHolds
<1>3. triageRun[r] \in [queue: SUBSET reported, seen: SUBSET reported,
                        at: {"write", "call", "open"},
                        ticket: {NoTicket} \cup {{u} : u \in triaged}]
    BY <1>s, <1>d DEF TriageRunType, TriageOff
<1>4. /\ new \in TriageRunType' /\ new.ticket = {t} /\ new.at \in {"call", "open"}
      /\ new.queue = triageRun[r].queue
    BY <1>3, <1>s DEF TriageRunType, NoTicket
<1> HIDE DEF new
<1>5. /\ triageRun'[r] = new
      /\ \A q \in TriageRuns \ {r} : triageRun'[q] = triageRun[q]
    BY <1>1, <1>d
<1>6. TriageTypeOK'
    <2>1. \A q \in TriageRuns : triageRun'[q] \in TriageRunType'
        BY <1>4, <1>5, <1>s, TriageRunStays
    <2>2. triageRun' \in [TriageRuns -> TriageRunType']
        BY <1>1, <1>d, <2>1
    <2>3. resolved' \subseteq reported /\ triaged' \subseteq reported
        BY <1>s, <1>2, <1>t DEF TriageTypeOK
    <2> QED BY <2>2, <2>3, <1>s, <1>t DEF TriageTypeOK, TriageRunType, TriageOff, NoTicket
<1>7. AtHandIsQueued'
    BY <1>4, <1>5, <1>s, <1>t DEF AtHandIsQueued, NoTicket
<1>8. QueuesAreApart'
    BY <1>4, <1>5, <1>s, <1>t DEF QueuesAreApart
<1>9. t \notin pickedTwice =>
        /\ tradeCalls[t] = 0 /\ dispatchJobs[t] = 0
        /\ \A q \in TriageRuns \ {r} : t \notin triageRun[q].queue /\ triageRun[q].ticket # {t}
    <2> SUFFICES ASSUME t \notin pickedTwice
                 PROVE  /\ tradeCalls[t] = 0 /\ dispatchJobs[t] = 0
                        /\ \A q \in TriageRuns \ {r} :
                             t \notin triageRun[q].queue /\ triageRun[q].ticket # {t}
        OBVIOUS
    <2>1. t \notin triaged
        BY <1>s, <1>2, <1>t DEF QueuedIsNew
    <2>2. tradeCalls[t] \in Nat /\ dispatchJobs[t] \in Nat
        BY <1>t DEF TriageTypeOK
    <2>3. ~ (tradeCalls[t] + dispatchJobs[t] > 0)
        BY <2>1, <1>t DEF TriageTypeOK
    <2>4. \A q \in TriageRuns \ {r} : t \notin triageRun[q].queue /\ triageRun[q].ticket # {t}
        BY <1>s, AtHandAlone
    <2> QED BY <2>2, <2>3, <2>4
<1>10. QueuedIsNew'
    <2>1. ASSUME NEW q \in TriageRuns, NEW u \in triageRun[q].queue \ pickedTwice,
                 u \in triaged \cup {t}
          PROVE  triageRun'[q].ticket = {u}
        <3>1. CASE u = t
            BY <3>1, <2>1, <1>9, <1>4, <1>5
        <3>2. CASE u # t
            BY <3>2, <2>1, <1>2, <1>5, <1>t DEF QueuedIsNew
        <3> QED BY <3>1, <3>2
    <2>2. \A q \in TriageRuns : triageRun'[q].queue = triageRun[q].queue
        BY <1>4, <1>5
    <2> QED BY <2>1, <2>2, <1>s DEF QueuedIsNew
<1>11. AtHandHasNoJob'
    <2>1. ASSUME NEW q \in TriageRuns, NEW u \in reported \ pickedTwice,
                 triageRun'[q].ticket = {u}
          PROVE  /\ dispatchJobs[u] = 0
                 /\ tradeCalls[u] <= 1 /\ (triageRun'[q].at = "call" => tradeCalls[u] = 0)
        <3>1. CASE q = r
            BY <3>1, <2>1, <1>9, <1>4, <1>5
        <3>2. CASE q # r
            BY <3>2, <2>1, <1>5, <1>t DEF AtHandHasNoJob
        <3> QED BY <3>1, <3>2
    <2> QED BY <2>1, <1>s DEF AtHandHasNoJob
<1>12. TicketHandledOnce'
    <2>1. ASSUME NEW u \in reported \ pickedTwice
          PROVE  /\ tradeCalls[u] <= 1
                 /\ u \in triaged' /\ (\A q \in TriageRuns : triageRun'[q].ticket # {u}) =>
                      dispatchJobs[u] = 1 \/ (u \in undispatched /\ dispatchJobs[u] = 0)
        <3>1. CASE u = t
            BY <3>1, <2>1, <1>9, <1>4, <1>5
        <3>2. CASE u # t
            <4>1. (\A q \in TriageRuns : triageRun'[q].ticket # {u}) =>
                    (\A q \in TriageRuns : triageRun[q].ticket # {u})
                BY <1>2, <1>5
            <4> QED BY <3>2, <4>1, <1>s, <1>t DEF TicketHandledOnce
        <3> QED BY <3>1, <3>2
    <2> QED BY <2>1, <1>s DEF TicketHandledOnce
<1> QED BY <1>6, <1>7, <1>8, <1>10, <1>11, <1>12 DEF TriageInv

LEMMA CallTradeKeeps ==
    ASSUME TriageInv, NEW r \in TriageRuns, CallTrade(r)
    PROVE  TriageInv'
<1>t. TriageTypeOK /\ AtHandIsQueued /\ QueuesAreApart /\ QueuedIsNew /\ AtHandHasNoJob
      /\ TicketHandledOnce
    BY DEF TriageInv
<1> DEFINE new == [triageRun[r] EXCEPT !.at = "open"]
<1>s. /\ triageRun[r].at = "call"
      /\ UNCHANGED <<reported, resolved, triaged, dispatchJobs, triageFaults, pickedTwice,
                     undispatched>>
    BY DEF CallTrade
<1>d. triageRun \in [TriageRuns -> TriageRunType]
    BY <1>t DEF TriageTypeOK, TriageRunType
<1>1. triageRun' = [triageRun EXCEPT ![r] = new]
    BY <1>d DEF CallTrade
<1>2. PICK t \in triaged \cap triageRun[r].queue : triageRun[r].ticket = {t}
    BY <1>s, TriageRunHolds
<1>3. /\ t \in reported /\ t \in Tickets
      /\ tradeCalls \in [Tickets -> Nat]
    BY <1>2, <1>t DEF TriageTypeOK
<1>c. tradeCalls' = [tradeCalls EXCEPT ![t] = @ + 1]
    BY <1>2, <1>3 DEF CallTrade
<1>4. triageRun[r] \in [queue: SUBSET reported, seen: SUBSET reported,
                        at: {"write", "call", "open"},
                        ticket: {NoTicket} \cup {{u} : u \in triaged}]
    BY <1>s, <1>d DEF TriageRunType, TriageOff
<1>5. /\ new \in TriageRunType /\ new.ticket = {t} /\ new.at = "open"
      /\ new.queue = triageRun[r].queue
    BY <1>4, <1>2 DEF TriageRunType
<1> HIDE DEF new
<1>6. /\ triageRun'[r] = new
      /\ \A q \in TriageRuns \ {r} : triageRun'[q] = triageRun[q]
      /\ \A q \in TriageRuns : /\ triageRun'[q].ticket = triageRun[q].ticket
                               /\ triageRun'[q].queue = triageRun[q].queue
    BY <1>1, <1>d, <1>2, <1>5
<1>7. TriageTypeOK'
    <2>1. triageRun' \in [TriageRuns -> TriageRunType]
        BY <1>1, <1>5, <1>d
    <2>2. tradeCalls' \in [Tickets -> Nat]
          /\ \A u \in Tickets : u # t => tradeCalls'[u] = tradeCalls[u]
        BY <1>c, <1>3
    <2>3. \A u \in Tickets : tradeCalls'[u] + dispatchJobs'[u] > 0 => u \in triaged'
        BY <2>2, <1>2, <1>s, <1>t DEF TriageTypeOK
    <2> QED BY <2>1, <2>2, <2>3, <1>s, <1>t DEF TriageTypeOK, TriageRunType, TriageOff, NoTicket
<1>8. AtHandIsQueued'
    BY <1>5, <1>6, <1>2, <1>s, <1>t DEF AtHandIsQueued, NoTicket
<1>9. QueuesAreApart' /\ QueuedIsNew'
    BY <1>6, <1>s, <1>t DEF QueuesAreApart, QueuedIsNew
<1>10. t \notin pickedTwice =>
        /\ tradeCalls'[t] = 1 /\ dispatchJobs[t] = 0
        /\ \A q \in TriageRuns \ {r} : triageRun[q].ticket # {t}
    <2>1. t \notin pickedTwice => tradeCalls[t] = 0 /\ dispatchJobs[t] = 0
        BY <1>2, <1>3, <1>s, <1>t DEF AtHandHasNoJob
    <2>2. t \notin pickedTwice => \A q \in TriageRuns \ {r} : triageRun[q].ticket # {t}
        BY <1>2, AtHandAlone
    <2> QED BY <2>1, <2>2, <1>c, <1>3
<1>11. \A u \in reported : u # t => tradeCalls'[u] = tradeCalls[u]
    BY <1>c, <1>3, <1>t DEF TriageTypeOK
<1>12. AtHandHasNoJob'
    <2>1. ASSUME NEW q \in TriageRuns, NEW u \in reported \ pickedTwice,
                 triageRun[q].ticket = {u}
          PROVE  /\ dispatchJobs[u] = 0
                 /\ tradeCalls'[u] <= 1 /\ (triageRun'[q].at = "call" => tradeCalls'[u] = 0)
        <3>1. CASE q = r
            BY <3>1, <2>1, <1>2, <1>5, <1>6, <1>10
        <3>2. CASE q # r
            BY <3>2, <2>1, <1>6, <1>10, <1>11, <1>t DEF AtHandHasNoJob
        <3> QED BY <3>1, <3>2
    <2> QED BY <2>1, <1>6, <1>s DEF AtHandHasNoJob
<1>13. TicketHandledOnce'
    <2>1. \A u \in reported \ pickedTwice : tradeCalls'[u] <= 1
        BY <1>10, <1>11, <1>t DEF TicketHandledOnce
    <2> QED BY <2>1, <1>6, <1>s, <1>t DEF TicketHandledOnce
<1> QED BY <1>7, <1>8, <1>9, <1>12, <1>13 DEF TriageInv

LEMMA OpenJobKeeps ==
    ASSUME TriageInv, NEW r \in TriageRuns, OpenJob(r)
    PROVE  TriageInv'
<1>t. TriageTypeOK /\ AtHandIsQueued /\ QueuesAreApart /\ QueuedIsNew /\ AtHandHasNoJob
      /\ TicketHandledOnce
    BY DEF TriageInv
<1> DEFINE rest == triageRun[r].queue \ triageRun[r].ticket
<1> DEFINE new == IF rest = {} THEN TriageOff
                  ELSE [triageRun[r] EXCEPT !.queue = rest, !.at = "write", !.ticket = NoTicket]
<1>s. /\ triageRun[r].at = "open"
      /\ UNCHANGED <<reported, resolved, triaged, tradeCalls, triageFaults, pickedTwice,
                     undispatched>>
    BY DEF OpenJob
<1>d. triageRun \in [TriageRuns -> TriageRunType]
    BY <1>t DEF TriageTypeOK, TriageRunType
<1>1. triageRun' = [triageRun EXCEPT ![r] = new]
    BY <1>d DEF OpenJob
<1>2. PICK t \in triaged \cap triageRun[r].queue : triageRun[r].ticket = {t}
    BY <1>s, TriageRunHolds
<1>3. /\ t \in reported /\ t \in Tickets
      /\ dispatchJobs \in [Tickets -> Nat]
    BY <1>2, <1>t DEF TriageTypeOK
<1>c. dispatchJobs' = [dispatchJobs EXCEPT ![t] = @ + 1]
    BY <1>2, <1>3 DEF OpenJob
<1>4. triageRun[r] \in [queue: SUBSET reported, seen: SUBSET reported,
                        at: {"write", "call", "open"},
                        ticket: {NoTicket} \cup {{u} : u \in triaged}]
    BY <1>s, <1>d DEF TriageRunType, TriageOff
<1>5. /\ new \in TriageRunType /\ new.ticket = {} /\ new.at \notin {"call", "open"}
      /\ new.queue = triageRun[r].queue \ {t}
    <2>1. CASE rest = {}
        BY <2>1, <1>2 DEF TriageRunType, TriageOff, NoTicket
    <2>2. CASE rest # {}
        BY <2>2, <1>4, <1>2 DEF TriageRunType, TriageOff, NoTicket
    <2> QED BY <2>1, <2>2
<1> HIDE DEF new
<1>6. /\ triageRun'[r] = new
      /\ \A q \in TriageRuns \ {r} : triageRun'[q] = triageRun[q]
    BY <1>1, <1>d
<1>7. TriageTypeOK'
    <2>1. triageRun' \in [TriageRuns -> TriageRunType]
        BY <1>1, <1>5, <1>d
    <2>2. dispatchJobs' \in [Tickets -> Nat]
          /\ \A u \in Tickets : u # t => dispatchJobs'[u] = dispatchJobs[u]
        BY <1>c, <1>3
    <2>3. \A u \in Tickets : tradeCalls'[u] + dispatchJobs'[u] > 0 => u \in triaged'
        BY <2>2, <1>2, <1>s, <1>t DEF TriageTypeOK
    <2> QED BY <2>1, <2>2, <2>3, <1>s, <1>t DEF TriageTypeOK, TriageRunType, TriageOff, NoTicket
<1>8. AtHandIsQueued'
    BY <1>5, <1>6, <1>s, <1>t DEF AtHandIsQueued, NoTicket
<1>9. QueuesAreApart'
    BY <1>5, <1>6, <1>s, <1>t DEF QueuesAreApart
<1>10. QueuedIsNew'
    <2>1. \A u \in new.queue \ pickedTwice : u \notin triaged
        BY <1>5, <1>2, <1>t DEF QueuedIsNew
    <2> QED BY <2>1, <1>5, <1>6, <1>s, <1>t DEF QueuedIsNew
<1>11. t \notin pickedTwice =>
        /\ dispatchJobs'[t] = 1
        /\ \A q \in TriageRuns \ {r} : triageRun[q].ticket # {t}
    <2>1. t \notin pickedTwice => dispatchJobs[t] = 0
        BY <1>2, <1>3, <1>t DEF AtHandHasNoJob
    <2>2. t \notin pickedTwice => \A q \in TriageRuns \ {r} : triageRun[q].ticket # {t}
        BY <1>2, AtHandAlone
    <2> QED BY <2>1, <2>2, <1>c, <1>3
<1>12. \A u \in reported : u # t => dispatchJobs'[u] = dispatchJobs[u]
    BY <1>c, <1>3, <1>t DEF TriageTypeOK
<1>13. AtHandHasNoJob'
    <2>1. ASSUME NEW q \in TriageRuns, NEW u \in reported \ pickedTwice,
                 triageRun'[q].ticket = {u}
          PROVE  q # r /\ u # t /\ triageRun[q].ticket = {u}
        BY <2>1, <1>5, <1>6, <1>11
    <2> QED BY <2>1, <1>6, <1>12, <1>s, <1>t DEF AtHandHasNoJob
<1>14. TicketHandledOnce'
    <2>1. ASSUME NEW u \in reported \ pickedTwice, u \in triaged, u # t,
                 \A q \in TriageRuns : triageRun'[q].ticket # {u}
          PROVE  \A q \in TriageRuns : triageRun[q].ticket # {u}
        BY <2>1, <1>2, <1>6
    <2>2. ASSUME NEW u \in reported \ pickedTwice, u \in triaged,
                 \A q \in TriageRuns : triageRun'[q].ticket # {u}
          PROVE  dispatchJobs'[u] = 1 \/ (u \in undispatched /\ dispatchJobs'[u] = 0)
        <3>1. CASE u = t
            BY <3>1, <2>2, <1>11
        <3>2. CASE u # t
            BY <3>2, <2>1, <2>2, <1>12, <1>t DEF TicketHandledOnce
        <3> QED BY <3>1, <3>2
    <2> QED BY <2>2, <1>s, <1>t DEF TicketHandledOnce
<1> QED BY <1>7, <1>8, <1>9, <1>10, <1>13, <1>14 DEF TriageInv

LEMMA TriageEndsKeeps ==
    ASSUME TriageInv, NEW r \in TriageRuns, TriageEnds(r)
    PROVE  TriageInv'
<1>t. TriageTypeOK /\ AtHandIsQueued /\ QueuesAreApart /\ QueuedIsNew /\ AtHandHasNoJob
      /\ TicketHandledOnce
    BY DEF TriageInv
<1>s. /\ triageFaults < MaxTriageFaults /\ triageFaults' = triageFaults + 1
      /\ undispatched' = undispatched \cup triageRun[r].ticket
      /\ triageRun' = [triageRun EXCEPT ![r] = TriageOff]
      /\ UNCHANGED <<reported, resolved, triaged, tradeCalls, dispatchJobs, pickedTwice>>
    BY DEF TriageEnds, ticketVars
<1>d. triageRun \in [TriageRuns -> TriageRunType]
    BY <1>t DEF TriageTypeOK, TriageRunType
<1>1. /\ triageRun'[r] = TriageOff
      /\ \A q \in TriageRuns \ {r} : triageRun'[q] = triageRun[q]
      /\ TriageOff.queue = {} /\ TriageOff.ticket = {} /\ TriageOff.at = "off"
      /\ TriageOff \in TriageRunType
    BY <1>s, <1>d DEF TriageRunType, TriageOff, NoTicket
<1>2. triageRun[r].ticket = {} \/ \E t \in triaged : triageRun[r].ticket = {t}
    BY TriageRunHolds
<1>3. TriageTypeOK'
    <2>1. triageRun' \in [TriageRuns -> TriageRunType]
        BY <1>1, <1>s, <1>d
    <2>2. undispatched' \subseteq triaged /\ triageFaults' \in 0..MaxTriageFaults
        BY <1>2, <1>s, <1>t, TriageAssumption DEF TriageTypeOK
    <2> QED BY <2>1, <2>2, <1>s, <1>t DEF TriageTypeOK, TriageRunType, TriageOff, NoTicket
<1>4. AtHandIsQueued' /\ QueuesAreApart' /\ QueuedIsNew' /\ AtHandHasNoJob'
    <2>1. AtHandIsQueued'
        BY <1>1, <1>s, <1>t DEF AtHandIsQueued, NoTicket
    <2>2. QueuesAreApart' /\ QueuedIsNew'
        BY <1>1, <1>s, <1>t DEF QueuesAreApart, QueuedIsNew
    <2>3. AtHandHasNoJob'
        BY <1>1, <1>s, <1>t DEF AtHandHasNoJob
    <2> QED BY <2>1, <2>2, <2>3
<1>5. TicketHandledOnce'
    <2>1. ASSUME NEW u \in reported \ pickedTwice, u \in triaged,
                 \A q \in TriageRuns : triageRun'[q].ticket # {u}
          PROVE  dispatchJobs[u] = 1 \/ (u \in undispatched' /\ dispatchJobs[u] = 0)
        <3>1. CASE triageRun[r].ticket = {u}
            BY <3>1, <1>s, <1>t DEF AtHandHasNoJob
        <3>2. CASE triageRun[r].ticket # {u}
            <4>1. \A q \in TriageRuns : triageRun[q].ticket # {u}
                BY <3>2, <2>1, <1>1
            <4> QED BY <4>1, <2>1, <1>s, <1>t DEF TicketHandledOnce
        <3> QED BY <3>1, <3>2
    <2> QED BY <2>1, <1>s, <1>t DEF TicketHandledOnce
<1> QED BY <1>3, <1>4, <1>5 DEF TriageInv

LEMMA TriageInvNext == TriageInv /\ [TriageNext]_triageVars => TriageInv'
<1> SUFFICES ASSUME TriageInv, [TriageNext]_triageVars PROVE TriageInv'
    OBVIOUS
<1>1. CASE UNCHANGED triageVars
    BY <1>1 DEF triageVars, ticketVars, TriageInv, TriageTypeOK, AtHandIsQueued,
                QueuesAreApart, QueuedIsNew, AtHandHasNoJob, TicketHandledOnce, TriageOff, NoTicket
<1>2. ASSUME NEW t \in Tickets, ReportTicket(t) \/ ResolveTicket(t) PROVE TriageInv'
    BY <1>2, ReportTicketKeeps, ResolveTicketKeeps
<1>3. ASSUME NEW r \in TriageRuns, TriageStep(r) \/ TriageEnds(r) PROVE TriageInv'
    BY <1>3, PickTicketsKeeps, WriteTriageKeeps, CallTradeKeeps, OpenJobKeeps, TriageEndsKeeps
       DEF TriageStep
<1> QED BY <1>1, <1>2, <1>3 DEF TriageNext

(* Rows and runs of the triage agent hold what the code may write. *)
THEOREM TriageTypeCorrect == TriageSpec => []TriageTypeOK
<1>1. TriageInv => TriageTypeOK
    BY DEF TriageInv
<1> QED BY <1>1, TriageInvInit, TriageInvNext, PTL DEF TriageSpec

(* However runs overlap and end half way, and however many there are, a     *)
(* ticket that two runs had not picked at once has one job, and its trade   *)
(* is called at most once.                                                  *)
THEOREM TicketsHandledOnce == TriageSpec => []TicketHandledOnce
<1>1. TriageInv => TicketHandledOnce
    BY DEF TriageInv
<1> QED BY <1>1, TriageInvInit, TriageInvNext, PTL DEF TriageSpec

-----------------------------------------------------------------------------
(* Insurance renewals: a cycle is quoted and decided once.                  *)
-----------------------------------------------------------------------------
RenewalRunType ==
    {Off, [at |-> "none_found", cycle |-> NoCycle]} \cup [at: {"quoting", "quoted"}, cycle: Opened]
\* Cycles are opened one after the other.
OpenedInOrder == \E n \in 0..MaxCycles : Opened = 1..n
\* One run is at a cycle, and it was only detected; one request, and it is at the card.
OneRunAtACycle ==
    \A r \in RenewalRuns : renewalRun[r].cycle \in Opened \ sharedCycles =>
        /\ cycleStatus[renewalRun[r].cycle] = "detected"
        /\ \A q \in RenewalRuns \ {r} : renewalRun[q].cycle # renewalRun[r].cycle
OneRequestAtACycle ==
    \A p \in Underwriters : underwriter[p] \in Opened \ sharedCycles =>
        /\ cycleStatus[underwriter[p]] = "awaiting_decision"
        /\ \A q \in Underwriters \ {p} : underwriter[q] # underwriter[p]
\* Quotes are lost to a fault, or are those of the run that has just gathered them,
\* or the cycle is at the card.
QuotesCounted ==
    \A c \in CycleIds \ sharedCycles :
        /\ quoteRounds[c] <= 1 + renewalFaults
        /\ \/ quoteRounds[c] <= renewalFaults
           \/ cycleStatus[c] \in {"awaiting_decision", "decided"}
           \/ \E r \in RenewalRuns : renewalRun[r] = [at |-> "quoted", cycle |-> c]
DecisionsCounted ==
    \A c \in CycleIds \ sharedCycles :
        cycleDecisions[c] = IF cycleStatus[c] = "decided" THEN 1 ELSE 0

\* What is at the card, or about to be, was quoted.
QuotedFirst ==
    /\ \A c \in CycleIds : cycleStatus[c] \in {"awaiting_decision", "decided"} => quoteRounds[c] > 0
    /\ \A r \in RenewalRuns : renewalRun[r].at = "quoted" => quoteRounds[renewalRun[r].cycle] > 0
    /\ \A p \in Underwriters : underwriter[p] # NoCycle => quoteRounds[underwriter[p]] > 0

RenewalInv ==
    /\ RenewalTypeOK /\ OpenedInOrder /\ OneRunAtACycle /\ OneRequestAtACycle
    /\ QuotesCounted /\ DecisionsCounted /\ QuotedFirst

\* A nonempty set of numbers has a least one.
LEMMA LeastOf ==
    ASSUME NEW S \in SUBSET Nat, S # {}
    PROVE  \E m \in S : \A n \in S : m <= n
<1>1. PICK m \in S : \A n \in S : ~ (<<n, m>> \in OpToRel(<, Nat))
    BY NatLessThanWellFounded, WFMin
<1>2. \A n \in S : ~ (n < m)
    BY <1>1 DEF OpToRel
<1> QED BY <1>2

LEMMA LatestIsUnfinished ==
    ASSUME Unfinished # {}
    PROVE  Latest \in Unfinished
<1> DEFINE back == {MaxCycles - c : c \in Unfinished}
<1>1. Unfinished \subseteq 1..MaxCycles
    BY DEF Unfinished, Opened, CycleIds
<1>2. back \in SUBSET Nat /\ back # {}
    <2>1. \A c \in Unfinished : MaxCycles - c \in Nat
        BY <1>1, RenewalAssumption
    <2> QED BY <2>1
<1>3. PICK m \in back : \A n \in back : m <= n
    BY <1>2, LeastOf
<1>4. PICK c \in Unfinished : m = MaxCycles - c
    BY <1>3
<1>5. \A d \in Unfinished : d <= c
    <2> TAKE d \in Unfinished
    <2>1. MaxCycles - c <= MaxCycles - d
        BY <1>3, <1>4
    <2> QED BY <2>1, <1>1, RenewalAssumption
<1> QED BY <1>5 DEF Latest

LEMMA RenewalRunHolds ==
    ASSUME RenewalInv, NEW r \in RenewalRuns
    PROVE  /\ renewalRun[r] \in RenewalRunType
           /\ renewalRun[r].at \in {"off", "none_found", "quoting", "quoted"}
           /\ renewalRun[r].at = "off" => renewalRun[r] = Off
           /\ renewalRun[r].at = "none_found" => renewalRun[r].cycle = NoCycle
           /\ renewalRun[r].at \in {"quoting", "quoted"} =>
                renewalRun[r].cycle \in Opened /\ renewalRun[r].cycle \in CycleIds
           /\ renewalRun[r].cycle \in Opened \cup {NoCycle}
<1>1. renewalRun[r] \in RenewalRunType
    BY DEF RenewalInv, RenewalTypeOK, RenewalRunType
<1>2. CASE renewalRun[r] = Off
    BY <1>1, <1>2 DEF Off
<1>3. CASE renewalRun[r] = [at |-> "none_found", cycle |-> NoCycle]
    BY <1>1, <1>3
<1>4. CASE renewalRun[r] \in [at: {"quoting", "quoted"}, cycle: Opened]
    BY <1>1, <1>4 DEF Opened
<1> QED BY <1>1, <1>2, <1>3, <1>4 DEF RenewalRunType

LEMMA NoCycleIsNone == NoCycle \notin CycleIds
BY RenewalAssumption DEF NoCycle, CycleIds

LEMMA RenewalInvInit == RenewalInit => RenewalInv
<1> SUFFICES ASSUME RenewalInit PROVE RenewalInv
    OBVIOUS
<1>1. Opened = {} /\ 0 \notin CycleIds
    BY NoCycleIsNone DEF RenewalInit, Opened, NoCycle
<1>2. RenewalTypeOK
    <2>1. renewalFaults \in 0..MaxRenewalFaults
        BY RenewalAssumption DEF RenewalInit
    <2>2. \A c \in CycleIds : cycleDecisions[c] = 0
        BY DEF RenewalInit
    <2>3. /\ cycleStatus \in [CycleIds -> {"none", "detected", "awaiting_decision", "decided"}]
          /\ quoteRounds \in [CycleIds -> Nat] /\ cycleDecisions \in [CycleIds -> Nat]
        BY DEF RenewalInit
    <2>4. /\ renewalRun \in [RenewalRuns -> RenewalRunType]
          /\ underwriter \in [Underwriters -> {NoCycle} \cup Opened]
        BY DEF RenewalInit, RenewalRunType
    <2> QED BY <2>1, <2>2, <2>3, <2>4 DEF RenewalInit, RenewalTypeOK, RenewalRunType
<1>3. OpenedInOrder
    <2>1. 1..0 = {} /\ 0 \in 0..MaxCycles
        BY RenewalAssumption
    <2> QED BY <1>1, <2>1 DEF OpenedInOrder
<1>4. OneRunAtACycle /\ OneRequestAtACycle
    BY <1>1 DEF OneRunAtACycle, OneRequestAtACycle
<1>5. QuotesCounted /\ DecisionsCounted
    BY DEF RenewalInit, QuotesCounted, DecisionsCounted
<1>6. QuotedFirst
    BY DEF RenewalInit, QuotedFirst, Off
<1> QED BY <1>2, <1>3, <1>4, <1>5, <1>6 DEF RenewalInv

LEMMA LeadTimeBeginsKeeps ==
    ASSUME RenewalInv, LeadTimeBegins
    PROVE  RenewalInv'
BY DEF RenewalInv, LeadTimeBegins, RenewalTypeOK, OpenedInOrder, OneRunAtACycle,
       OneRequestAtACycle, QuotesCounted, DecisionsCounted, QuotedFirst, Opened, Off, NoCycle

LEMMA FindCycleKeeps ==
    ASSUME RenewalInv, NEW r \in RenewalRuns, FindCycle(r)
    PROVE  RenewalInv'
<1>t. RenewalTypeOK /\ OpenedInOrder /\ OneRunAtACycle /\ OneRequestAtACycle
      /\ QuotesCounted /\ DecisionsCounted /\ QuotedFirst
    BY DEF RenewalInv
<1>s. /\ renewalRun[r] = Off
      /\ sharedCycles' = sharedCycles \cup
            {c \in Unfinished : c = Latest /\ \E q \in RenewalRuns : renewalRun[q].cycle = c}
      /\ UNCHANGED <<inLead, cycleStatus, quoteRounds, cycleDecisions, underwriter, renewalFaults>>
    BY DEF FindCycle
<1>d. renewalRun \in [RenewalRuns -> RenewalRunType]
    BY <1>t DEF RenewalTypeOK, RenewalRunType
<1>o. Opened' = Opened
    BY <1>s DEF Opened
<1>1. PICK new : /\ renewalRun' = [renewalRun EXCEPT ![r] = new]
                 /\ \/ new = Off \/ new = [at |-> "none_found", cycle |-> NoCycle]
                    \/ /\ Unfinished # {} /\ ~ QuotedAlready(Latest)
                       /\ new = [at |-> "quoting", cycle |-> Latest]
    <2>1. CASE Unfinished = {}
        <3>1. renewalRun' = [renewalRun EXCEPT ![r] = [at |-> "none_found", cycle |-> NoCycle]]
            BY <2>1, <1>s, <1>d DEF FindCycle, Off
        <3> QED BY <3>1
    <2>2. CASE Unfinished # {} /\ QuotedAlready(Latest)
        <3>1. renewalRun' = [renewalRun EXCEPT ![r] = Off]
            BY <2>2, <1>s, <1>d DEF FindCycle
        <3> QED BY <3>1
    <2>3. CASE Unfinished # {} /\ ~ QuotedAlready(Latest)
        BY <2>3 DEF FindCycle
    <2> QED BY <2>1, <2>2, <2>3
<1>2. /\ new \in RenewalRunType /\ new.at # "quoted"
      /\ \/ new.cycle = NoCycle
         \/ /\ new.cycle = Latest /\ Latest \in Unfinished /\ Latest \in Opened
            /\ cycleStatus[Latest] = "detected"
    <2>1. CASE Unfinished # {} /\ ~ QuotedAlready(Latest)
               /\ new = [at |-> "quoting", cycle |-> Latest]
        <3>1. Latest \in Unfinished
            BY <2>1, LatestIsUnfinished
        <3>2. Latest \in Opened /\ cycleStatus[Latest] = "detected"
            BY <3>1, <2>1, <1>t DEF Unfinished, Opened, Finished, QuotedAlready, RenewalTypeOK
        <3> QED BY <3>1, <3>2, <2>1 DEF RenewalRunType
    <2>2. CASE new = Off \/ new = [at |-> "none_found", cycle |-> NoCycle]
        BY <2>2 DEF RenewalRunType, Off
    <2> QED BY <1>1, <2>1, <2>2
<1>3. /\ renewalRun'[r] = new
      /\ \A q \in RenewalRuns \ {r} : renewalRun'[q] = renewalRun[q]
    BY <1>1, <1>d
<1>4. RenewalTypeOK'
    <2>1. renewalRun' \in [RenewalRuns -> RenewalRunType]
        BY <1>1, <1>2, <1>d
    <2>2. sharedCycles' \subseteq Opened
        BY <1>s, <1>t DEF RenewalTypeOK, Unfinished
    <2> QED BY <2>1, <2>2, <1>o, <1>s, <1>t DEF RenewalTypeOK, RenewalRunType, Off, NoCycle
<1>5. OneRunAtACycle'
    <2>1. Latest \in Unfinished \ sharedCycles' =>
            \A q \in RenewalRuns : renewalRun[q].cycle # Latest
        BY <1>s
    <2>2. ASSUME NEW q \in RenewalRuns, renewalRun'[q].cycle \in Opened \ sharedCycles'
          PROVE  /\ cycleStatus[renewalRun'[q].cycle] = "detected"
                 /\ \A p \in RenewalRuns \ {q} : renewalRun'[p].cycle # renewalRun'[q].cycle
        <3>0. NoCycle \notin Opened
            BY NoCycleIsNone DEF Opened
        <3>1. CASE q = r
            BY <3>0, <3>1, <2>1, <2>2, <1>2, <1>3
        <3>2. CASE q # r
            <4>1. renewalRun[q].cycle \in Opened \ sharedCycles
                BY <3>2, <2>2, <1>3, <1>s
            <4>2. renewalRun'[r].cycle # renewalRun[q].cycle
                BY <3>0, <4>1, <2>1, <2>2, <1>2, <1>3, <3>2
            <4> QED BY <3>2, <4>1, <4>2, <1>3, <1>t DEF OneRunAtACycle
        <3> QED BY <3>1, <3>2
    <2> QED BY <2>2, <1>o, <1>s DEF OneRunAtACycle
<1>6. OneRequestAtACycle'
    BY <1>o, <1>s, <1>t DEF OneRequestAtACycle
<1>7. QuotesCounted'
    <2>1. \A c \in CycleIds : (\E q \in RenewalRuns : renewalRun[q] = [at |-> "quoted", cycle |-> c])
            => (\E q \in RenewalRuns : renewalRun'[q] = [at |-> "quoted", cycle |-> c])
        BY <1>3, <1>s DEF Off
    <2> QED BY <2>1, <1>s, <1>t DEF QuotesCounted
<1>8. DecisionsCounted' /\ OpenedInOrder'
    BY <1>o, <1>s, <1>t DEF DecisionsCounted, OpenedInOrder
<1>9. QuotedFirst'
    BY <1>2, <1>3, <1>s, <1>t DEF QuotedFirst
<1> QED BY <1>4, <1>5, <1>6, <1>7, <1>8, <1>9 DEF RenewalInv

LEMMA CreateCycleKeeps ==
    ASSUME RenewalInv, NEW r \in RenewalRuns, CreateCycle(r)
    PROVE  RenewalInv'
<1>t. RenewalTypeOK /\ OpenedInOrder /\ OneRunAtACycle /\ OneRequestAtACycle
      /\ QuotesCounted /\ DecisionsCounted /\ QuotedFirst
    BY DEF RenewalInv
<1>s. /\ renewalRun[r].at = "none_found" /\ renewalRun[r].cycle = NoCycle
      /\ UNCHANGED <<inLead, quoteRounds, cycleDecisions, underwriter, renewalFaults,
                     sharedCycles>>
    BY RenewalRunHolds DEF CreateCycle
<1>d. renewalRun \in [RenewalRuns -> RenewalRunType]
    BY <1>t DEF RenewalTypeOK, RenewalRunType
<1>n. NoCycle \notin Opened
    BY NoCycleIsNone DEF Opened
<1>1. CASE Opened = CycleIds
    <2>1. /\ renewalRun' = [renewalRun EXCEPT ![r] = Off] /\ cycleStatus' = cycleStatus
          /\ Opened' = Opened
        BY <1>1 DEF CreateCycle, Opened
    <2>2. /\ renewalRun'[r] = Off /\ Off.cycle = NoCycle /\ Off.at = "off"
          /\ Off \in RenewalRunType
          /\ \A q \in RenewalRuns \ {r} : renewalRun'[q] = renewalRun[q]
        BY <2>1, <1>d DEF Off, RenewalRunType
    <2>3. renewalRun' \in [RenewalRuns -> RenewalRunType]
        BY <2>1, <2>2, <1>d
    <2>4. RenewalTypeOK'
        BY <2>1, <2>3, <1>s, <1>t DEF RenewalTypeOK, RenewalRunType, Off, NoCycle
    <2>5. OneRunAtACycle'
        BY <2>1, <2>2, <1>n, <1>s, <1>t DEF OneRunAtACycle
    <2>6. OneRequestAtACycle' /\ DecisionsCounted' /\ OpenedInOrder'
        BY <2>1, <1>s, <1>t DEF OneRequestAtACycle, DecisionsCounted, OpenedInOrder
    <2>7. QuotesCounted'
        BY <2>1, <2>2, <1>s, <1>t DEF QuotesCounted
    <2>8. QuotedFirst'
        BY <2>1, <2>2, <1>s, <1>t DEF QuotedFirst
    <2> QED BY <2>4, <2>5, <2>6, <2>7, <2>8 DEF RenewalInv
<1>2. CASE Opened # CycleIds
    <2>1. PICK n \in 0..MaxCycles : Opened = 1..n
        BY <1>t DEF OpenedInOrder
    <2>2. n \in Nat /\ n # MaxCycles /\ n + 1 \in 1..MaxCycles
        BY <2>1, <1>2, RenewalAssumption DEF CycleIds
    <2>3. Cardinality(Opened) = n
        BY <2>1, <2>2, FS_Interval
    <2> DEFINE c == n + 1
    <2>4. /\ c \in CycleIds /\ c \notin Opened /\ c # NoCycle
          /\ cycleStatus[c] = "none"
        BY <2>1, <2>2 DEF CycleIds, NoCycle, Opened
    <2>5. /\ cycleStatus' = [cycleStatus EXCEPT ![c] = "detected"]
          /\ renewalRun' = [renewalRun EXCEPT ![r] = [at |-> "quoting", cycle |-> c]]
        BY <1>2, <2>3 DEF CreateCycle
    <2> HIDE DEF c
    <2>6. /\ cycleStatus'[c] = "detected"
          /\ \A d \in CycleIds \ {c} : cycleStatus'[d] = cycleStatus[d]
          /\ renewalRun'[r] = [at |-> "quoting", cycle |-> c]
          /\ \A q \in RenewalRuns \ {r} : renewalRun'[q] = renewalRun[q]
        BY <2>4, <2>5, <1>d, <1>t DEF RenewalTypeOK
    <2>7. Opened' = Opened \cup {c}
        BY <2>4, <2>6 DEF Opened
    <2>8. OpenedInOrder'
        <3>1. Opened \cup {c} = 1..(n + 1) /\ n + 1 \in 0..MaxCycles
            BY <2>1, <2>2 DEF c
        <3> QED BY <3>1, <2>7 DEF OpenedInOrder
    <2>9. RenewalTypeOK'
        <3>1. \A q \in RenewalRuns : renewalRun'[q] \in RenewalRunType'
            BY <2>6, <2>7, <1>d DEF RenewalRunType, Off, NoCycle
        <3>2. renewalRun' \in [RenewalRuns -> RenewalRunType']
            BY <3>1, <2>5, <1>d
        <3>3. cycleStatus' \in [CycleIds -> {"none", "detected", "awaiting_decision", "decided"}]
            BY <2>5, <2>4, <1>t DEF RenewalTypeOK
        <3> QED BY <3>2, <3>3, <2>7, <1>s, <1>t DEF RenewalTypeOK, RenewalRunType, Off, NoCycle
    <2>10. OneRunAtACycle'
        <3>1. \A q \in RenewalRuns : renewalRun[q].cycle # c
            BY <2>4, RenewalRunHolds
        <3>2. ASSUME NEW q \in RenewalRuns, renewalRun'[q].cycle \in (Opened \cup {c}) \ sharedCycles
              PROVE  /\ cycleStatus'[renewalRun'[q].cycle] = "detected"
                     /\ \A p \in RenewalRuns \ {q} : renewalRun'[p].cycle # renewalRun'[q].cycle
            <4>1. CASE q = r
                BY <4>1, <3>1, <2>6
            <4>2. CASE q # r
                <5>1. renewalRun[q].cycle \in Opened \ sharedCycles
                    BY <4>2, <3>1, <3>2, <2>6
                <5>2. renewalRun[q].cycle \in CycleIds \ {c}
                    BY <5>1, <3>1 DEF Opened
                <5> QED BY <4>2, <5>1, <5>2, <3>1, <2>6, <1>t DEF OneRunAtACycle
            <4> QED BY <4>1, <4>2
        <3> QED BY <3>2, <2>7, <1>s DEF OneRunAtACycle
    <2>11. OneRequestAtACycle'
        <3>1. \A p \in Underwriters : underwriter[p] # c
            BY <2>4, <1>t DEF RenewalTypeOK
        <3>2. \A d \in Opened : d # c /\ cycleStatus'[d] = cycleStatus[d]
            BY <2>4, <2>6 DEF Opened
        <3> QED BY <3>1, <3>2, <2>7, <1>s, <1>t DEF OneRequestAtACycle
    <2>12. QuotesCounted'
        <3>1. ASSUME NEW d \in CycleIds \ sharedCycles
              PROVE  /\ quoteRounds[d] <= 1 + renewalFaults
                     /\ \/ quoteRounds[d] <= renewalFaults
                        \/ cycleStatus'[d] \in {"awaiting_decision", "decided"}
                        \/ \E q \in RenewalRuns : renewalRun'[q] = [at |-> "quoted", cycle |-> d]
            <4>1. CASE d = c
                BY <4>1, <2>4, <2>6, <1>s, <1>t DEF QuotesCounted
            <4>2. CASE d # c
                BY <4>2, <2>6, <1>s, <1>t DEF QuotesCounted
            <4> QED BY <4>1, <4>2
        <3> QED BY <3>1, <1>s DEF QuotesCounted
    <2>13. DecisionsCounted'
        BY <2>4, <2>6, <1>s, <1>t DEF DecisionsCounted
    <2>14. QuotedFirst'
        BY <2>6, <1>s, <1>t DEF QuotedFirst
    <2> QED BY <2>8, <2>9, <2>10, <2>11, <2>12, <2>13, <2>14 DEF RenewalInv
<1> QED BY <1>1, <1>2

LEMMA GatherQuotesKeeps ==
    ASSUME RenewalInv, NEW r \in RenewalRuns, GatherQuotes(r)
    PROVE  RenewalInv'
<1>t. RenewalTypeOK /\ OpenedInOrder /\ OneRunAtACycle /\ OneRequestAtACycle
      /\ QuotesCounted /\ DecisionsCounted /\ QuotedFirst
    BY DEF RenewalInv
<1>s. /\ renewalRun[r].at = "quoting"
      /\ UNCHANGED <<inLead, cycleStatus, cycleDecisions, underwriter, renewalFaults,
                     sharedCycles>>
    BY DEF GatherQuotes
<1>d. renewalRun \in [RenewalRuns -> RenewalRunType]
    BY <1>t DEF RenewalTypeOK, RenewalRunType
<1>o. Opened' = Opened
    BY <1>s DEF Opened
<1>1. PICK c \in Opened : renewalRun[r] = [at |-> "quoting", cycle |-> c]
    BY <1>s, <1>d DEF RenewalRunType, Off
<1>2. c \in CycleIds /\ quoteRounds \in [CycleIds -> Nat] /\ renewalFaults \in Nat
    BY <1>1, <1>t DEF Opened, RenewalTypeOK
<1>3. /\ quoteRounds' = [quoteRounds EXCEPT ![c] = @ + 1]
      /\ renewalRun' = [renewalRun EXCEPT ![r] = [at |-> "quoted", cycle |-> c]]
    <2>1. [renewalRun[r] EXCEPT !.at = "quoted"] = [at |-> "quoted", cycle |-> c]
        BY <1>1
    <2>2. renewalRun' = [renewalRun EXCEPT ![r] = [renewalRun[r] EXCEPT !.at = "quoted"]]
        BY <1>d DEF GatherQuotes
    <2>3. quoteRounds' = [quoteRounds EXCEPT ![c] = @ + 1]
        BY <1>1 DEF GatherQuotes
    <2> QED BY <2>1, <2>2, <2>3
<1>4. /\ quoteRounds'[c] = quoteRounds[c] + 1
      /\ \A e \in CycleIds \ {c} : quoteRounds'[e] = quoteRounds[e]
      /\ renewalRun'[r] = [at |-> "quoted", cycle |-> c]
      /\ \A q \in RenewalRuns \ {r} : renewalRun'[q] = renewalRun[q]
      /\ \A q \in RenewalRuns : renewalRun'[q].cycle = renewalRun[q].cycle
    BY <1>1, <1>2, <1>3, <1>d
<1>5. RenewalTypeOK'
    <2>1. renewalRun' \in [RenewalRuns -> RenewalRunType]
        BY <1>3, <1>1, <1>d DEF RenewalRunType
    <2>2. quoteRounds' \in [CycleIds -> Nat]
        BY <1>2, <1>3
    <2>3. \A e \in CycleIds : cycleDecisions[e] > 0 => quoteRounds'[e] > 0
        BY <1>2, <1>4, <1>t DEF RenewalTypeOK
    <2> QED BY <2>1, <2>2, <2>3, <1>o, <1>s, <1>t DEF RenewalTypeOK, RenewalRunType, Off, NoCycle
<1>6. OneRunAtACycle' /\ OneRequestAtACycle' /\ DecisionsCounted' /\ OpenedInOrder'
    BY <1>o, <1>4, <1>s, <1>t DEF OneRunAtACycle, OneRequestAtACycle, DecisionsCounted, OpenedInOrder
<1>7. QuotesCounted'
    <2>1. ASSUME c \notin sharedCycles
          PROVE  quoteRounds[c] <= renewalFaults
        <3>1. cycleStatus[c] = "detected"
            BY <2>1, <1>1, <1>t DEF OneRunAtACycle
        <3>2. \A q \in RenewalRuns : renewalRun[q] # [at |-> "quoted", cycle |-> c]
            <4>1. renewalRun[r].cycle \in Opened \ sharedCycles /\ renewalRun[r].cycle = c
                BY <2>1, <1>1
            <4>2. \A q \in RenewalRuns \ {r} : renewalRun[q].cycle # c
                BY <4>1, <1>t DEF OneRunAtACycle
            <4> QED BY <4>2, <1>1
        <3> QED BY <3>1, <3>2, <2>1, <1>2, <1>t DEF QuotesCounted
    <2>2. ASSUME NEW e \in CycleIds \ sharedCycles
          PROVE  /\ quoteRounds'[e] <= 1 + renewalFaults
                 /\ \/ quoteRounds'[e] <= renewalFaults
                    \/ cycleStatus[e] \in {"awaiting_decision", "decided"}
                    \/ \E q \in RenewalRuns : renewalRun'[q] = [at |-> "quoted", cycle |-> e]
        <3>1. CASE e = c
            BY <3>1, <2>1, <2>2, <1>2, <1>4
        <3>2. CASE e # c
            <4>1. ASSUME NEW q \in RenewalRuns, renewalRun[q] = [at |-> "quoted", cycle |-> e]
                  PROVE  renewalRun'[q] = [at |-> "quoted", cycle |-> e]
                BY <4>1, <3>2, <1>1, <1>4
            <4> QED BY <3>2, <4>1, <1>4, <1>t DEF QuotesCounted
        <3> QED BY <3>1, <3>2
    <2> QED BY <2>2, <1>s DEF QuotesCounted
<1>8. QuotedFirst'
    <2>1. \A e \in CycleIds : quoteRounds'[e] >= quoteRounds[e] /\ quoteRounds[e] \in Nat
        BY <1>2, <1>4
    <2>2. \A e \in CycleIds : quoteRounds[e] > 0 => quoteRounds'[e] > 0
        BY <2>1, <1>2, <1>3
    <2>3. \A q \in RenewalRuns : renewalRun'[q].at = "quoted" => quoteRounds'[renewalRun'[q].cycle] > 0
        <3> TAKE q \in RenewalRuns
        <3>1. CASE q = r
            BY <3>1, <1>2, <1>4
        <3>2. CASE q # r
            BY <3>2, <2>2, <1>4, <1>t, RenewalRunHolds DEF QuotedFirst
        <3> QED BY <3>1, <3>2
    <2>4. \A p \in Underwriters : underwriter[p] # NoCycle => underwriter[p] \in CycleIds
        BY <1>t DEF RenewalTypeOK, Opened
    <2> QED BY <2>2, <2>3, <2>4, <1>s, <1>t DEF QuotedFirst
<1> QED BY <1>5, <1>6, <1>7, <1>8 DEF RenewalInv

LEMMA PutToDecisionKeeps ==
    ASSUME RenewalInv, NEW r \in RenewalRuns, PutToDecision(r)
    PROVE  RenewalInv'
<1>t. RenewalTypeOK /\ OpenedInOrder /\ OneRunAtACycle /\ OneRequestAtACycle
      /\ QuotesCounted /\ DecisionsCounted /\ QuotedFirst
    BY DEF RenewalInv
<1>s. /\ renewalRun[r].at = "quoted"
      /\ UNCHANGED <<inLead, quoteRounds, cycleDecisions, underwriter, renewalFaults,
                     sharedCycles>>
    BY DEF PutToDecision
<1>d. renewalRun \in [RenewalRuns -> RenewalRunType]
    BY <1>t DEF RenewalTypeOK, RenewalRunType
<1>1. PICK c \in Opened : renewalRun[r] = [at |-> "quoted", cycle |-> c]
    BY <1>s, <1>d DEF RenewalRunType, Off
<1>2. c \in CycleIds /\ c # NoCycle /\ quoteRounds[c] > 0
    BY <1>1, <1>t, NoCycleIsNone DEF Opened, QuotedFirst
<1>3. /\ cycleStatus' = [cycleStatus EXCEPT ![c] = "awaiting_decision"]
      /\ renewalRun' = [renewalRun EXCEPT ![r] = Off]
    BY <1>1 DEF PutToDecision
<1>4. /\ cycleStatus'[c] = "awaiting_decision"
      /\ \A e \in CycleIds \ {c} : cycleStatus'[e] = cycleStatus[e]
      /\ renewalRun'[r] = Off /\ Off.cycle = NoCycle /\ Off.at = "off" /\ Off \in RenewalRunType
      /\ \A q \in RenewalRuns \ {r} : renewalRun'[q] = renewalRun[q]
    BY <1>2, <1>3, <1>d, <1>t DEF RenewalTypeOK, Off, RenewalRunType
<1>o. Opened' = Opened
    BY <1>1, <1>4 DEF Opened
<1>n. NoCycle \notin Opened /\ Opened \subseteq CycleIds
    BY NoCycleIsNone DEF Opened
<1>5. RenewalTypeOK'
    <2>1. renewalRun' \in [RenewalRuns -> RenewalRunType]
        BY <1>3, <1>4, <1>d
    <2>2. cycleStatus' \in [CycleIds -> {"none", "detected", "awaiting_decision", "decided"}]
        BY <1>3, <1>t DEF RenewalTypeOK
    <2> QED BY <2>1, <2>2, <1>o, <1>s, <1>t DEF RenewalTypeOK, RenewalRunType, Off, NoCycle
<1>6. c \notin sharedCycles =>
        /\ cycleStatus[c] = "detected"
        /\ \A q \in RenewalRuns \ {r} : renewalRun[q].cycle # c
    BY <1>1, <1>t DEF OneRunAtACycle
<1>7. OneRunAtACycle'
    <2>1. ASSUME NEW q \in RenewalRuns, renewalRun'[q].cycle \in Opened \ sharedCycles
          PROVE  /\ cycleStatus'[renewalRun'[q].cycle] = "detected"
                 /\ \A p \in RenewalRuns \ {q} : renewalRun'[p].cycle # renewalRun'[q].cycle
        <3>1. q # r /\ renewalRun[q].cycle \in Opened \ sharedCycles
            BY <2>1, <1>4, <1>n
        <3>2. renewalRun[q].cycle # c
            BY <3>1, <1>6
        <3>3. cycleStatus'[renewalRun[q].cycle] = cycleStatus[renewalRun[q].cycle]
            BY <3>1, <3>2, <1>4, <1>n
        <3>4. \A p \in RenewalRuns \ {q} : renewalRun'[p].cycle # renewalRun[q].cycle
            BY <3>1, <1>4, <1>n, <1>t DEF OneRunAtACycle
        <3> QED BY <3>1, <3>3, <3>4, <1>4, <1>t DEF OneRunAtACycle
    <2> QED BY <2>1, <1>o, <1>s DEF OneRunAtACycle
<1>8. OneRequestAtACycle'
    BY <1>o, <1>n, <1>4, <1>s, <1>t DEF OneRequestAtACycle
<1>9. QuotesCounted'
    <2>1. ASSUME NEW e \in CycleIds \ sharedCycles
          PROVE  /\ quoteRounds[e] <= 1 + renewalFaults
                 /\ \/ quoteRounds[e] <= renewalFaults
                    \/ cycleStatus'[e] \in {"awaiting_decision", "decided"}
                    \/ \E q \in RenewalRuns : renewalRun'[q] = [at |-> "quoted", cycle |-> e]
        <3>1. CASE e = c
            BY <3>1, <2>1, <1>4, <1>t DEF QuotesCounted
        <3>2. CASE e # c
            <4>1. ASSUME NEW q \in RenewalRuns, renewalRun[q] = [at |-> "quoted", cycle |-> e]
                  PROVE  renewalRun'[q] = [at |-> "quoted", cycle |-> e]
                BY <4>1, <3>2, <1>1, <1>4
            <4> QED BY <3>2, <4>1, <1>4, <1>t DEF QuotesCounted
        <3> QED BY <3>1, <3>2
    <2> QED BY <2>1, <1>s DEF QuotesCounted
<1>10. DecisionsCounted'
    BY <1>4, <1>6, <1>s, <1>t DEF DecisionsCounted
<1>11. QuotedFirst'
    BY <1>2, <1>4, <1>s, <1>t DEF QuotedFirst
<1>12. OpenedInOrder'
    BY <1>o, <1>t DEF OpenedInOrder
<1> QED BY <1>5, <1>7, <1>8, <1>9, <1>10, <1>11, <1>12 DEF RenewalInv

LEMMA RenewalRunEndsKeeps ==
    ASSUME RenewalInv, NEW r \in RenewalRuns, RenewalRunEnds(r)
    PROVE  RenewalInv'
<1>t. RenewalTypeOK /\ OpenedInOrder /\ OneRunAtACycle /\ OneRequestAtACycle
      /\ QuotesCounted /\ DecisionsCounted /\ QuotedFirst
    BY DEF RenewalInv
<1>s. /\ renewalFaults < MaxRenewalFaults /\ renewalFaults' = renewalFaults + 1
      /\ renewalRun' = [renewalRun EXCEPT ![r] = Off]
      /\ UNCHANGED <<inLead, cycleStatus, quoteRounds, cycleDecisions, underwriter, sharedCycles>>
    BY DEF RenewalRunEnds
<1>d. renewalRun \in [RenewalRuns -> RenewalRunType]
    BY <1>t DEF RenewalTypeOK, RenewalRunType
<1>o. Opened' = Opened /\ NoCycle \notin Opened
    BY <1>s, NoCycleIsNone DEF Opened
<1>1. /\ renewalRun'[r] = Off /\ Off.cycle = NoCycle /\ Off.at = "off" /\ Off \in RenewalRunType
      /\ \A q \in RenewalRuns \ {r} : renewalRun'[q] = renewalRun[q]
    BY <1>s, <1>d DEF Off, RenewalRunType
<1>2. RenewalTypeOK'
    <2>1. renewalRun' \in [RenewalRuns -> RenewalRunType]
        BY <1>1, <1>s, <1>d
    <2>2. renewalFaults' \in 0..MaxRenewalFaults
        BY <1>s, <1>t, RenewalAssumption DEF RenewalTypeOK
    <2> QED BY <2>1, <2>2, <1>o, <1>s, <1>t DEF RenewalTypeOK, RenewalRunType, Off, NoCycle
<1>3. OneRunAtACycle'
    BY <1>1, <1>o, <1>s, <1>t DEF OneRunAtACycle
<1>4. OneRequestAtACycle' /\ DecisionsCounted' /\ OpenedInOrder'
    BY <1>o, <1>s, <1>t DEF OneRequestAtACycle, DecisionsCounted, OpenedInOrder
<1>5. QuotesCounted'
    <2>1. renewalFaults \in Nat /\ quoteRounds \in [CycleIds -> Nat]
        BY <1>t DEF RenewalTypeOK
    <2>2. \A c \in CycleIds \ sharedCycles : quoteRounds[c] <= 1 + renewalFaults
        BY <1>t DEF QuotesCounted
    <2>3. \A c \in CycleIds \ sharedCycles : /\ quoteRounds[c] <= 1 + renewalFaults'
                                             /\ quoteRounds[c] <= renewalFaults'
        <3> TAKE c \in CycleIds \ sharedCycles
        <3>1. quoteRounds[c] \in Nat /\ quoteRounds[c] <= 1 + renewalFaults
            BY <2>1, <2>2
        <3> QED BY <3>1, <2>1, <1>s
    <2> QED BY <2>3, <1>s DEF QuotesCounted
<1>6. QuotedFirst'
    BY <1>1, <1>s, <1>t DEF QuotedFirst
<1> QED BY <1>2, <1>3, <1>4, <1>5, <1>6 DEF RenewalInv

LEMMA DecisionCheckKeeps ==
    ASSUME RenewalInv, NEW p \in Underwriters, NEW c \in CycleIds, DecisionCheck(p, c)
    PROVE  RenewalInv'
<1>t. RenewalTypeOK /\ OpenedInOrder /\ OneRunAtACycle /\ OneRequestAtACycle
      /\ QuotesCounted /\ DecisionsCounted /\ QuotedFirst
    BY DEF RenewalInv
<1>s. /\ underwriter[p] = NoCycle /\ cycleStatus[c] = "awaiting_decision"
      /\ underwriter' = [underwriter EXCEPT ![p] = c]
      /\ sharedCycles' = sharedCycles \cup {d \in {c} : \E q \in Underwriters : underwriter[q] = d}
      /\ UNCHANGED <<inLead, cycleStatus, quoteRounds, cycleDecisions, renewalRun, renewalFaults>>
    BY DEF DecisionCheck
<1>o. Opened' = Opened /\ c \in Opened /\ NoCycle \notin Opened
    BY <1>s, NoCycleIsNone DEF Opened
<1>1. /\ underwriter'[p] = c
      /\ \A q \in Underwriters \ {p} : underwriter'[q] = underwriter[q]
    BY <1>s, <1>t DEF RenewalTypeOK
<1>2. RenewalTypeOK'
    <2>1. underwriter' \in [Underwriters -> {NoCycle} \cup Opened]
        BY <1>o, <1>s, <1>t DEF RenewalTypeOK
    <2>2. sharedCycles' \subseteq Opened
        BY <1>o, <1>s, <1>t DEF RenewalTypeOK
    <2> QED BY <2>1, <2>2, <1>o, <1>s, <1>t DEF RenewalTypeOK, RenewalRunType, Off, NoCycle
<1>3. OneRunAtACycle' /\ OpenedInOrder'
    BY <1>o, <1>s, <1>t DEF OneRunAtACycle, OpenedInOrder
<1>4. OneRequestAtACycle'
    <2>1. c \notin sharedCycles' => \A q \in Underwriters : underwriter[q] # c
        BY <1>s
    <2> QED BY <2>1, <1>o, <1>1, <1>s, <1>t DEF OneRequestAtACycle
<1>5. QuotesCounted' /\ DecisionsCounted'
    BY <1>s, <1>t DEF QuotesCounted, DecisionsCounted
<1>6. QuotedFirst'
    BY <1>1, <1>s, <1>t DEF QuotedFirst
<1> QED BY <1>2, <1>3, <1>4, <1>5, <1>6 DEF RenewalInv

LEMMA DecisionWriteKeeps ==
    ASSUME RenewalInv, NEW p \in Underwriters, DecisionWrite(p)
    PROVE  RenewalInv'
<1>t. RenewalTypeOK /\ OpenedInOrder /\ OneRunAtACycle /\ OneRequestAtACycle
      /\ QuotesCounted /\ DecisionsCounted /\ QuotedFirst
    BY DEF RenewalInv
<1>s. /\ underwriter[p] # NoCycle
      /\ underwriter' = [underwriter EXCEPT ![p] = NoCycle]
      /\ UNCHANGED <<inLead, quoteRounds, renewalRun, renewalFaults, sharedCycles>>
    BY DEF DecisionWrite
<1>1. PICK c \in Opened : underwriter[p] = c
    BY <1>s, <1>t DEF RenewalTypeOK
<1>2. /\ c \in CycleIds /\ quoteRounds[c] > 0 /\ cycleDecisions \in [CycleIds -> Nat]
    BY <1>1, <1>s, <1>t DEF Opened, QuotedFirst, RenewalTypeOK
<1>3. /\ cycleStatus' = [cycleStatus EXCEPT ![c] = "decided"]
      /\ cycleDecisions' = [cycleDecisions EXCEPT ![c] = @ + 1]
    BY <1>1 DEF DecisionWrite
<1>4. /\ cycleStatus'[c] = "decided" /\ cycleDecisions'[c] = cycleDecisions[c] + 1
      /\ \A e \in CycleIds \ {c} : cycleStatus'[e] = cycleStatus[e]
                                   /\ cycleDecisions'[e] = cycleDecisions[e]
      /\ underwriter'[p] = NoCycle
      /\ \A q \in Underwriters \ {p} : underwriter'[q] = underwriter[q]
    BY <1>2, <1>3, <1>s, <1>t DEF RenewalTypeOK
<1>o. Opened' = Opened
    BY <1>1, <1>4 DEF Opened
<1>n. NoCycle \notin Opened /\ Opened \subseteq CycleIds
    BY NoCycleIsNone DEF Opened
<1>5. RenewalTypeOK'
    <2>1. underwriter' \in [Underwriters -> {NoCycle} \cup Opened]
        BY <1>s, <1>t DEF RenewalTypeOK
    <2>2. cycleStatus' \in [CycleIds -> {"none", "detected", "awaiting_decision", "decided"}]
        BY <1>3, <1>t DEF RenewalTypeOK
    <2>3. cycleDecisions' \in [CycleIds -> Nat]
        BY <1>2, <1>3
    <2>4. \A e \in CycleIds : cycleDecisions'[e] > 0 => quoteRounds[e] > 0
        BY <1>2, <1>4, <1>t DEF RenewalTypeOK
    <2> QED BY <2>1, <2>2, <2>3, <2>4, <1>o, <1>s, <1>t DEF RenewalTypeOK, RenewalRunType, Off, NoCycle
<1>6. c \notin sharedCycles =>
        /\ cycleStatus[c] = "awaiting_decision"
        /\ \A q \in Underwriters \ {p} : underwriter[q] # c
    BY <1>1, <1>t DEF OneRequestAtACycle
<1>7. OneRunAtACycle'
    <2>1. \A q \in RenewalRuns : renewalRun[q].cycle \in Opened \ sharedCycles =>
            /\ renewalRun[q].cycle # c
            /\ cycleStatus'[renewalRun[q].cycle] = cycleStatus[renewalRun[q].cycle]
        BY <1>6, <1>4, <1>n, <1>t DEF OneRunAtACycle
    <2> QED BY <2>1, <1>o, <1>s, <1>t DEF OneRunAtACycle
<1>8. OneRequestAtACycle'
    <2>1. ASSUME NEW q \in Underwriters, underwriter'[q] \in Opened \ sharedCycles
          PROVE  /\ cycleStatus'[underwriter'[q]] = "awaiting_decision"
                 /\ \A u \in Underwriters \ {q} : underwriter'[u] # underwriter'[q]
        <3>1. q # p /\ underwriter[q] \in Opened \ sharedCycles /\ underwriter'[q] = underwriter[q]
            BY <2>1, <1>4, <1>n
        <3>2. underwriter[q] # c
            BY <3>1, <1>6
        <3>3. cycleStatus'[underwriter[q]] = cycleStatus[underwriter[q]]
            BY <3>1, <3>2, <1>4, <1>n
        <3>4. \A u \in Underwriters \ {q} : underwriter'[u] # underwriter[q]
            BY <3>1, <1>4, <1>n, <1>t DEF OneRequestAtACycle
        <3> QED BY <3>1, <3>3, <3>4, <1>t DEF OneRequestAtACycle
    <2> QED BY <2>1, <1>o, <1>s DEF OneRequestAtACycle
<1>9. QuotesCounted'
    <2>1. ASSUME NEW e \in CycleIds \ sharedCycles
          PROVE  cycleStatus[e] \in {"awaiting_decision", "decided"} =>
                     cycleStatus'[e] \in {"awaiting_decision", "decided"}
        BY <1>4
    <2> QED BY <2>1, <1>s, <1>t DEF QuotesCounted
<1>10. DecisionsCounted'
    <2>1. ASSUME NEW e \in CycleIds \ sharedCycles
          PROVE  cycleDecisions'[e] = IF cycleStatus'[e] = "decided" THEN 1 ELSE 0
        <3>1. CASE e = c
            BY <3>1, <2>1, <1>4, <1>6, <1>t DEF DecisionsCounted
        <3>2. CASE e # c
            BY <3>2, <2>1, <1>4, <1>t DEF DecisionsCounted
        <3> QED BY <3>1, <3>2
    <2> QED BY <2>1, <1>s DEF DecisionsCounted
<1>11. QuotedFirst'
    BY <1>2, <1>4, <1>s, <1>t DEF QuotedFirst
<1>12. OpenedInOrder'
    BY <1>o, <1>t DEF OpenedInOrder
<1> QED BY <1>5, <1>7, <1>8, <1>9, <1>10, <1>11, <1>12 DEF RenewalInv

LEMMA RenewalInvNext == RenewalInv /\ [RenewalNext]_renewalVars => RenewalInv'
<1> SUFFICES ASSUME RenewalInv, [RenewalNext]_renewalVars PROVE RenewalInv'
    OBVIOUS
<1>1. CASE UNCHANGED renewalVars
    BY <1>1 DEF renewalVars, RenewalInv, RenewalTypeOK, OpenedInOrder, OneRunAtACycle,
        OneRequestAtACycle, QuotesCounted, DecisionsCounted, QuotedFirst, Opened, Off, NoCycle
<1>2. CASE LeadTimeBegins
    BY <1>2, LeadTimeBeginsKeeps
<1>3. ASSUME NEW r \in RenewalRuns, RenewalStep(r) \/ RenewalRunEnds(r) PROVE RenewalInv'
    BY <1>3, FindCycleKeeps, CreateCycleKeeps, GatherQuotesKeeps, PutToDecisionKeeps,
       RenewalRunEndsKeeps DEF RenewalStep
<1>4. ASSUME NEW p \in Underwriters, DecisionWrite(p) \/ \E c \in CycleIds : DecisionCheck(p, c)
      PROVE  RenewalInv'
    BY <1>4, DecisionWriteKeeps, DecisionCheckKeeps
<1> QED BY <1>1, <1>2, <1>3, <1>4 DEF RenewalNext

(* Cycles, runs and requests hold what the code may write, and a decided *)
(* cycle was quoted.                                                     *)
THEOREM RenewalTypeCorrect == RenewalSpec => []RenewalTypeOK
<1>1. RenewalInv => RenewalTypeOK
    BY DEF RenewalInv
<1> QED BY <1>1, RenewalInvInit, RenewalInvNext, PTL DEF RenewalSpec

(* However many runs and requests overlap, a cycle that no two of them were  *)
(* at together is decided once, and quoted once more than runs ended half    *)
(* way.                                                                      *)
THEOREM CyclesDecidedOnce == RenewalSpec => []CycleDecidedOnce
<1>1. RenewalInv => CycleDecidedOnce
    <2> SUFFICES ASSUME RenewalInv, NEW c \in CycleIds \ sharedCycles
                 PROVE  cycleDecisions[c] <= 1 /\ quoteRounds[c] <= 1 + renewalFaults
        BY DEF CycleDecidedOnce
    <2>1. cycleDecisions[c] = (IF cycleStatus[c] = "decided" THEN 1 ELSE 0)
        BY DEF RenewalInv, DecisionsCounted
    <2>2. quoteRounds[c] <= 1 + renewalFaults
        BY DEF RenewalInv, QuotesCounted
    <2> QED BY <2>1, <2>2
<1> QED BY <1>1, RenewalInvInit, RenewalInvNext, PTL DEF RenewalSpec

-----------------------------------------------------------------------------
(* The state of the two agents above and of the certificate watch is well   *)
(* typed; the runs have what exists, and rows and calendar only grow.       *)
-----------------------------------------------------------------------------
MemoryRunNow ==
    [at: {"off", "picked", "lift", "mark"}, table: 0..3, queue: SUBSET written,
     note: {{}} \cup {{n} : n \in written}, next: Nat, late: SUBSET pastDue]

\* One run has changed, or none.
LEMMA MemoryRunsTyped ==
    ASSUME MemoryTypeOK, written \subseteq written', pastDue \subseteq pastDue',
           NEW r \in MemoryRuns, NEW new, new \in MemoryRunNow',
           memoryRun' = [memoryRun EXCEPT ![r] = new]
    PROVE  memoryRun' \in [MemoryRuns -> MemoryRunNow']
<1>1. memoryRun \in [MemoryRuns -> MemoryRunNow]
    BY DEF MemoryTypeOK, MemoryRunNow
<1>2. \A m \in MemoryRunNow : m \in MemoryRunNow'
    BY DEF MemoryRunNow
<1> QED BY <1>1, <1>2

LEMMA MemoryOffTyped == MemoryOff \in MemoryRunNow
BY DEF MemoryOff, MemoryRunNow

LEMMA MemoryRunSteps ==
    ASSUME MemoryTypeOK, NEW r \in MemoryRuns, MemoryStep(r) \/ MemoryRunEnds(r)
    PROVE  MemoryTypeOK'
<1>t. memoryRun \in [MemoryRuns -> MemoryRunNow]
    BY DEF MemoryTypeOK, MemoryRunNow
<1>r. memoryRun[r] \in MemoryRunNow
    BY <1>t
<1>1. ASSUME PickNotes(r) PROVE MemoryTypeOK'
    <2> DEFINE new == [memoryRun[r] EXCEPT !.at = "picked", !.table = memoryRun[r].table + 1,
                          !.queue = {n \in Pending : TableOf[n] = memoryRun[r].table + 1}]
    <2>1. memoryRun' = [memoryRun EXCEPT ![r] = new]
        BY <1>1, <1>t DEF PickNotes
    <2>2. memoryRun[r].table + 1 \in 0..3
        BY <1>1, <1>r DEF PickNotes, MemoryRunNow
    <2>3. {n \in Pending : TableOf[n] = memoryRun[r].table + 1} \in SUBSET written
        BY DEF Pending
    <2>4. new \in MemoryRunNow
        BY <1>r, <2>2, <2>3 DEF MemoryRunNow
    <2>5. UNCHANGED <<written, summarised, promises, pastDue, overdue, memoryFaults, interrupted>>
        BY <1>1 DEF PickNotes, noteVars
    <2> HIDE DEF new
    <2>6. memoryRun' \in [MemoryRuns -> MemoryRunNow]
        BY <2>1, <2>4, <1>t
    <2> QED BY <2>5, <2>6 DEF MemoryTypeOK, MemoryRunNow
<1>2. ASSUME NEW n \in Notes, SummariseNote(r, n) PROVE MemoryTypeOK'
    <2> DEFINE new == [memoryRun[r] EXCEPT !.at = "lift", !.note = {n}, !.next = 1]
    <2>1. memoryRun' = [memoryRun EXCEPT ![r] = new]
        BY <1>2, <1>t DEF SummariseNote
    <2>2. n \in written
        BY <1>2, <1>r DEF SummariseNote, MemoryRunNow
    <2>3. new \in MemoryRunNow
        BY <1>r, <2>2 DEF MemoryRunNow
    <2>4. /\ summarised' = summarised \cup {n}
          /\ UNCHANGED <<written, promises, pastDue, overdue, memoryFaults, interrupted>>
        BY <1>2 DEF SummariseNote
    <2> HIDE DEF new
    <2>5. memoryRun' \in [MemoryRuns -> MemoryRunNow]
        BY <2>1, <2>3, <1>t
    <2> QED BY <2>2, <2>4, <2>5 DEF MemoryTypeOK, MemoryRunNow
<1>3. ASSUME NEW n \in Notes, LiftPromise(r, n) PROVE MemoryTypeOK'
    <2> DEFINE new == [memoryRun[r] EXCEPT !.next = memoryRun[r].next + 1]
    <2>1. new \in MemoryRunNow
        BY <1>r DEF MemoryRunNow
    <2>2. \/ memoryRun' = [memoryRun EXCEPT ![r] = MemoryOff]
          \/ memoryRun' = [memoryRun EXCEPT ![r] = new]
        BY <1>3, <1>t DEF LiftPromise
    <2>3. <<n, memoryRun[r].next>> \in AllPromises
        BY <1>3 DEF LiftPromise, AllPromises
    <2>4. /\ promises' = promises \/ promises' = promises \cup {<<n, memoryRun[r].next>>}
          /\ UNCHANGED <<written, summarised, pastDue, overdue, memoryFaults, interrupted>>
        BY <1>3 DEF LiftPromise
    <2> HIDE DEF new
    <2>5. memoryRun' \in [MemoryRuns -> MemoryRunNow]
        BY <2>1, <2>2, <1>t, MemoryOffTyped
    <2>6. promises \subseteq promises' /\ promises' \subseteq AllPromises
        BY <2>3, <2>4 DEF MemoryTypeOK
    <2> QED BY <2>4, <2>5, <2>6 DEF MemoryTypeOK, MemoryRunNow
<1>4. ASSUME NEW n \in Notes, NoteDone(r, n) PROVE MemoryTypeOK'
    <2> DEFINE new == [memoryRun[r] EXCEPT !.at = "picked", !.queue = memoryRun[r].queue \ {n},
                                           !.note = {}, !.next = 0]
    <2>1. memoryRun' = [memoryRun EXCEPT ![r] = new]
        BY <1>4, <1>t DEF NoteDone
    <2>2. new \in MemoryRunNow
        BY <1>r DEF MemoryRunNow
    <2>3. UNCHANGED <<written, summarised, promises, pastDue, overdue, memoryFaults, interrupted>>
        BY <1>4 DEF NoteDone, noteVars
    <2> HIDE DEF new
    <2>4. memoryRun' \in [MemoryRuns -> MemoryRunNow]
        BY <2>1, <2>2, <1>t
    <2> QED BY <2>3, <2>4 DEF MemoryTypeOK, MemoryRunNow
<1>5. ASSUME FindOverdue(r) PROVE MemoryTypeOK'
    <2> DEFINE new == [memoryRun[r] EXCEPT !.at = "mark", !.late = (promises \cap pastDue) \ overdue]
    <2>1. \/ memoryRun' = [memoryRun EXCEPT ![r] = new]
          \/ memoryRun' = [memoryRun EXCEPT ![r] = MemoryOff]
        BY <1>5, <1>t DEF FindOverdue
    <2>2. new \in MemoryRunNow
        BY <1>r DEF MemoryRunNow
    <2>3. UNCHANGED <<written, summarised, promises, pastDue, overdue, memoryFaults, interrupted>>
        BY <1>5 DEF FindOverdue, noteVars
    <2> HIDE DEF new
    <2>4. memoryRun' \in [MemoryRuns -> MemoryRunNow]
        BY <2>1, <2>2, <1>t, MemoryOffTyped
    <2> QED BY <2>3, <2>4 DEF MemoryTypeOK, MemoryRunNow
<1>6. ASSUME NEW p \in AllPromises, MarkOverdue(r, p) PROVE MemoryTypeOK'
    <2> DEFINE new == [memoryRun[r] EXCEPT !.late = memoryRun[r].late \ {p}]
    <2>1. \/ memoryRun' = [memoryRun EXCEPT ![r] = new]
          \/ memoryRun' = [memoryRun EXCEPT ![r] = MemoryOff]
        <3>1. CASE memoryRun[r].late = {p}
            BY <1>6, <3>1 DEF MarkOverdue
        <3>2. CASE memoryRun[r].late # {p}
            BY <1>6, <1>t, <3>2 DEF MarkOverdue
        <3> QED BY <3>1, <3>2
    <2>2. new \in MemoryRunNow /\ p \in pastDue
        BY <1>6, <1>r DEF MarkOverdue, MemoryRunNow
    <2>3. /\ overdue' = overdue \cup {p}
          /\ UNCHANGED <<written, summarised, promises, pastDue, memoryFaults, interrupted>>
        BY <1>6 DEF MarkOverdue
    <2> HIDE DEF new
    <2>4. memoryRun' \in [MemoryRuns -> MemoryRunNow]
        BY <2>1, <2>2, <1>t, MemoryOffTyped
    <2> QED BY <2>2, <2>3, <2>4 DEF MemoryTypeOK, MemoryRunNow
<1>7. ASSUME MemoryRunEnds(r) PROVE MemoryTypeOK'
    <2>1. /\ memoryFaults < MaxMemoryFaults /\ memoryFaults' = memoryFaults + 1
          /\ interrupted' = interrupted \cup memoryRun[r].note
          /\ memoryRun' = [memoryRun EXCEPT ![r] = MemoryOff]
          /\ UNCHANGED <<written, summarised, promises, pastDue, overdue>>
        BY <1>7 DEF MemoryRunEnds, noteVars
    <2>2. memoryRun[r].note \subseteq written
        BY <1>r DEF MemoryRunNow
    <2>3. memoryFaults' \in 0..MaxMemoryFaults
        BY <2>1, MemoryAssumption DEF MemoryTypeOK
    <2>4. memoryRun' \in [MemoryRuns -> MemoryRunNow]
        BY <2>1, <1>t, MemoryOffTyped
    <2> QED BY <2>1, <2>2, <2>3, <2>4 DEF MemoryTypeOK, MemoryRunNow
<1> QED BY <1>1, <1>2, <1>3, <1>4, <1>5, <1>6, <1>7 DEF MemoryStep

LEMMA MemoryTypeNext == MemoryTypeOK /\ [MemoryNext]_memoryVars => MemoryTypeOK'
<1> SUFFICES ASSUME MemoryTypeOK, [MemoryNext]_memoryVars PROVE MemoryTypeOK'
    OBVIOUS
<1>t. memoryRun \in [MemoryRuns -> MemoryRunNow]
    BY DEF MemoryTypeOK, MemoryRunNow
<1>1. CASE UNCHANGED memoryVars
    BY <1>1 DEF memoryVars, noteVars, MemoryTypeOK
<1>2. ASSUME NEW n \in Notes, WriteNote(n) PROVE MemoryTypeOK'
    <2>1. /\ written' = written \cup {n}
          /\ UNCHANGED <<summarised, promises, pastDue, overdue, memoryRun, memoryFaults, interrupted>>
        BY <1>2 DEF WriteNote
    <2>2. \A m \in MemoryRunNow : m \in MemoryRunNow'
        BY <2>1 DEF MemoryRunNow
    <2>3. memoryRun' \in [MemoryRuns -> MemoryRunNow']
        BY <2>1, <2>2, <1>t
    <2> QED BY <2>1, <2>3 DEF MemoryTypeOK, MemoryRunNow
<1>3. ASSUME NEW p \in AllPromises, DayPasses(p) PROVE MemoryTypeOK'
    <2>1. /\ p \in promises /\ pastDue' = pastDue \cup {p}
          /\ UNCHANGED <<written, summarised, promises, overdue, memoryRun, memoryFaults, interrupted>>
        BY <1>3 DEF DayPasses
    <2>2. \A m \in MemoryRunNow : m \in MemoryRunNow'
        BY <2>1 DEF MemoryRunNow
    <2>3. memoryRun' \in [MemoryRuns -> MemoryRunNow']
        BY <2>1, <2>2, <1>t
    <2> QED BY <2>1, <2>3 DEF MemoryTypeOK, MemoryRunNow
<1> QED BY <1>1, <1>2, <1>3, MemoryRunSteps DEF MemoryNext

LEMMA MemoryTypeInit == MemoryInit => MemoryTypeOK
<1> SUFFICES ASSUME MemoryInit PROVE MemoryTypeOK
    OBVIOUS
<1>1. memoryRun \in [MemoryRuns -> MemoryRunNow]
    BY MemoryOffTyped DEF MemoryInit
<1> QED BY <1>1, MemoryAssumption DEF MemoryInit, MemoryTypeOK, MemoryRunNow

-----------------------------------------------------------------------------
LawRunNow ==
    [at: {"off", "polled", "next", "insert", "map"}, items: SUBSET inFeed,
     known: SUBSET homes, law: {{}} \cup {{l} : l \in inFeed}, left: SUBSET homes]

LEMMA LawOffTyped == LawOff \in LawRunNow
BY DEF LawOff, LawRunNow

LEMMA LawRunSteps ==
    ASSUME LawTypeOK, LawInv, NEW r \in WatchRuns, LawStep(r) \/ WatchFails(r)
    PROVE  LawTypeOK'
<1>t. lawRun \in [WatchRuns -> LawRunNow]
    BY DEF LawTypeOK, LawRunNow
<1>r. lawRun[r] \in LawRunNow
    BY <1>t
<1>q. ASSUME NEW new \in LawRunNow, lawRun' = [lawRun EXCEPT ![r] = new],
             UNCHANGED <<lawRows, lawFaults, knownHomes, lawInterrupted>>
      PROVE  LawTypeOK'
    <2>1. lawRun' \in [WatchRuns -> LawRunNow]
        BY <1>q, <1>t
    <2> QED BY <1>q, <2>1 DEF LawTypeOK, LawRunNow, lawRows
<1>1. ASSUME PollFeed(r) PROVE LawTypeOK'
    <2>1. [lawRun[r] EXCEPT !.at = "polled", !.items = inFeed] \in LawRunNow
        BY <1>r DEF LawRunNow
    <2>2. lawRun' = [lawRun EXCEPT ![r] = [lawRun[r] EXCEPT !.at = "polled", !.items = inFeed]]
        BY <1>1, <1>t DEF PollFeed
    <2> QED BY <1>1, <1>q, <2>1, <2>2 DEF PollFeed
<1>2. ASSUME ReadHomes(r) PROVE LawTypeOK'
    <2>1. [lawRun[r] EXCEPT !.at = "next", !.known = homes] \in LawRunNow
        BY <1>r DEF LawRunNow
    <2>2. lawRun' = [lawRun EXCEPT ![r] = [lawRun[r] EXCEPT !.at = "next", !.known = homes]]
        BY <1>2, <1>t DEF ReadHomes
    <2> QED BY <1>2, <1>q, <2>1, <2>2 DEF ReadHomes
<1>3. ASSUME NEW l \in Laws, LookForLaw(r, l) PROVE LawTypeOK'
    <2> DEFINE seen == [lawRun[r] EXCEPT !.items = lawRun[r].items \ {l}]
               new  == [lawRun[r] EXCEPT !.items = lawRun[r].items \ {l}, !.at = "insert",
                                         !.law = {l}]
    <2>1. l \in inFeed
        BY <1>3, <1>r DEF LookForLaw, LawRunNow
    <2>2. seen \in LawRunNow /\ new \in LawRunNow
        BY <1>r, <2>1 DEF LawRunNow
    <2>3. lawRun' = [lawRun EXCEPT ![r] = seen] \/ lawRun' = [lawRun EXCEPT ![r] = new]
        BY <1>3, <1>t DEF LookForLaw
    <2> HIDE DEF seen, new
    <2> QED BY <1>3, <1>q, <2>2, <2>3 DEF LookForLaw
<1>4. ASSUME NEW l \in Laws, RecordLaw(r, l) PROVE LawTypeOK'
    <2> DEFINE new == [lawRun[r] EXCEPT !.at = "map", !.left = lawRun[r].known \cap Concerns[l]]
    <2>1. l \in inFeed /\ lawRun[r].known \subseteq homes
        BY <1>4, <1>r DEF RecordLaw, LawRunNow
    <2>2. new \in LawRunNow
        BY <1>r, <2>1 DEF LawRunNow
    <2>3. \/ /\ lawRun' = [lawRun EXCEPT ![r] = LawOff]
             /\ UNCHANGED <<recorded, knownHomes>>
          \/ /\ lawRun' = [lawRun EXCEPT ![r] = new]
             /\ recorded' = recorded \cup {l}
             /\ knownHomes' = [knownHomes EXCEPT ![l] = lawRun[r].known]
        BY <1>4, <1>t DEF RecordLaw
    <2>4. UNCHANGED <<inFeed, homes, impacts, lawFaults, lawInterrupted>>
        BY <1>4 DEF RecordLaw
    <2> HIDE DEF new
    <2>5. lawRun' \in [WatchRuns -> LawRunNow]
        BY <2>2, <2>3, <1>t, LawOffTyped
    <2>6. /\ recorded \subseteq recorded' /\ recorded' \subseteq inFeed
          /\ knownHomes' \in [Laws -> SUBSET homes]
        BY <2>1, <2>3 DEF LawTypeOK
    <2> QED BY <2>4, <2>5, <2>6 DEF LawTypeOK, LawRunNow
<1>5. ASSUME NEW l \in Laws, NEW h \in Homes, MapToHome(r, l, h) PROVE LawTypeOK'
    <2> DEFINE new == [lawRun[r] EXCEPT !.left = lawRun[r].left \ {h}]
    <2>1. new \in LawRunNow /\ h \in homes
        BY <1>5, <1>r DEF MapToHome, LawRunNow
    <2>2. lawRun' = [lawRun EXCEPT ![r] = new]
        BY <1>5, <1>t DEF MapToHome
    <2>3. /\ impacts' = [impacts EXCEPT ![l] = impacts[l] \cup {h}]
          /\ UNCHANGED <<inFeed, homes, recorded, lawFaults, knownHomes, lawInterrupted>>
        BY <1>5 DEF MapToHome
    <2> HIDE DEF new
    <2>4. lawRun' \in [WatchRuns -> LawRunNow]
        BY <2>1, <2>2, <1>t
    <2>5. impacts' \in [Laws -> SUBSET homes]
        BY <2>1, <2>3 DEF LawTypeOK
    <2> QED BY <2>3, <2>4, <2>5 DEF LawTypeOK, LawRunNow
<1>6. ASSUME LawDone(r) PROVE LawTypeOK'
    <2>1. [lawRun[r] EXCEPT !.at = "next", !.law = {}] \in LawRunNow
        BY <1>r DEF LawRunNow
    <2>2. lawRun' = [lawRun EXCEPT ![r] = [lawRun[r] EXCEPT !.at = "next", !.law = {}]]
        BY <1>6, <1>t DEF LawDone
    <2> QED BY <1>6, <1>q, <2>1, <2>2 DEF LawDone
<1>7. ASSUME WatchEnds(r) PROVE LawTypeOK'
    BY <1>7, <1>q, LawOffTyped DEF WatchEnds
<1>8. ASSUME WatchFails(r) PROVE LawTypeOK'
    <2>1. /\ lawFaults < MaxLawFaults /\ lawFaults' = lawFaults + 1
          /\ lawInterrupted' = lawInterrupted \cup
                (IF lawRun[r].at = "map" THEN lawRun[r].law ELSE {})
          /\ lawRun' = [lawRun EXCEPT ![r] = LawOff]
          /\ UNCHANGED <<inFeed, homes, recorded, impacts, knownHomes>>
        BY <1>8 DEF WatchFails, lawRows
    <2>2. lawRun[r].at = "map" => lawRun[r].law \subseteq recorded
        BY DEF LawInv, MappingIsRecorded
    <2>3. lawInterrupted' \subseteq recorded
        BY <2>1, <2>2 DEF LawTypeOK
    <2>4. lawFaults' \in 0..MaxLawFaults
        BY <2>1, LawAssumption DEF LawTypeOK
    <2>5. lawRun' \in [WatchRuns -> LawRunNow]
        BY <2>1, <1>t, LawOffTyped
    <2> QED BY <2>1, <2>3, <2>4, <2>5 DEF LawTypeOK, LawRunNow
<1> QED BY <1>1, <1>2, <1>3, <1>4, <1>5, <1>6, <1>7, <1>8 DEF LawStep

LEMMA LawTypeNext == LawTypeOK /\ LawInv /\ [LawNext]_lawVars => LawTypeOK'
<1> SUFFICES ASSUME LawTypeOK, LawInv, [LawNext]_lawVars PROVE LawTypeOK'
    OBVIOUS
<1>t. lawRun \in [WatchRuns -> LawRunNow]
    BY DEF LawTypeOK, LawRunNow
<1>1. CASE UNCHANGED lawVars
    BY <1>1 DEF lawVars, lawRows, LawTypeOK
<1>2. ASSUME NEW l \in Laws, PublishLaw(l) PROVE LawTypeOK'
    <2>1. /\ inFeed' = inFeed \cup {l}
          /\ UNCHANGED <<homes, recorded, impacts, lawRun, lawFaults, knownHomes, lawInterrupted>>
        BY <1>2 DEF PublishLaw
    <2>2. \A m \in LawRunNow : m \in LawRunNow'
        BY <2>1 DEF LawRunNow
    <2>3. lawRun' \in [WatchRuns -> LawRunNow']
        BY <2>1, <2>2, <1>t
    <2> QED BY <2>1, <2>3 DEF LawTypeOK, LawRunNow
<1>3. ASSUME NEW h \in Homes, AddHome(h) PROVE LawTypeOK'
    <2>1. /\ homes' = homes \cup {h}
          /\ UNCHANGED <<inFeed, recorded, impacts, lawRun, lawFaults, knownHomes, lawInterrupted>>
        BY <1>3 DEF AddHome
    <2>2. \A m \in LawRunNow : m \in LawRunNow'
        BY <2>1 DEF LawRunNow
    <2>3. lawRun' \in [WatchRuns -> LawRunNow']
        BY <2>1, <2>2, <1>t
    <2>4. impacts' \in [Laws -> SUBSET homes'] /\ knownHomes' \in [Laws -> SUBSET homes']
        BY <2>1 DEF LawTypeOK
    <2> QED BY <2>1, <2>3, <2>4 DEF LawTypeOK, LawRunNow
<1> QED BY <1>1, <1>2, <1>3, LawRunSteps DEF LawNext

LEMMA LawTypeInit == LawInit => LawTypeOK
<1> SUFFICES ASSUME LawInit PROVE LawTypeOK
    OBVIOUS
<1>1. lawRun \in [WatchRuns -> LawRunNow]
    BY LawOffTyped DEF LawInit
<1> QED BY <1>1, LawAssumption DEF LawInit, LawTypeOK, LawRunNow

-----------------------------------------------------------------------------
\* What a run has read is of the form the next step needs.
CertRead == [Bases -> CertDays \cup {NotHeld}]
SeenType == [id: {0} \cup AlertIds, kind: Kinds \cup {Valid}]
AlertsSeen == [Bases -> SeenType]
CertRunType ==
    [at: {"off", "certs", "walk"}, days: {<<>>} \cup CertRead, seen: {<<>>} \cup AlertsSeen,
     left: SUBSET CertNames]
CertRunKind(run) ==
    /\ run \in CertRunType
    /\ run.at # "off" => run.days \in CertRead
    /\ run.at = "walk" => run.seen \in AlertsSeen
RowType == {Closed} \cup [name: CertNames, kind: Kinds]
OpenIsUnique(rows) ==
    \A a, b \in AlertIds : rows[a] # Closed /\ rows[b] # Closed /\ a # b => rows[a] # rows[b]
CertInv ==
    /\ held \in CertRead /\ alerts \in [AlertIds -> RowType] /\ OpenIsUnique(alerts)
    /\ certChanges \in 0..MaxCertChanges /\ certFaults \in 0..MaxCertFaults
    /\ doubled \in BOOLEAN /\ overtaken \subseteq CertRuns
    /\ certRun = [r \in CertRuns |-> certRun[r]]
    /\ \A r \in CertRuns : CertRunKind(certRun[r])

LEMMA CertInvTyped == CertInv => CertTypeOK
<1> SUFFICES ASSUME CertInv PROVE CertTypeOK
    OBVIOUS
<1>1. \A r \in CertRuns :
        /\ certRun[r].at \in {"off", "certs", "walk"}
        /\ certRun[r].at # "off" => certRun[r].days \in [Bases -> CertDays \cup {NotHeld}]
        /\ certRun[r].at = "walk" => \A b \in Bases : certRun[r].seen[b].id \in {0} \cup AlertIds
        /\ certRun[r].left \subseteq CertNames
    BY DEF CertInv, CertRunKind, CertRunType, AlertsSeen, CertRead, SeenType
<1>2. \A a, b \in Open : a # b => alerts[a] # alerts[b]
    BY DEF CertInv, Open, OpenIsUnique
<1> QED BY <1>1, <1>2 DEF CertInv, CertTypeOK, CertRead, RowType

LEMMA CertOffKind == CertRunKind(CertOff)
BY DEF CertOff, CertRunKind, CertRunType

LEMMA CertInvInit == CertInit => CertInv
<1> SUFFICES ASSUME CertInit PROVE CertInv
    OBVIOUS
<1>1. held \in CertRead /\ alerts \in [AlertIds -> RowType]
    BY DEF CertInit, CertRead, RowType
<1>2. OpenIsUnique(alerts)
    BY DEF CertInit, OpenIsUnique
<1>3. certChanges \in 0..MaxCertChanges /\ certFaults \in 0..MaxCertFaults
    BY CertAssumption DEF CertInit
<1>5. doubled \in BOOLEAN /\ overtaken \subseteq CertRuns
    BY DEF CertInit
<1>4. certRun = [r \in CertRuns |-> certRun[r]] /\ \A r \in CertRuns : CertRunKind(certRun[r])
    BY CertOffKind DEF CertInit
<1> QED BY <1>1, <1>2, <1>3, <1>4, <1>5 DEF CertInv

\* One run changes.
LEMMA CertRunMoves ==
    ASSUME CertInv, NEW r \in CertRuns, NEW new, CertRunKind(new),
           certRun' = [certRun EXCEPT ![r] = new]
    PROVE  /\ certRun' = [q \in CertRuns |-> certRun'[q]]
           /\ \A q \in CertRuns : CertRunKind(certRun'[q])
<1>1. certRun = [q \in CertRuns |-> certRun[q]] /\ \A q \in CertRuns : CertRunKind(certRun[q])
    BY DEF CertInv
<1>2. /\ certRun'[r] = new
      /\ \A q \in CertRuns \ {r} : certRun'[q] = certRun[q]
    BY <1>1
<1>3. \A q \in CertRuns : CertRunKind(certRun'[q])
    <2> TAKE q \in CertRuns
    <2>1. CASE q = r
        BY <2>1, <1>2
    <2>2. CASE q # r
        BY <2>2, <1>1, <1>2
    <2> QED BY <2>1, <2>2
<1> QED BY <1>1, <1>3

LEMMA AlertKindTyped ==
    ASSUME NEW days
    PROVE  AlertKind(days) \in Kinds \cup {Valid}
BY DEF AlertKind, Kinds, Valid

LEMMA NextIdIsFree ==
    ASSUME Free # {}
    PROVE  NextId \in Free
<1>1. Free \in SUBSET Nat
    BY CertAssumption DEF Free, AlertIds
<1>2. \E a \in Free : \A b \in Free : a <= b
    BY <1>1, LeastOf
<1> QED BY <1>2 DEF NextId

\* The three writes keep open alerts apart, for the index refuses the others.
LEMMA ResolveKeepsApart ==
    ASSUME alerts \in [AlertIds -> RowType], OpenIsUnique(alerts), NEW a
    PROVE  Resolve(a) \in [AlertIds -> RowType] /\ OpenIsUnique(Resolve(a))
<1>1. Resolve(a) \in [AlertIds -> RowType]
    BY DEF Resolve, RowType
<1>2. \A o \in AlertIds : Resolve(a)[o] = alerts[o] \/ Resolve(a)[o] = Closed
    BY DEF Resolve
<1> QED BY <1>1, <1>2 DEF OpenIsUnique

LEMMA CreateKeepsApart ==
    ASSUME alerts \in [AlertIds -> RowType], OpenIsUnique(alerts), Free # {},
           NEW n \in CertNames, NEW kind \in Kinds, ~ Collides(0, n, kind)
    PROVE  Create(n, kind) \in [AlertIds -> RowType] /\ OpenIsUnique(Create(n, kind))
<1> DEFINE new == [name |-> n, kind |-> kind]
<1>1. NextId \in AlertIds
    BY NextIdIsFree DEF Free
<1>2. new \in RowType
    BY DEF RowType
<1>3. Create(n, kind) = [alerts EXCEPT ![NextId] = new]
    BY DEF Create
<1>4. \A o \in AlertIds : alerts[o] # Closed => alerts[o] # new
    <2> SUFFICES ASSUME NEW o \in AlertIds, alerts[o] # Closed, alerts[o] = new PROVE FALSE
        OBVIOUS
    <2>1. o \in Open \ {0}
        BY CertAssumption DEF Open, AlertIds
    <2>2. alerts[o].name = n /\ alerts[o].kind = kind
        OBVIOUS
    <2> QED BY <2>1, <2>2 DEF Collides
<1> HIDE DEF new
<1>5. Create(n, kind) \in [AlertIds -> RowType]
    BY <1>1, <1>2, <1>3
<1>6. /\ Create(n, kind)[NextId] = new
      /\ \A o \in AlertIds \ {NextId} : Create(n, kind)[o] = alerts[o]
    BY <1>1, <1>3
<1>7. OpenIsUnique(Create(n, kind))
    BY <1>4, <1>6 DEF OpenIsUnique
<1> QED BY <1>5, <1>7

LEMMA ChangeKeepsApart ==
    ASSUME alerts \in [AlertIds -> RowType], OpenIsUnique(alerts),
           NEW a, NEW kind \in Kinds, a \in Open => ~ Collides(a, alerts[a].name, kind)
    PROVE  ChangeKind(a, kind) \in [AlertIds -> RowType] /\ OpenIsUnique(ChangeKind(a, kind))
<1>1. CASE a \notin Open
    BY <1>1 DEF ChangeKind
<1>2. CASE a \in Open
    <2>1. a \in AlertIds /\ alerts[a] \in [name: CertNames, kind: Kinds]
        BY <1>2 DEF Open, RowType
    <2> DEFINE new == [alerts[a] EXCEPT !.kind = kind]
    <2>2. new \in RowType /\ new.name = alerts[a].name /\ new.kind = kind
        BY <2>1 DEF RowType
    <2>3. ChangeKind(a, kind) = [alerts EXCEPT ![a] = new]
        BY <1>2 DEF ChangeKind
    <2> HIDE DEF new
    <2>4. \A o \in AlertIds \ {a} : alerts[o] # Closed => alerts[o] # new
        <3> SUFFICES ASSUME NEW o \in AlertIds \ {a}, alerts[o] # Closed, alerts[o] = new
                     PROVE  FALSE
            OBVIOUS
        <3>1. o \in Open \ {a}
            BY DEF Open
        <3>2. alerts[o].name = alerts[a].name /\ alerts[o].kind = kind
            BY <2>2
        <3> QED BY <3>1, <3>2, <1>2 DEF Collides
    <2>5. ChangeKind(a, kind) \in [AlertIds -> RowType]
        BY <2>1, <2>2, <2>3
    <2>6. /\ ChangeKind(a, kind)[a] = new
          /\ \A o \in AlertIds \ {a} : ChangeKind(a, kind)[o] = alerts[o]
        BY <2>1, <2>3
    <2>7. OpenIsUnique(ChangeKind(a, kind))
        BY <2>4, <2>6 DEF OpenIsUnique
    <2> QED BY <2>5, <2>7
<1> QED BY <1>1, <1>2

LEMMA CheckCertificateKeeps ==
    ASSUME CertInv, NEW r \in CertRuns, NEW n \in CertNames, CheckCertificate(r, n)
    PROVE  CertInv'
<1>t. /\ held \in CertRead /\ alerts \in [AlertIds -> RowType] /\ OpenIsUnique(alerts)
      /\ certChanges \in 0..MaxCertChanges /\ certFaults \in 0..MaxCertFaults
      /\ doubled \in BOOLEAN /\ overtaken \subseteq CertRuns
      /\ certRun = [q \in CertRuns |-> certRun[q]]
      /\ CertRunKind(certRun[r])
    BY DEF CertInv
<1> DEFINE b == CertBase[n]
           kind == AlertKind(certRun[r].days[b])
           seen == certRun[r].seen[b]
           done == IF certRun[r].left = {n} THEN CertOff
                   ELSE [certRun[r] EXCEPT !.left = certRun[r].left \ {n}]
<1>1. kind \in Kinds \cup {Valid}
    BY AlertKindTyped
<1>2. CertRunKind(done)
    <2>1. CASE certRun[r].left = {n}
        BY <2>1, CertOffKind
    <2>2. CASE certRun[r].left # {n}
        <3> DEFINE new == [certRun[r] EXCEPT !.left = certRun[r].left \ {n}]
        <3>1. /\ new.at = certRun[r].at /\ new.days = certRun[r].days
              /\ new.seen = certRun[r].seen /\ new \in CertRunType
            BY <1>t DEF CertRunKind, CertRunType
        <3> HIDE DEF new
        <3>2. CertRunKind(new)
            BY <3>1, <1>t DEF CertRunKind
        <3> QED BY <2>2, <3>2 DEF new
    <2> QED BY <2>1, <2>2
<1>3. /\ \/ certRun' = [certRun EXCEPT ![r] = done]
         \/ certRun' = [certRun EXCEPT ![r] = CertOff]
      /\ \/ alerts' = alerts
         \/ alerts' = Resolve(seen.id)
         \/ /\ kind # Valid /\ ~ Collides(0, n, kind) /\ Free # {}
            /\ alerts' = Create(n, kind)
         \/ /\ kind # Valid
            /\ seen.id \in Open => ~ Collides(seen.id, alerts[seen.id].name, kind)
            /\ alerts' = ChangeKind(seen.id, kind)
    <2> HIDE DEF b
    <2> QED BY <1>t DEF CheckCertificate, b
<1>4. /\ UNCHANGED <<held, certChanges, certFaults>> /\ doubled' \in BOOLEAN
      /\ overtaken' \subseteq CertRuns
    <2>1. doubled' = (doubled \/ \E o, p \in AlertIds :
              o # p /\ alerts'[o] # Closed /\ alerts'[o].name = alerts'[p].name)
        BY DEF CheckCertificate
    <2>2. UNCHANGED <<held, certChanges, certFaults>>
        BY DEF CheckCertificate
    <2>3. overtaken' \subseteq CertRuns
        BY <1>t DEF CheckCertificate
    <2> QED BY <2>1, <2>2, <2>3
<1> HIDE DEF done, kind, seen
<1>5. /\ certRun' = [q \in CertRuns |-> certRun'[q]]
      /\ \A q \in CertRuns : CertRunKind(certRun'[q])
    <2>1. CASE certRun' = [certRun EXCEPT ![r] = done]
        BY <2>1, <1>2, CertRunMoves
    <2>2. CASE certRun' = [certRun EXCEPT ![r] = CertOff]
        BY <2>2, CertOffKind, CertRunMoves
    <2> QED BY <1>3, <2>1, <2>2
<1>6. alerts' \in [AlertIds -> RowType] /\ OpenIsUnique(alerts')
    <2>1. kind # Valid => kind \in Kinds
        BY <1>1
    <2> QED BY <1>3, <1>t, <2>1, ResolveKeepsApart, CreateKeepsApart, ChangeKeepsApart
<1>7. held' \in CertRead /\ certChanges' \in 0..MaxCertChanges /\ certFaults' \in 0..MaxCertFaults
    BY <1>4, <1>t
<1> QED BY <1>4, <1>5, <1>6, <1>7 DEF CertInv

LEMMA CertInvNext == CertInv /\ [CertNext]_certVars => CertInv'
<1> SUFFICES ASSUME CertInv, [CertNext]_certVars PROVE CertInv'
    OBVIOUS
<1>t. /\ held \in CertRead /\ alerts \in [AlertIds -> RowType] /\ OpenIsUnique(alerts)
      /\ certChanges \in 0..MaxCertChanges /\ certFaults \in 0..MaxCertFaults
      /\ doubled \in BOOLEAN /\ overtaken \subseteq CertRuns
      /\ certRun = [q \in CertRuns |-> certRun[q]]
      /\ \A r \in CertRuns : CertRunKind(certRun[r])
    BY DEF CertInv
<1>1. CASE UNCHANGED certVars
    BY <1>1, <1>t DEF certVars, CertInv
<1>2. ASSUME NEW b \in Bases, NEW days \in CertDays, CertificateChanges(b, days) PROVE CertInv'
    <2>1. /\ certChanges < MaxCertChanges /\ certChanges' = certChanges + 1
          /\ held' = [held EXCEPT ![b] = days]
          /\ UNCHANGED <<alerts, certRun, certFaults, doubled, overtaken>>
        BY <1>2 DEF CertificateChanges
    <2>2. held' \in CertRead
        BY <2>1, <1>t DEF CertRead
    <2>3. certChanges' \in 0..MaxCertChanges
        BY <2>1, <1>t, CertAssumption
    <2> QED BY <2>1, <2>2, <2>3, <1>t DEF CertInv
<1>3. ASSUME NEW r \in CertRuns, NEW new, CertRunKind(new),
             certRun' = [certRun EXCEPT ![r] = new], certFaults' \in 0..MaxCertFaults,
             overtaken' \subseteq CertRuns, UNCHANGED <<held, alerts, certChanges, doubled>>
      PROVE  CertInv'
    <2>1. /\ certRun' = [q \in CertRuns |-> certRun'[q]]
          /\ \A q \in CertRuns : CertRunKind(certRun'[q])
        BY <1>3, CertRunMoves
    <2>2. /\ held' \in CertRead /\ alerts' \in [AlertIds -> RowType] /\ OpenIsUnique(alerts')
          /\ certChanges' \in 0..MaxCertChanges /\ doubled' \in BOOLEAN
        BY <1>3, <1>t
    <2> QED BY <1>3, <2>1, <2>2 DEF CertInv
<1>4. ASSUME NEW r \in CertRuns, ReadCertificates(r) PROVE CertInv'
    <2> DEFINE new == [certRun[r] EXCEPT !.at = "certs", !.days = held]
    <2>1. certRun[r] = CertOff /\ certRun[r] \in CertRunType
        BY <1>4, <1>t DEF ReadCertificates, CertRunKind
    <2>2. new \in CertRunType /\ new.at = "certs" /\ new.days = held
        BY <2>1, <1>t DEF CertRunType
    <2>3. certRun' = [certRun EXCEPT ![r] = new]
        BY <1>4, <1>t DEF ReadCertificates
    <2>4. CertRunKind(new)
        BY <2>2, <1>t DEF CertRunKind
    <2> HIDE DEF new
    <2> QED BY <2>3, <2>4, <1>3, <1>4, <1>t DEF ReadCertificates
<1>5. ASSUME NEW r \in CertRuns, ReadAlerts(r) PROVE CertInv'
    <2>1. PICK ids \in [Bases -> {0} \cup Open] :
              certRun' = [certRun EXCEPT
                ![r].at = "walk", ![r].left = CertNames,
                ![r].seen = [b \in Bases |-> IF ids[b] = 0 THEN NoneSeen
                                ELSE [id |-> ids[b], kind |-> alerts[ids[b]].kind]]]
        BY <1>5 DEF ReadAlerts
    <2> DEFINE found == [b \in Bases |-> IF ids[b] = 0 THEN NoneSeen
                                ELSE [id |-> ids[b], kind |-> alerts[ids[b]].kind]]
               new == [certRun[r] EXCEPT !.at = "walk", !.left = CertNames, !.seen = found]
    <2>2. found \in [Bases -> SeenType]
        <3> SUFFICES ASSUME NEW b \in Bases PROVE found[b] \in SeenType
            OBVIOUS
        <3>1. CASE ids[b] = 0
            BY <3>1 DEF NoneSeen, SeenType
        <3>2. CASE ids[b] # 0
            <4>1. ids[b] \in Open
                BY <3>2, <2>1
            <4>2. ids[b] \in AlertIds /\ alerts[ids[b]] \in [name: CertNames, kind: Kinds]
                BY <4>1, <1>t DEF Open, RowType
            <4> QED BY <3>2, <4>2 DEF SeenType
        <3> QED BY <3>1, <3>2
    <2> HIDE DEF found
    <2>3. certRun[r].at = "certs" /\ CertRunKind(certRun[r])
        BY <1>5, <1>t DEF ReadAlerts
    <2>4. new \in CertRunType /\ new.at = "walk" /\ new.days = certRun[r].days /\ new.seen = found
        BY <2>2, <2>3 DEF CertRunKind, CertRunType, AlertsSeen
    <2>6. certRun' = [certRun EXCEPT ![r] = new]
        BY <2>1, <1>t DEF found
    <2>7. CertRunKind(new)
        BY <2>2, <2>3, <2>4 DEF CertRunKind, AlertsSeen
    <2> HIDE DEF new
    <2>8. /\ overtaken' \subseteq CertRuns
          /\ UNCHANGED <<held, alerts, certChanges, certFaults, doubled>>
        BY <1>5, <1>t DEF ReadAlerts
    <2> QED BY <2>6, <2>7, <2>8, <1>3, <1>t
<1>6. ASSUME NEW r \in CertRuns, CertRunEnds(r) PROVE CertInv'
    <2>1. certFaults' \in 0..MaxCertFaults
        BY <1>6, <1>t, CertAssumption DEF CertRunEnds
    <2>2. /\ overtaken' \subseteq CertRuns /\ certRun' = [certRun EXCEPT ![r] = CertOff]
          /\ UNCHANGED <<held, alerts, certChanges, doubled>>
        BY <1>6, <1>t DEF CertRunEnds
    <2> QED BY <2>1, <2>2, <1>3, CertOffKind
<1> QED BY <1>1, <1>2, <1>4, <1>5, <1>6, CheckCertificateKeeps DEF CertNext, CertStep

-----------------------------------------------------------------------------
(* What a walk of the compliance watch leaves *)

\* The kinds that a base's open alerts have.
OpenIn(rows, b) == {a \in AlertIds : rows[a] # Closed /\ CertBase[rows[a].name] = b}
KindsIn(rows, b) == {rows[a].kind : a \in OpenIn(rows, b)}

Undisturbed(r) == certRun[r].at = "walk" /\ r \notin overtaken
SeenFor(r, b) == certRun[r].seen[b]

\* The row a run has seen may be closed under it, but is never another base's.
SeenKept ==
    \A r \in CertRuns, b \in Bases : certRun[r].at = "walk" =>
        \/ SeenFor(r, b) = NoneSeen
        \/ /\ SeenFor(r, b).id \in AlertIds
           /\ alerts[SeenFor(r, b).id] # Closed =>
                CertBase[alerts[SeenFor(r, b).id].name] = b

NamesApart ==
    ~ doubled => \A o, p \in AlertIds :
        o # p /\ alerts[o] # Closed /\ alerts[p] # Closed => alerts[o].name # alerts[p].name

\* To what an undisturbed walk has still to do, the alerts are as it has seen them.
LeftAsSeen ==
    ~ doubled => \A r \in CertRuns : Undisturbed(r) => \A n \in certRun[r].left :
        /\ SeenFor(r, CertBase[n]) = NoneSeen =>
             \A o \in AlertIds : alerts[o] # Closed => alerts[o].name # n
        /\ SeenFor(r, CertBase[n]) # NoneSeen /\ CertBase[n] \in SoleBases =>
             /\ alerts[SeenFor(r, CertBase[n]).id] # Closed
             /\ alerts[SeenFor(r, CertBase[n]).id].kind = SeenFor(r, CertBase[n]).kind

\* What it has done shows.
DoneShown ==
    ~ doubled => \A r \in CertRuns : Undisturbed(r) => \A n \in CertNames \ certRun[r].left :
        CertBase[n] \in SoleBases =>
            KindsIn(alerts, CertBase[n]) = {AlertKind(certRun[r].days[CertBase[n]])} \ {Valid}

WalkInv == SeenKept /\ NamesApart /\ LeftAsSeen /\ DoneShown

LEMMA ShowsKinds ==
    ASSUME NEW b, NEW days
    PROVE  /\ Shows(b, days) <=> KindsIn(alerts, b) = {AlertKind(days)} \ {Valid}
           /\ Shows(b, days)' <=> KindsIn(alerts', b) = {AlertKind(days)} \ {Valid}
<1>1. OpenFor(b) = OpenIn(alerts, b) /\ OpenFor(b)' = OpenIn(alerts', b)
    BY DEF OpenFor, Open, OpenIn
<1>2. Shows(b, days) <=> {alerts[a].kind : a \in OpenIn(alerts, b)} = {AlertKind(days)} \ {Valid}
    BY <1>1 DEF Shows
<1>3. Shows(b, days)' <=> {alerts'[a].kind : a \in OpenIn(alerts', b)} = {AlertKind(days)} \ {Valid}
    BY <1>1 DEF Shows
<1> QED BY <1>2, <1>3 DEF KindsIn

\* Rows that agree on a base's open alerts agree on their kinds.
LEMMA SameKinds ==
    ASSUME NEW old, NEW new, NEW b,
           \A a \in AlertIds : old[a] = new[a] \/ (a \notin OpenIn(old, b) /\ a \notin OpenIn(new, b))
    PROVE  KindsIn(new, b) = KindsIn(old, b)
<1>1. OpenIn(new, b) = OpenIn(old, b)
    BY DEF OpenIn
<1>2. \A a \in OpenIn(old, b) : new[a].kind = old[a].kind
    BY <1>1 DEF OpenIn
<1> QED BY <1>1, <1>2 DEF KindsIn

\* A row of a sole base has the one name.
LEMMA SoleName ==
    ASSUME NEW n \in CertNames, CertBase[n] \in SoleBases
    PROVE  CertBase[n] \in Bases /\ \A m \in CertNames : CertBase[m] = CertBase[n] => m = n
BY DEF SoleBases

\* What the check of one certificate does to the rows: one row at most moves.
Refused(r, n) ==
    LET seen == SeenFor(r, CertBase[n])
        kind == AlertKind(certRun[r].days[CertBase[n]])
    IN  /\ kind # Valid
        /\ \/ seen = NoneSeen /\ (Collides(0, n, kind) \/ Free = {})
           \/ /\ seen # NoneSeen /\ kind # seen.kind
              /\ seen.id \in Open /\ Collides(seen.id, alerts[seen.id].name, kind)
Unwritten(r, n) ==
    LET seen == SeenFor(r, CertBase[n])
        kind == AlertKind(certRun[r].days[CertBase[n]])
    IN  /\ alerts' = alerts
        /\ \/ kind = Valid /\ seen = NoneSeen
           \/ kind # Valid /\ seen # NoneSeen /\ kind = seen.kind
           \/ seen # NoneSeen /\ seen.id \notin Open
           \/ Refused(r, n)
Resolved(r, n) ==
    LET a == SeenFor(r, CertBase[n]).id
    IN  /\ SeenFor(r, CertBase[n]) # NoneSeen /\ AlertKind(certRun[r].days[CertBase[n]]) = Valid
        /\ alerts'[a] = Closed
        /\ \A o \in AlertIds \ {a} : alerts'[o] = alerts[o]
Created(r, n) ==
    /\ SeenFor(r, CertBase[n]) = NoneSeen
    /\ AlertKind(certRun[r].days[CertBase[n]]) # Valid
    /\ \E a \in Free :
          /\ alerts'[a] = [name |-> n, kind |-> AlertKind(certRun[r].days[CertBase[n]])]
          /\ \A o \in AlertIds \ {a} : alerts'[o] = alerts[o]
Changed(r, n) ==
    LET a == SeenFor(r, CertBase[n]).id
    IN  /\ SeenFor(r, CertBase[n]) # NoneSeen
        /\ AlertKind(certRun[r].days[CertBase[n]]) # Valid
        /\ alerts[a] # Closed
        /\ alerts'[a].name = alerts[a].name
        /\ alerts'[a].kind = AlertKind(certRun[r].days[CertBase[n]])
        /\ alerts'[a] # Closed
        /\ \A o \in AlertIds \ {a} : alerts'[o] = alerts[o]

LEMMA RowsMove ==
    ASSUME CertInv, SeenKept, NEW r \in CertRuns, NEW n \in CertNames, CheckCertificate(r, n)
    PROVE  Unwritten(r, n) \/ Resolved(r, n) \/ Created(r, n) \/ Changed(r, n)
<1> DEFINE b == CertBase[n]
           kind == AlertKind(certRun[r].days[b])
           seen == certRun[r].seen[b]
<1>1. /\ alerts \in [AlertIds -> RowType]
      /\ b \in Bases /\ certRun[r].at = "walk"
    BY DEF CertInv, Bases, CheckCertificate
<1>2. seen # NoneSeen => seen.id \in AlertIds
    BY <1>1 DEF SeenKept, SeenFor
<1>3. \/ /\ alerts' = alerts
         /\ \/ kind = Valid /\ seen = NoneSeen
            \/ kind # Valid /\ seen # NoneSeen /\ kind = seen.kind
            \/ Refused(r, n)
      \/ kind = Valid /\ seen # NoneSeen /\ alerts' = Resolve(seen.id)
      \/ kind # Valid /\ seen = NoneSeen /\ Free # {} /\ alerts' = Create(n, kind)
      \/ kind # Valid /\ seen # NoneSeen /\ alerts' = ChangeKind(seen.id, kind)
    <2> HIDE DEF b
    <2> QED BY DEF CheckCertificate, Refused, SeenFor, b
<1> HIDE DEF b, kind, seen
<1>4. CASE kind = Valid /\ seen # NoneSeen /\ alerts' = Resolve(seen.id)
    <2>1. alerts'[seen.id] = Closed /\ \A o \in AlertIds \ {seen.id} : alerts'[o] = alerts[o]
        BY <1>1, <1>2, <1>4 DEF Resolve
    <2> QED BY <1>4, <2>1 DEF Resolved, SeenFor, b, kind, seen
<1>5. CASE kind # Valid /\ seen = NoneSeen /\ Free # {} /\ alerts' = Create(n, kind)
    <2>1. NextId \in Free /\ NextId \in AlertIds
        BY <1>5, NextIdIsFree DEF Free
    <2>2. /\ alerts'[NextId] = [name |-> n, kind |-> kind]
          /\ \A o \in AlertIds \ {NextId} : alerts'[o] = alerts[o]
        BY <1>1, <1>5, <2>1 DEF Create
    <2> QED BY <1>5, <2>1, <2>2 DEF Created, SeenFor, b, kind, seen
<1>6. CASE kind # Valid /\ seen # NoneSeen /\ alerts' = ChangeKind(seen.id, kind)
    <2>1. CASE seen.id \notin Open
        BY <1>6, <2>1 DEF ChangeKind, Unwritten, SeenFor, b, kind, seen
    <2>2. CASE seen.id \in Open
        <3>1. alerts' = [alerts EXCEPT ![seen.id].kind = kind]
            BY <1>6, <2>2 DEF ChangeKind
        <3>2. alerts[seen.id] \in [name: CertNames, kind: Kinds] /\ alerts[seen.id] # Closed
            BY <1>1, <1>2, <1>6, <2>2 DEF Open, RowType
        <3>3. alerts'[seen.id] = [alerts[seen.id] EXCEPT !.kind = kind]
            BY <1>1, <1>2, <1>6, <3>1
        <3>4. alerts'[seen.id].name = alerts[seen.id].name /\ alerts'[seen.id].kind = kind
            BY <3>2, <3>3
        <3>5. alerts'[seen.id] # Closed
            BY <1>6, <3>4 DEF Closed
        <3>6. \A o \in AlertIds \ {seen.id} : alerts'[o] = alerts[o]
            BY <1>1, <3>1
        <3> QED BY <1>6, <3>2, <3>4, <3>5, <3>6 DEF Changed, SeenFor, b, kind, seen
    <2> QED BY <2>1, <2>2
<1>7. CASE /\ alerts' = alerts
           /\ \/ kind = Valid /\ seen = NoneSeen
              \/ kind # Valid /\ seen # NoneSeen /\ kind = seen.kind
              \/ Refused(r, n)
    BY <1>7 DEF Unwritten, SeenFor, b, kind, seen
<1> QED BY <1>3, <1>4, <1>5, <1>6, <1>7

\* A row moves only from or to the base that is checked.
LEMMA OtherBasesStay ==
    ASSUME CertInv, SeenKept, NEW r \in CertRuns, NEW n \in CertNames, CheckCertificate(r, n),
           NEW a \in AlertIds, alerts'[a] # alerts[a]
    PROVE  /\ alerts[a] # Closed => CertBase[alerts[a].name] = CertBase[n]
           /\ alerts'[a] # Closed => CertBase[alerts'[a].name] = CertBase[n]
           /\ alerts'[a] # Closed => alerts'[a].name = n \/ alerts'[a].name = alerts[a].name
           /\ alerts[a] # Closed => a = SeenFor(r, CertBase[n]).id
           /\ alerts[a] # Closed /\ alerts'[a] # Closed => alerts'[a].name = alerts[a].name
           /\ alerts[a] = Closed => a \in Free /\ alerts'[a].name = n
<1>1. CertBase[n] \in Bases /\ certRun[r].at = "walk"
    BY DEF Bases, CheckCertificate
<1>2. CASE Unwritten(r, n)
    BY <1>2 DEF Unwritten
<1>3. CASE Resolved(r, n)
    BY <1>1, <1>3 DEF Resolved, SeenKept
<1>4. CASE Created(r, n)
    BY <1>4 DEF Created, Free, Open
<1>5. CASE Changed(r, n)
    BY <1>1, <1>5 DEF Changed, SeenKept
<1> QED BY <1>2, <1>3, <1>4, <1>5, RowsMove

\* An undisturbed walk is refused nothing but by the bound on rows.
LEMMA NotRefused ==
    ASSUME CertInv, WalkInv, ~ doubled, NEW r \in CertRuns, Undisturbed(r),
           NEW n \in certRun[r].left, CheckCertificate(r, n), Free # {}
    PROVE  /\ ~ Refused(r, n)
           /\ certRun' = [certRun EXCEPT ![r] = IF certRun[r].left = {n} THEN CertOff
                                ELSE [certRun[r] EXCEPT !.left = certRun[r].left \ {n}]]
<1> DEFINE b == CertBase[n]
           kind == AlertKind(certRun[r].days[b])
           seen == SeenFor(r, b)
           done == IF certRun[r].left = {n} THEN CertOff
                   ELSE [certRun[r] EXCEPT !.left = certRun[r].left \ {n}]
<1>1. \/ certRun' = [certRun EXCEPT ![r] = done]
      \/ Refused(r, n)
    BY DEF CheckCertificate, Refused, SeenFor
<1>2. ~ Refused(r, n)
    <2>1. ASSUME seen = NoneSeen PROVE ~ Collides(0, n, kind)
        <3>1. \A o \in AlertIds : alerts[o] # Closed => alerts[o].name # n
            BY <2>1 DEF WalkInv, LeftAsSeen
        <3> QED BY <3>1 DEF Collides, Open
    <2>2. ASSUME seen.id \in Open PROVE ~ Collides(seen.id, alerts[seen.id].name, kind)
        <3>1. \A o \in Open \ {seen.id} : alerts[o].name # alerts[seen.id].name
            BY <2>2 DEF WalkInv, NamesApart, Open
        <3> QED BY <3>1 DEF Collides
    <2> QED BY <2>1, <2>2 DEF Refused
<1> QED BY <1>1, <1>2

\* What it does for a certificate shows.
LEMMA CheckShows ==
    ASSUME CertInv, WalkInv, ~ doubled, NEW r \in CertRuns, Undisturbed(r),
           NEW n \in certRun[r].left, CheckCertificate(r, n), ~ Refused(r, n),
           CertBase[n] \in SoleBases
    PROVE  KindsIn(alerts', CertBase[n]) = {AlertKind(certRun[r].days[CertBase[n]])} \ {Valid}
<1> DEFINE b == CertBase[n]
           kind == AlertKind(certRun[r].days[b])
           seen == SeenFor(r, b)
<1>1. /\ certRun[r].at = "walk" /\ n \in CertNames
      /\ b \in Bases /\ \A m \in CertNames : CertBase[m] = b => m = n
      /\ alerts \in [AlertIds -> RowType]
    BY SoleName DEF Undisturbed, CertInv, CertRunKind, CertRunType
<1>2. \A o \in OpenIn(alerts, b) : o \in AlertIds /\ alerts[o] # Closed /\ alerts[o].name = n
    BY <1>1 DEF OpenIn, RowType
<1>3. seen = NoneSeen => OpenIn(alerts, b) = {}
    <2>1. seen = NoneSeen => \A o \in AlertIds : alerts[o] # Closed => alerts[o].name # n
        BY DEF WalkInv, LeftAsSeen
    <2> QED BY <1>2, <2>1
<1>4. seen # NoneSeen => /\ seen.id \in AlertIds /\ alerts[seen.id] # Closed
                         /\ alerts[seen.id].kind = seen.kind
                         /\ OpenIn(alerts, b) = {seen.id}
    <2> SUFFICES ASSUME seen # NoneSeen
                 PROVE  /\ seen.id \in AlertIds /\ alerts[seen.id] # Closed
                        /\ alerts[seen.id].kind = seen.kind
                        /\ OpenIn(alerts, b) = {seen.id}
        OBVIOUS
    <2>1. alerts[seen.id] # Closed /\ alerts[seen.id].kind = seen.kind
        BY DEF WalkInv, LeftAsSeen
    <2>2. seen.id \in AlertIds /\ CertBase[alerts[seen.id].name] = b
        BY <1>1, <2>1 DEF WalkInv, SeenKept
    <2>3. seen.id \in OpenIn(alerts, b)
        BY <2>1, <2>2 DEF OpenIn
    <2>4. \A o \in OpenIn(alerts, b) : o = seen.id
        BY <1>2, <2>3 DEF WalkInv, NamesApart
    <2> QED BY <2>1, <2>2, <2>3, <2>4
<1>n. n \in CertNames /\ SeenKept
    BY <1>1 DEF WalkInv
<1>5. CASE Unwritten(r, n)
    <2>1. \/ kind = Valid /\ seen = NoneSeen
          \/ kind # Valid /\ seen # NoneSeen /\ kind = seen.kind
        <3>1. seen # NoneSeen => seen.id \in Open
            BY <1>4 DEF Open
        <3> QED BY <1>5, <3>1 DEF Unwritten
    <2> QED BY <2>1, <1>3, <1>4, <1>5 DEF Unwritten, KindsIn
<1>6. CASE Resolved(r, n)
    <2>1. seen # NoneSeen /\ kind = Valid /\ alerts'[seen.id] = Closed
          /\ \A o \in AlertIds \ {seen.id} : alerts'[o] = alerts[o]
        BY <1>6 DEF Resolved
    <2>2. OpenIn(alerts', b) = {}
        BY <1>4, <2>1 DEF OpenIn
    <2> QED BY <2>1, <2>2 DEF KindsIn
<1>7. CASE Created(r, n)
    <2>1. PICK a \in Free : /\ alerts'[a] = [name |-> n, kind |-> kind]
                            /\ \A o \in AlertIds \ {a} : alerts'[o] = alerts[o]
        BY <1>7 DEF Created
    <2>2. seen = NoneSeen /\ kind # Valid /\ a \in AlertIds
        BY <1>7, <2>1 DEF Created, Free
    <2>3. alerts'[a] # Closed /\ alerts'[a].name = n /\ alerts'[a].kind = kind
        BY <2>1, <2>2 DEF Closed
    <2>4. OpenIn(alerts', b) = {a}
        BY <1>3, <2>1, <2>2, <2>3 DEF OpenIn
    <2> QED BY <2>2, <2>3, <2>4 DEF KindsIn
<1>8. CASE Changed(r, n)
    <2>1. /\ seen # NoneSeen /\ kind # Valid
          /\ alerts'[seen.id].name = alerts[seen.id].name
          /\ alerts'[seen.id].kind = kind /\ alerts'[seen.id] # Closed
          /\ \A o \in AlertIds \ {seen.id} : alerts'[o] = alerts[o]
        BY <1>8 DEF Changed
    <2>2. OpenIn(alerts', b) = {seen.id}
        BY <1>4, <2>1 DEF OpenIn
    <2> QED BY <2>1, <2>2 DEF KindsIn
<1> QED BY <1>n, <1>5, <1>6, <1>7, <1>8, RowsMove

\* A step that writes no alert and lets no walk begin.
LEMMA WalksStay ==
    ASSUME WalkInv, UNCHANGED <<alerts, doubled, overtaken>>,
           \A q \in CertRuns : certRun'[q].at = "walk" => certRun'[q] = certRun[q]
    PROVE  WalkInv'
<1>1. SeenKept'
    BY DEF WalkInv, SeenKept, SeenFor
<1>2. NamesApart'
    BY DEF WalkInv, NamesApart
<1>3. LeftAsSeen'
    BY DEF WalkInv, LeftAsSeen, SeenFor, Undisturbed
<1>4. ASSUME ~ doubled', NEW q \in CertRuns, Undisturbed(q)', NEW m \in CertNames \ certRun'[q].left,
             CertBase[m] \in SoleBases
      PROVE  KindsIn(alerts', CertBase[m]) = {AlertKind(certRun'[q].days[CertBase[m]])} \ {Valid}
    <2>1. certRun'[q] = certRun[q] /\ Undisturbed(q) /\ ~ doubled
        BY <1>4 DEF Undisturbed
    <2> QED BY <1>4, <2>1 DEF WalkInv, DoneShown
<1>5. DoneShown'
    BY <1>4 DEF DoneShown, KindsIn, OpenIn, SoleBases
<1> QED BY <1>1, <1>2, <1>3, <1>5 DEF WalkInv

LEMMA WalkBegins ==
    ASSUME CertInv, WalkInv, NEW r \in CertRuns, ReadAlerts(r)
    PROVE  WalkInv'
<1>t. alerts \in [AlertIds -> RowType] /\ certRun = [q \in CertRuns |-> certRun[q]]
      /\ CertRunKind(certRun[r])
    BY DEF CertInv
<1>1. PICK ids \in [Bases -> {0} \cup Open] :
          /\ \A b \in Bases : IF OpenFor(b) = {} THEN ids[b] = 0 ELSE ids[b] \in OpenFor(b)
          /\ certRun' = [certRun EXCEPT
                ![r].at = "walk", ![r].left = CertNames,
                ![r].seen = [b \in Bases |-> IF ids[b] = 0 THEN NoneSeen
                                ELSE [id |-> ids[b], kind |-> alerts[ids[b]].kind]]]
    BY DEF ReadAlerts
<1>2. overtaken' = overtaken \ {r} /\ UNCHANGED <<alerts, doubled>>
    BY DEF ReadAlerts
<1>3. /\ \A q \in CertRuns \ {r} : certRun'[q] = certRun[q]
      /\ certRun'[r].left = CertNames
      /\ \A b \in Bases : certRun'[r].seen[b] =
            IF ids[b] = 0 THEN NoneSeen ELSE [id |-> ids[b], kind |-> alerts[ids[b]].kind]
    <2> DEFINE found == [b \in Bases |-> IF ids[b] = 0 THEN NoneSeen
                            ELSE [id |-> ids[b], kind |-> alerts[ids[b]].kind]]
               new == [certRun[r] EXCEPT !.at = "walk", !.left = CertNames, !.seen = found]
    <2>1. certRun' = [certRun EXCEPT ![r] = new]
        BY <1>1, <1>t
    <2> HIDE DEF found
    <2>2. new.left = CertNames /\ new.seen = found
        BY <1>t DEF CertRunKind, CertRunType
    <2> HIDE DEF new
    <2>3. certRun'[r] = new /\ \A q \in CertRuns \ {r} : certRun'[q] = certRun[q]
        BY <1>t, <2>1
    <2> QED BY <2>2, <2>3 DEF found
<1>4. \A b \in Bases :
        \/ /\ certRun'[r].seen[b] = NoneSeen /\ OpenFor(b) = {}
        \/ /\ certRun'[r].seen[b] # NoneSeen
           /\ certRun'[r].seen[b].id \in OpenFor(b)
           /\ certRun'[r].seen[b].kind = alerts[certRun'[r].seen[b].id].kind
    <2> TAKE b \in Bases
    <2>1. 0 \notin AlertIds
        BY CertAssumption DEF AlertIds
    <2>2. CASE ids[b] = 0
        BY <1>1, <1>3, <2>1, <2>2 DEF OpenFor, Open
    <2>3. CASE ids[b] # 0
        <3>1. ids[b] \in OpenFor(b)
            BY <1>1, <2>3
        <3>r. certRun'[r].seen[b] = [id |-> ids[b], kind |-> alerts[ids[b]].kind]
            BY <1>3, <2>3
        <3>2. /\ certRun'[r].seen[b].id = ids[b]
              /\ certRun'[r].seen[b].kind = alerts[ids[b]].kind
            BY <3>r
        <3>3. certRun'[r].seen[b] # NoneSeen
            BY <2>3, <3>2 DEF NoneSeen
        <3> QED BY <3>1, <3>2, <3>3
    <2> QED BY <2>2, <2>3
<1>5. SeenKept'
    <2> SUFFICES ASSUME NEW q \in CertRuns, NEW b \in Bases, certRun'[q].at = "walk"
                 PROVE  \/ certRun'[q].seen[b] = NoneSeen
                        \/ /\ certRun'[q].seen[b].id \in AlertIds
                           /\ alerts[certRun'[q].seen[b].id] # Closed =>
                                CertBase[alerts[certRun'[q].seen[b].id].name] = b
        BY <1>2 DEF SeenKept, SeenFor, Bases
    <2>1. CASE q = r
        BY <1>4, <2>1 DEF OpenFor, Open
    <2>2. CASE q # r
        BY <1>3, <2>2 DEF WalkInv, SeenKept, SeenFor
    <2> QED BY <2>1, <2>2
<1>6. NamesApart'
    BY <1>2 DEF WalkInv, NamesApart
<1>7. LeftAsSeen'
    <2> SUFFICES ASSUME ~ doubled, NEW q \in CertRuns, Undisturbed(q)', NEW n \in certRun'[q].left
                 PROVE  /\ certRun'[q].seen[CertBase[n]] = NoneSeen =>
                             \A o \in AlertIds : alerts[o] # Closed => alerts[o].name # n
                        /\ certRun'[q].seen[CertBase[n]] # NoneSeen /\ CertBase[n] \in SoleBases =>
                             /\ alerts[certRun'[q].seen[CertBase[n]].id] # Closed
                             /\ alerts[certRun'[q].seen[CertBase[n]].id].kind
                                  = certRun'[q].seen[CertBase[n]].kind
        BY <1>2 DEF LeftAsSeen, SeenFor, SoleBases
    <2>1. CASE q = r
        <3>1. CertBase[n] \in Bases
            BY <1>3, <2>1 DEF Bases
        <3> QED BY <1>4, <2>1, <3>1 DEF OpenFor, Open
    <2>2. CASE q # r
        <3>1. certRun'[q] = certRun[q] /\ Undisturbed(q)
            BY <1>2, <1>3, <2>2 DEF Undisturbed
        <3> QED BY <3>1 DEF WalkInv, LeftAsSeen, SeenFor
    <2> QED BY <2>1, <2>2
<1>8. ASSUME ~ doubled', NEW q \in CertRuns, Undisturbed(q)', NEW m \in CertNames \ certRun'[q].left,
             CertBase[m] \in SoleBases
      PROVE  KindsIn(alerts', CertBase[m]) = {AlertKind(certRun'[q].days[CertBase[m]])} \ {Valid}
    <2>1. q # r
        BY <1>3, <1>8
    <2>2. certRun'[q] = certRun[q] /\ Undisturbed(q) /\ ~ doubled
        BY <1>2, <1>3, <1>8, <2>1 DEF Undisturbed
    <2> QED BY <1>2, <1>8, <2>2 DEF WalkInv, DoneShown
<1>9. DoneShown'
    BY <1>8 DEF DoneShown, KindsIn, OpenIn, SoleBases
<1> QED BY <1>5, <1>6, <1>7, <1>9 DEF WalkInv

\* What a check changes of the runs, and whom it disturbs.
LEMMA CheckMoves ==
    ASSUME CertInv, NEW r \in CertRuns, NEW n \in CertNames, CheckCertificate(r, n)
    PROVE  /\ certRun[r].at = "walk" /\ n \in certRun[r].left
           /\ \A q \in CertRuns \ {r} : certRun'[q] = certRun[q]
           /\ certRun'[r].at = "walk" =>
                /\ certRun'[r].days = certRun[r].days /\ certRun'[r].seen = certRun[r].seen
                /\ certRun'[r].left = certRun[r].left \ {n}
           /\ \A q \in CertRuns : Undisturbed(q)' => Undisturbed(q)
           /\ \A q \in CertRuns \ {r} : Undisturbed(q)' => alerts' = alerts
           /\ ~ doubled' => /\ ~ doubled
                            /\ \A o, p \in AlertIds : o # p /\ alerts'[o] # Closed =>
                                  alerts'[o].name # alerts'[p].name
<1> DEFINE done == [certRun[r] EXCEPT !.left = certRun[r].left \ {n}]
<1>1. /\ certRun[r].at = "walk" /\ n \in certRun[r].left
      /\ \/ certRun' = [certRun EXCEPT ![r] = CertOff]
         \/ certRun' = [certRun EXCEPT ![r] = done]
    BY DEF CheckCertificate
<1>2. certRun = [q \in CertRuns |-> certRun[q]] /\ CertRunKind(certRun[r])
    BY DEF CertInv
<1>3. done.days = certRun[r].days /\ done.seen = certRun[r].seen
      /\ done.left = certRun[r].left \ {n}
    BY <1>2 DEF CertRunKind, CertRunType
<1> HIDE DEF done
<1>4. /\ \A q \in CertRuns \ {r} : certRun'[q] = certRun[q]
      /\ certRun'[r].at = "walk" =>
            /\ certRun'[r].days = certRun[r].days /\ certRun'[r].seen = certRun[r].seen
            /\ certRun'[r].left = certRun[r].left \ {n}
    <2>1. CertOff.at # "walk"
        BY DEF CertOff
    <2> QED BY <1>1, <1>2, <1>3, <2>1
<1>5. /\ overtaken' = IF alerts' = alerts THEN overtaken
                      ELSE overtaken \cup {q \in CertRuns \ {r} : certRun[q].at = "walk"}
      /\ doubled' = (doubled \/ \E o, p \in AlertIds :
              o # p /\ alerts'[o] # Closed /\ alerts'[o].name = alerts'[p].name)
    BY DEF CheckCertificate
<1>6. \A q \in CertRuns : Undisturbed(q)' => Undisturbed(q)
    BY <1>1, <1>4, <1>5 DEF Undisturbed
<1>7. \A q \in CertRuns \ {r} : Undisturbed(q)' => alerts' = alerts
    BY <1>4, <1>5 DEF Undisturbed
<1>8. ~ doubled' => /\ ~ doubled
                    /\ \A o, p \in AlertIds : o # p /\ alerts'[o] # Closed =>
                          alerts'[o].name # alerts'[p].name
    BY <1>5
<1> QED BY <1>1, <1>4, <1>6, <1>7, <1>8

\* A write that is refused ends the run.
LEMMA GoesOnUnrefused ==
    ASSUME CertInv, NEW r \in CertRuns, NEW n \in CertNames, CheckCertificate(r, n),
           certRun'[r].at = "walk"
    PROVE  ~ Refused(r, n)
<1>1. Refused(r, n) => certRun' = [certRun EXCEPT ![r] = CertOff]
    BY DEF CheckCertificate, Refused, SeenFor
<1>2. certRun = [q \in CertRuns |-> certRun[q]] /\ CertOff.at # "walk"
    BY DEF CertInv, CertOff
<1> QED BY <1>1, <1>2

LEMMA CheckKeepsWalks ==
    ASSUME CertInv, WalkInv, NEW r \in CertRuns, NEW n \in CertNames, CheckCertificate(r, n)
    PROVE  WalkInv'
<1>1. SeenKept
    BY DEF WalkInv
<1>2. \A q \in CertRuns : certRun'[q].at = "walk" =>
        /\ certRun[q].at = "walk" /\ certRun'[q].seen = certRun[q].seen
        /\ certRun'[q].days = certRun[q].days
        /\ certRun'[q].left = IF q = r THEN certRun[q].left \ {n} ELSE certRun[q].left
    BY CheckMoves
<1>3. SeenKept'
    <2> SUFFICES ASSUME NEW q \in CertRuns, NEW b \in Bases, certRun'[q].at = "walk",
                        certRun'[q].seen[b] # NoneSeen
                 PROVE  /\ certRun'[q].seen[b].id \in AlertIds
                        /\ alerts'[certRun'[q].seen[b].id] # Closed =>
                              CertBase[alerts'[certRun'[q].seen[b].id].name] = b
        BY DEF SeenKept, SeenFor
    <2>0. certRun'[q].seen[b] = SeenFor(q, b)
        BY <1>2 DEF SeenFor
    <2> SUFFICES /\ SeenFor(q, b).id \in AlertIds
                 /\ alerts'[SeenFor(q, b).id] # Closed =>
                        CertBase[alerts'[SeenFor(q, b).id].name] = b
        BY <2>0
    <2> DEFINE a == SeenFor(q, b).id
    <2>1. /\ certRun[q].at = "walk" /\ a \in AlertIds
          /\ alerts[a] # Closed => CertBase[alerts[a].name] = b
        BY <1>1, <1>2, <2>0 DEF SeenKept
    <2>2. a \notin Free
        <3>1. DOMAIN certRun[q].seen = Bases
            BY <2>1 DEF CertInv, CertRunKind, AlertsSeen
        <3> QED BY <3>1 DEF Free, SeenFor
    <2>3. CASE alerts'[a] = alerts[a]
        BY <2>1, <2>3
    <2>4. CASE alerts'[a] # alerts[a]
        <3>1. alerts[a] # Closed /\ (alerts'[a] # Closed => alerts'[a].name = alerts[a].name)
            BY <1>1, <2>1, <2>2, <2>4, OtherBasesStay
        <3> QED BY <2>1, <3>1
    <2> QED BY <2>3, <2>4
<1>4. NamesApart'
    BY CheckMoves DEF NamesApart
<1>5. ASSUME ~ doubled', NEW q \in CertRuns, Undisturbed(q)'
      PROVE  /\ ~ doubled /\ Undisturbed(q) /\ certRun[q].at = "walk" /\ certRun'[q].at = "walk"
             /\ q # r => alerts' = alerts
    BY <1>5, CheckMoves DEF Undisturbed
<1>6. LeftAsSeen'
    <2> SUFFICES ASSUME ~ doubled', NEW q \in CertRuns, Undisturbed(q)', NEW m \in certRun'[q].left
                 PROVE  /\ certRun'[q].seen[CertBase[m]] = NoneSeen =>
                             \A o \in AlertIds : alerts'[o] # Closed => alerts'[o].name # m
                        /\ certRun'[q].seen[CertBase[m]] # NoneSeen /\ CertBase[m] \in SoleBases =>
                             /\ alerts'[certRun'[q].seen[CertBase[m]].id] # Closed
                             /\ alerts'[certRun'[q].seen[CertBase[m]].id].kind
                                  = certRun'[q].seen[CertBase[m]].kind
        BY DEF LeftAsSeen, SeenFor, SoleBases
    <2>0. certRun'[q].seen = certRun[q].seen
        BY <1>2, <1>5
    <2> SUFFICES /\ SeenFor(q, CertBase[m]) = NoneSeen =>
                      \A o \in AlertIds : alerts'[o] # Closed => alerts'[o].name # m
                 /\ SeenFor(q, CertBase[m]) # NoneSeen /\ CertBase[m] \in SoleBases =>
                      /\ alerts'[SeenFor(q, CertBase[m]).id] # Closed
                      /\ alerts'[SeenFor(q, CertBase[m]).id].kind
                           = SeenFor(q, CertBase[m]).kind
        BY <2>0 DEF SeenFor
    <2>1. /\ ~ doubled /\ Undisturbed(q) /\ certRun[q].at = "walk" /\ certRun'[q].at = "walk"
          /\ q # r => alerts' = alerts
        BY <1>5
    <2>2. m \in certRun[q].left /\ (q = r => m # n) /\ m \in CertNames
        BY <1>2, <2>1 DEF CertInv, CertRunKind, CertRunType
    <2>3. /\ SeenFor(q, CertBase[m]) = NoneSeen =>
                \A o \in AlertIds : alerts[o] # Closed => alerts[o].name # m
          /\ SeenFor(q, CertBase[m]) # NoneSeen /\ CertBase[m] \in SoleBases =>
                /\ alerts[SeenFor(q, CertBase[m]).id] # Closed
                /\ alerts[SeenFor(q, CertBase[m]).id].kind = SeenFor(q, CertBase[m]).kind
        BY <2>1, <2>2 DEF WalkInv, LeftAsSeen
    <2>4. CASE q # r
        BY <2>1, <2>3, <2>4
    <2>5. CASE q = r
        <3>1. ASSUME SeenFor(q, CertBase[m]) = NoneSeen, NEW o \in AlertIds, alerts'[o] # Closed
              PROVE  alerts'[o].name # m
            <4>1. CASE alerts'[o] = alerts[o]
                BY <2>3, <3>1, <4>1
            <4>2. CASE alerts'[o] # alerts[o]
                <5>1. CASE alerts[o] # Closed
                    BY <1>1, <2>3, <3>1, <4>2, <5>1, OtherBasesStay
                <5>2. CASE alerts[o] = Closed
                    <6>1. alerts'[o].name = n
                        BY <1>1, <4>2, <5>2, OtherBasesStay
                    <6> QED BY <2>2, <2>5, <6>1
                <5> QED BY <5>1, <5>2
            <4> QED BY <4>1, <4>2
        <3>2. ASSUME SeenFor(q, CertBase[m]) # NoneSeen, CertBase[m] \in SoleBases
              PROVE  alerts'[SeenFor(q, CertBase[m]).id] = alerts[SeenFor(q, CertBase[m]).id]
            <4>1. /\ CertBase[m] \in Bases /\ CertBase[n] # CertBase[m]
                BY <2>2, <2>5, <3>2, SoleName
            <4>2. /\ SeenFor(q, CertBase[m]).id \in AlertIds
                  /\ alerts[SeenFor(q, CertBase[m]).id] # Closed
                  /\ CertBase[alerts[SeenFor(q, CertBase[m]).id].name] = CertBase[m]
                BY <1>1, <2>1, <2>3, <3>2, <4>1 DEF SeenKept
            <4> QED BY <1>1, <4>1, <4>2, OtherBasesStay
        <3> QED BY <2>3, <3>1, <3>2
    <2> QED BY <2>4, <2>5
<1>7. ASSUME ~ doubled', NEW q \in CertRuns, Undisturbed(q)', NEW m \in CertNames \ certRun'[q].left,
             CertBase[m] \in SoleBases
      PROVE  KindsIn(alerts', CertBase[m]) = {AlertKind(certRun'[q].days[CertBase[m]])} \ {Valid}
    <2>1. /\ ~ doubled /\ Undisturbed(q) /\ certRun[q].at = "walk" /\ certRun'[q].at = "walk"
          /\ q # r => alerts' = alerts
        BY <1>5, <1>7
    <2>2. m \notin certRun[q].left \/ (q = r /\ m = n)
        BY <1>2, <1>7, <2>1
    <2>3. certRun'[q].days = certRun[q].days
        BY <1>2, <2>1
    <2>4. m \notin certRun[q].left =>
            KindsIn(alerts, CertBase[m]) = {AlertKind(certRun[q].days[CertBase[m]])} \ {Valid}
        BY <1>7, <2>1 DEF WalkInv, DoneShown
    <2>5. CASE q # r
        BY <2>1, <2>2, <2>3, <2>4, <2>5
    <2>6. CASE q = r /\ m = n
        <3>1. n \in certRun[r].left
            BY CheckMoves
        <3>2. ~ Refused(r, n)
            BY <2>1, <2>6, GoesOnUnrefused
        <3> QED BY <1>7, <2>1, <2>3, <2>6, <3>1, <3>2, CheckShows
    <2>7. CASE q = r /\ m # n
        <3>1. CertBase[n] # CertBase[m]
            BY <1>7, <2>7, SoleName
        <3>2. \A a \in AlertIds : alerts[a] = alerts'[a]
                \/ (a \notin OpenIn(alerts, CertBase[m]) /\ a \notin OpenIn(alerts', CertBase[m]))
            BY <1>1, <3>1, OtherBasesStay DEF OpenIn
        <3>3. KindsIn(alerts', CertBase[m]) = KindsIn(alerts, CertBase[m])
            BY <3>2, SameKinds
        <3> QED BY <2>2, <2>3, <2>4, <2>7, <3>3
    <2> QED BY <2>5, <2>6, <2>7
<1>8. DoneShown'
    BY <1>7 DEF DoneShown, KindsIn, OpenIn, SoleBases
<1> QED BY <1>3, <1>4, <1>6, <1>8 DEF WalkInv

LEMMA WalkInvInit == CertInit => WalkInv
<1> SUFFICES ASSUME CertInit PROVE WalkInv
    OBVIOUS
<1>1. \A r \in CertRuns : certRun[r].at = "off"
    BY DEF CertInit, CertOff
<1>2. \A a \in AlertIds : alerts[a] = Closed
    BY DEF CertInit
<1> QED BY <1>1, <1>2 DEF WalkInv, SeenKept, NamesApart, LeftAsSeen, DoneShown, Undisturbed

LEMMA WalkInvNext == CertInv /\ WalkInv /\ [CertNext]_certVars => WalkInv'
<1> SUFFICES ASSUME CertInv, WalkInv, [CertNext]_certVars PROVE WalkInv'
    OBVIOUS
<1>r. certRun = [q \in CertRuns |-> certRun[q]] /\ CertOff.at # "walk"
    BY DEF CertInv, CertOff
<1>1. CASE UNCHANGED certVars
    BY <1>1, WalksStay DEF certVars
<1>2. ASSUME NEW b \in Bases, NEW days \in CertDays, CertificateChanges(b, days) PROVE WalkInv'
    BY <1>2, WalksStay DEF CertificateChanges
<1>3. ASSUME NEW r \in CertRuns, ReadCertificates(r) PROVE WalkInv'
    <2> DEFINE new == [certRun[r] EXCEPT !.at = "certs", !.days = held]
    <2>1. certRun' = [certRun EXCEPT ![r] = new] /\ CertRunKind(certRun[r])
        BY <1>3, <1>r DEF ReadCertificates, CertInv
    <2>2. new.at = "certs"
        BY <2>1 DEF CertRunKind, CertRunType
    <2> HIDE DEF new
    <2>3. \A q \in CertRuns : certRun'[q].at = "walk" => certRun'[q] = certRun[q]
        BY <1>r, <2>1, <2>2
    <2> QED BY <1>3, <2>3, WalksStay DEF ReadCertificates
<1>4. ASSUME NEW r \in CertRuns, CertRunEnds(r) PROVE WalkInv'
    <2>1. \A q \in CertRuns : certRun'[q].at = "walk" => certRun'[q] = certRun[q]
        BY <1>4, <1>r DEF CertRunEnds
    <2> QED BY <1>4, <2>1, WalksStay DEF CertRunEnds
<1> QED BY <1>1, <1>2, <1>3, <1>4, WalkBegins, CheckKeepsWalks DEF CertNext, CertStep

\* A walk that ends without a fault ends with a check of its own.
LEMMA WalkEndsByCheck ==
    ASSUME CertInv, [CertNext]_certVars, NEW r \in CertRuns,
           certRun[r].at = "walk", certRun'[r] = CertOff, certFaults' = certFaults
    PROVE  \E n \in CertNames : CheckCertificate(r, n)
<1>r. certRun = [q \in CertRuns |-> certRun[q]] /\ CertOff.at # "walk" /\ certFaults \in Nat
    BY CertAssumption DEF CertInv, CertOff
<1>1. ~ UNCHANGED certRun
    BY <1>r
<1>2. ASSUME NEW q \in CertRuns, ReadCertificates(q) PROVE FALSE
    BY <1>2, <1>r DEF ReadCertificates
<1>3. ASSUME NEW q \in CertRuns, ReadAlerts(q) PROVE FALSE
    <2>1. q # r
        BY <1>3 DEF ReadAlerts
    <2> QED BY <1>3, <1>r, <2>1 DEF ReadAlerts
<1>4. ASSUME NEW q \in CertRuns, CertRunEnds(q) PROVE FALSE
    BY <1>4, <1>r DEF CertRunEnds
<1>5. ASSUME NEW q \in CertRuns, NEW n \in CertNames, CheckCertificate(q, n) PROVE q = r
    BY <1>5, <1>r, CheckMoves
<1> QED BY <1>1, <1>2, <1>3, <1>4, <1>5 DEF CertNext, CertStep, certVars, CertificateChanges

LEMMA WalkEndsInEffect ==
    ASSUME CertInv, WalkInv, [CertNext]_certVars, NEW r \in CertRuns
    PROVE  WalkTakesEffect(r)
<1> SUFFICES ASSUME certRun[r].at = "walk", certRun'[r] = CertOff, certFaults' = certFaults,
                    r \notin overtaken, ~ doubled, Free # {}
             PROVE  /\ \E n \in CertNames : certRun[r].left = {n}
                    /\ \A b \in SoleBases, days \in CertDays \cup {NotHeld} :
                          days = certRun[r].days[b] => Shows(b, days)'
    BY DEF WalkTakesEffect
<1>1. PICK n \in CertNames : CheckCertificate(r, n)
    BY WalkEndsByCheck
<1>2. Undisturbed(r) /\ n \in certRun[r].left
    BY <1>1 DEF Undisturbed, CheckCertificate
<1>3. /\ ~ Refused(r, n)
      /\ certRun' = [certRun EXCEPT ![r] = IF certRun[r].left = {n} THEN CertOff
                           ELSE [certRun[r] EXCEPT !.left = certRun[r].left \ {n}]]
    BY <1>1, <1>2, NotRefused
<1>4. certRun[r].left = {n}
    <2> DEFINE new == [certRun[r] EXCEPT !.left = certRun[r].left \ {n}]
    <2>1. CertRunKind(certRun[r]) /\ certRun = [q \in CertRuns |-> certRun[q]]
        BY DEF CertInv
    <2>2. new.at = "walk"
        BY <2>1 DEF CertRunKind, CertRunType
    <2>3. certRun[r].left # {n} => certRun'[r] = new
        BY <1>3, <2>1
    <2> HIDE DEF new
    <2> QED BY <2>2, <2>3 DEF CertOff
<1>5. ASSUME NEW b \in SoleBases
      PROVE  KindsIn(alerts', b) = {AlertKind(certRun[r].days[b])} \ {Valid}
    <2>1. PICK m \in CertNames : CertBase[m] = b
        BY DEF SoleBases, Bases
    <2>2. CASE m = n
        BY <1>1, <1>2, <1>3, <2>1, <2>2, CheckShows
    <2>3. CASE m # n
        <3>1. KindsIn(alerts, b) = {AlertKind(certRun[r].days[b])} \ {Valid}
            BY <1>2, <1>4, <2>1, <2>3 DEF WalkInv, DoneShown
        <3>2. CertBase[n] # b
            BY <2>1, <2>3, SoleName
        <3>3. \A a \in AlertIds : alerts[a] = alerts'[a]
                \/ (a \notin OpenIn(alerts, b) /\ a \notin OpenIn(alerts', b))
            BY <1>1, <2>1, <3>2, OtherBasesStay DEF OpenIn, WalkInv
        <3>4. KindsIn(alerts', b) = KindsIn(alerts, b)
            BY <3>3, SameKinds
        <3> QED BY <3>1, <3>4
    <2> QED BY <2>2, <2>3
<1> QED BY <1>4, <1>5, ShowsKinds

-----------------------------------------------------------------------------
LEMMA AgentsParts ==
    AgentsSpec => RenewalSpec /\ TriageSpec /\ MemorySpec /\ LawSpec /\ CertSpec
<1>1. AgentsInit => RenewalInit /\ TriageInit /\ MemoryInit /\ LawInit /\ CertInit
    BY DEF AgentsInit
<1>2. [AgentsNext]_agentVars =>
        /\ [RenewalNext]_renewalVars /\ [TriageNext]_triageVars
        /\ [MemoryNext]_memoryVars /\ [LawNext]_lawVars /\ [CertNext]_certVars
    BY DEF AgentsNext, agentVars
<1> QED BY <1>1, <1>2, PTL
        DEF AgentsSpec, RenewalSpec, TriageSpec, MemorySpec, LawSpec, CertSpec

(* The state of every agent is well typed, alone and in the run that         *)
(* explores all five; an open alert is the only one of its name and kind.    *)
THEOREM AgentsTypeCorrect == AgentsSpec => []AgentsTypeOK
<1>1. MemorySpec => []MemoryTypeOK
    BY MemoryTypeInit, MemoryTypeNext, PTL DEF MemorySpec
<1>2. LawSpec => []LawTypeOK
    BY LawTypeInit, LawTypeNext, LawInvHolds, PTL DEF LawSpec
<1>3. CertSpec => []CertTypeOK
    BY CertInvTyped, CertInvInit, CertInvNext, PTL DEF CertSpec
<1> QED BY <1>1, <1>2, <1>3, RenewalTypeCorrect, TriageTypeCorrect, AgentsParts, PTL DEF AgentsTypeOK

(* Every walk of the compliance watch that goes to its end undisturbed leaves *)
(* on record what it read, for any certificates, runs and expiry dates.       *)
THEOREM WalksAlwaysTakeEffect == CertSpec => WalksTakeEffect
<1>1. CertInv /\ CertInv' /\ WalkInv /\ [CertNext]_certVars
        => [\A r \in CertRuns : WalkTakesEffect(r)]_certVars
    BY WalkEndsInEffect
<1> QED BY <1>1, CertInvInit, CertInvNext, WalkInvInit, WalkInvNext, PTL DEF CertSpec, WalksTakeEffect
=============================================================================
