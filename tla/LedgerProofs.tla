---------------------------- MODULE LedgerProofs ----------------------------
(***************************************************************************)
(* Proofs about what a tenant owes: the arrears ladder has one open case   *)
(* and sends one reminder for it, and the charges have neither a hole nor  *)
(* a double. For any calendar, classes of units, days and runs. With       *)
(* MoneyProofs, all that MCLedger explores is well typed.                  *)
(***************************************************************************)
EXTENDS MCLedger, MoneyProofs

-----------------------------------------------------------------------------
(* The ladder itself.                                                       *)
-----------------------------------------------------------------------------
LEMMA LadderRungs ==
    ASSUME NEW k \in UnitClasses
    PROVE  \E n \in Nat : DOMAIN Ladder[k] = 1..n
<1>1. k \in {"supported", "residential", "commercial"}
    BY ArrearsAssumption
<1>2. CASE k = "supported"
    <2>1. DOMAIN Ladder[k] = 1..5
        BY <1>2 DEF Ladder
    <2> QED BY <2>1
<1>3. CASE k = "residential"
    <2>1. DOMAIN Ladder[k] = 1..4
        BY <1>3 DEF Ladder
    <2> QED BY <2>1
<1>4. CASE k = "commercial"
    <2>1. DOMAIN Ladder[k] = 1..5
        BY <1>4 DEF Ladder
    <2> QED BY <2>1
<1> QED BY <1>1, <1>2, <1>3, <1>4

\* A rung that is reached is a rung of the class.
LEMMA RungIsRung ==
    ASSUME NEW k \in UnitClasses, NEW d
    PROVE  /\ RungForDays(k, d) \in Nat
           /\ RungForDays(k, d) > 0 => RungForDays(k, d) \in DOMAIN Ladder[k]
<1> DEFINE reached == {i \in DOMAIN Ladder[k] : Ladder[k][i][1] <= d}
<1>1. PICK n \in Nat : DOMAIN Ladder[k] = 1..n
    BY LadderRungs
<1>2. IsFiniteSet(1..n) /\ Cardinality(1..n) = n
    BY FS_Interval
<1>3. reached \subseteq 1..n
    BY <1>1
<1>4. IsFiniteSet(reached) /\ Cardinality(reached) <= n
    BY <1>2, <1>3, FS_Subset
<1>5. Cardinality(reached) \in Nat
    BY <1>4, FS_CardinalityType
<1>6. RungForDays(k, d) = Cardinality(reached)
    BY DEF RungForDays
<1> HIDE DEF reached
<1> QED BY <1>1, <1>4, <1>5, <1>6

\* Only the reminder goes out by itself.
LEMMA OnlyReminderIsSent ==
    ASSUME NEW r, ladderRun[r].class \in UnitClasses, Emails(r)
    PROVE  ladderRun[r].stage = "reminder"
<1> DEFINE k == ladderRun[r].class
           s == ladderRun[r].stage
<1>1. s \in {"reminder", "formal_letter"} /\ StageIndex(k, s) = 1
    BY DEF Emails, TenantFacing, NeedsApproval
<1>2. k \in {"supported", "residential", "commercial"}
    BY ArrearsAssumption
<1> HIDE DEF k, s
<1>3. 1 \in DOMAIN Ladder[k] /\ Ladder[k][1][2] = s
    <2>1. \E i \in DOMAIN Ladder[k] : Ladder[k][i][2] = s
        BY <1>1 DEF StageIndex
    <2> QED BY <1>1, <2>1 DEF StageIndex
<1>4. s # "formal_letter"
    <2>1. CASE k = "supported"
        BY <2>1, <1>3 DEF Ladder
    <2>2. CASE k = "residential"
        BY <2>2, <1>3 DEF Ladder
    <2>3. CASE k = "commercial"
        BY <2>3, <1>3 DEF Ladder
    <2> QED BY <1>2, <2>1, <2>2, <2>3
<1> QED BY <1>1, <1>4 DEF s

-----------------------------------------------------------------------------
(* The arrears ladder.                                                      *)
-----------------------------------------------------------------------------
CaseType == {Unopened} \cup [open: BOOLEAN, stage: Stages]
LadderRunType == {Idle} \cup Knows

\* What a run past the choice of the case knows of it.
HasItsCase ==
    \A r \in LadderRuns : ladderRun[r].at \in {"event", "drafted", "sent"} =>
        ladderRun[r].case \in CaseIds /\ ladderRun[r].stage \in Stages

\* A run that has found no case is right, and there is one.
OneIsOpen ==
    ~ lookedTwice =>
        /\ \A c, d \in OpenCases : c = d
        /\ \A r \in LadderRuns :
              At(r, "case") /\ ladderRun[r].case = NoCase => OpenCases = {}

\* A run is at the reminder of a case.
Reminds(run, c) ==
    run.at \in {"drafted", "sent"} /\ run.case = c /\ run.stage = "reminder"
\* One run is at it, before its event is recorded; what went out has its event,
\* or the run that sent it is about to record it.
ReminderInStep ==
    \A c \in CaseIds \ sentTwice :
        /\ \A r, q \in LadderRuns :
              Reminds(ladderRun[r], c) /\ Reminds(ladderRun[q], c) => r = q
        /\ \A r \in LadderRuns : Reminds(ladderRun[r], c) =>
              /\ events[c]["reminder"] = 0
              /\ ladderRun[r].at = "drafted" => reminders[c] = 0
        /\ reminders[c] <= 1
        /\ reminders[c] > 0 =>
              /\ "reminder" \in Stages
              /\ \/ events[c]["reminder"] > 0
                 \/ \E r \in LadderRuns : Reminds(ladderRun[r], c) /\ ladderRun[r].at = "sent"

ArrearsInv == ArrearsTypeOK /\ HasItsCase /\ OneIsOpen /\ ReminderInStep

LEMMA ArrearsInvInit == ArrearsInit => ArrearsInv
<1> SUFFICES ASSUME ArrearsInit PROVE ArrearsInv
    OBVIOUS
<1>1. ArrearsTypeOK
    <2>1. upsets \in 0..MaxUpsets
        BY ArrearsAssumption DEF ArrearsInit
    <2>2. /\ cases \in [CaseIds -> {Unopened} \cup [open: BOOLEAN, stage: Stages]]
          /\ events \in [CaseIds -> [Stages -> Nat]] /\ reminders \in [CaseIds -> Nat]
        BY DEF ArrearsInit
    <2>3. ladderRun \in [LadderRuns -> {Idle} \cup Knows]
        BY DEF ArrearsInit
    <2> QED BY <2>1, <2>2, <2>3 DEF ArrearsInit, ArrearsTypeOK
<1>2. \A r \in LadderRuns : ladderRun[r].at = "idle"
    BY DEF ArrearsInit, Idle
<1>3. OpenCases = {}
    BY DEF ArrearsInit, OpenCases, Unopened
<1>4. HasItsCase /\ OneIsOpen
    BY <1>2, <1>3 DEF HasItsCase, OneIsOpen, At
<1>5. ReminderInStep
    BY <1>2 DEF ArrearsInit, ReminderInStep, Reminds
<1> QED BY <1>1, <1>4, <1>5 DEF ArrearsInv

\* What a run that is not idle knows.
LEMMA LadderRunKnows ==
    ASSUME ArrearsInv, NEW r \in LadderRuns
    PROVE  /\ ladderRun[r] \in LadderRunType
           /\ ladderRun[r].at = "idle" => ladderRun[r] = Idle
           /\ ladderRun[r].at # "idle" => ladderRun[r] \in Knows
<1>1. ladderRun[r] \in LadderRunType
    BY DEF ArrearsInv, ArrearsTypeOK, LadderRunType
<1>2. Idle.at = "idle" /\ \A k \in Knows : k.at # "idle"
    BY DEF Idle, Knows
<1> QED BY <1>1, <1>2 DEF LadderRunType

\* A step of one run that touches neither cases nor letters, and does not come
\* to have found no case.
LEMMA QuietLadderStep ==
    ASSUME ArrearsInv, NEW r \in LadderRuns, NEW new \in LadderRunType,
           ladderRun' = [ladderRun EXCEPT ![r] = new],
           new.at \notin {"drafted", "sent"},
           ladderRun[r].at \notin {"sent"},
           new.at = "case" /\ new.case = NoCase => OpenCases = {},
           new.at = "event" => new.case \in CaseIds /\ new.stage \in Stages,
           cases' \in [CaseIds -> CaseType], OpenCases' \subseteq OpenCases,
           UNCHANGED <<debt, unitClass, events, reminders, lookedTwice, sentTwice>>,
           upsets' \in 0..MaxUpsets
    PROVE  ArrearsInv'
<1>t. ArrearsTypeOK /\ HasItsCase /\ OneIsOpen /\ ReminderInStep
    BY DEF ArrearsInv
<1>d. ladderRun \in [LadderRuns -> LadderRunType]
    BY <1>t DEF ArrearsTypeOK, LadderRunType
<1>1. /\ ladderRun'[r] = new
      /\ \A q \in LadderRuns \ {r} : ladderRun'[q] = ladderRun[q]
      /\ ladderRun' \in [LadderRuns -> LadderRunType]
    BY <1>d
<1>2. ArrearsTypeOK'
    BY <1>1, <1>t DEF ArrearsTypeOK, CaseType, LadderRunType
<1>3. HasItsCase'
    BY <1>1, <1>t DEF HasItsCase
<1>4. OneIsOpen'
    <2> SUFFICES ASSUME ~ lookedTwice PROVE OneIsOpen'
        BY DEF OneIsOpen
    <2>1. \A c, d \in OpenCases' : c = d
        BY <1>t DEF OneIsOpen
    <2>2. \A q \in LadderRuns :
            ladderRun'[q].at = "case" /\ ladderRun'[q].case = NoCase => OpenCases' = {}
        BY <1>1, <1>t DEF OneIsOpen, At
    <2> QED BY <2>1, <2>2 DEF OneIsOpen, At
<1>5. ReminderInStep'
    <2>1. \A c : ~ Reminds(ladderRun'[r], c)
        BY <1>1 DEF Reminds
    <2>2. ASSUME NEW c \in CaseIds \ sentTwice
          PROVE  /\ \A p, q \in LadderRuns :
                       Reminds(ladderRun'[p], c) /\ Reminds(ladderRun'[q], c) => p = q
                 /\ \A q \in LadderRuns : Reminds(ladderRun'[q], c) =>
                       /\ events[c]["reminder"] = 0
                       /\ ladderRun'[q].at = "drafted" => reminders[c] = 0
        BY <1>1, <2>1, <2>2, <1>t DEF ReminderInStep
    <2>3. ASSUME NEW c \in CaseIds \ sentTwice
          PROVE  /\ reminders[c] <= 1
                 /\ reminders[c] > 0 =>
                      /\ "reminder" \in Stages
                      /\ \/ events[c]["reminder"] > 0
                         \/ \E q \in LadderRuns : Reminds(ladderRun'[q], c) /\ ladderRun'[q].at = "sent"
        BY <1>1, <2>3, <1>t DEF ReminderInStep
    <2> QED BY <2>2, <2>3 DEF ReminderInStep
<1> QED BY <1>2, <1>3, <1>4, <1>5 DEF ArrearsInv

LEMMA IdleShape == Idle \in LadderRunType /\ Idle.at = "idle"
BY DEF LadderRunType, Idle

LEMMA UnopenedShape ==
    /\ Unopened \in [open: {FALSE}, stage: {NoStage}]
    /\ \A o \in [open: {FALSE}, stage: {NoStage}] : o = Unopened
<1>1. Unopened \in [open: {FALSE}, stage: {NoStage}]
    BY DEF Unopened
<1>2. ASSUME NEW o, o \in [open: {FALSE}, stage: {NoStage}] PROVE o = Unopened
    BY <1>2 DEF Unopened
<1> QED BY <1>1, <1>2

LEMMA NoCaseIsNone == NoCase \notin CaseIds
BY ArrearsAssumption DEF NoCase, CaseIds

\* The stage a run opens or advances a case to.
LEMMA RungStageTyped ==
    ASSUME NEW r \in LadderRuns, ladderRun[r] \in Knows, Owing(r)
    PROVE  RungStage(r) \in Stages
<1>1. ladderRun[r].class \in UnitClasses
    BY DEF Knows
<1>2. Rung(r) \in DOMAIN Ladder[ladderRun[r].class]
    BY <1>1, RungIsRung DEF Owing, Rung
<1> QED BY <1>1, <1>2 DEF RungStage, Stages

LEMMA ReadArrearsKeeps ==
    ASSUME ArrearsInv, NEW r \in LadderRuns, ReadArrears(r)
    PROVE  ArrearsInv'
<1>t. ArrearsTypeOK
    BY DEF ArrearsInv
<1> DEFINE new == [at |-> "row", days |-> debt, class |-> unitClass, case |-> NoCase,
                   stage |-> NoStage]
<1>1. new \in LadderRunType /\ new.at = "row"
    BY <1>t DEF LadderRunType, Knows, ArrearsTypeOK
<1>2. ladderRun' = [ladderRun EXCEPT ![r] = new]
    BY DEF ReadArrears
<1>3. /\ cases' \in [CaseIds -> CaseType] /\ upsets' \in 0..MaxUpsets
      /\ OpenCases' \subseteq OpenCases
    BY <1>t DEF ReadArrears, ArrearsTypeOK, CaseType, OpenCases
<1> HIDE DEF new
<1> QED BY <1>1, <1>2, <1>3, QuietLadderStep DEF ReadArrears, At

LEMMA FindCaseKeeps ==
    ASSUME ArrearsInv, NEW r \in LadderRuns, FindCase(r)
    PROVE  ArrearsInv'
<1>t. ArrearsTypeOK
    BY DEF ArrearsInv
<1>k. ladderRun[r] \in Knows /\ ladderRun[r].at = "row"
    BY LadderRunKnows DEF FindCase, At
<1>3. /\ cases' \in [CaseIds -> CaseType] /\ upsets' \in 0..MaxUpsets
      /\ OpenCases' \subseteq OpenCases
    BY <1>t DEF FindCase, ArrearsTypeOK, CaseType, OpenCases
<1>4. CASE OpenCases = {}
    <2> DEFINE new == [ladderRun[r] EXCEPT !.at = "case"]
    <2>1. new \in LadderRunType /\ new.at = "case"
        BY <1>k DEF LadderRunType, Knows
    <2>2. ladderRun' = [ladderRun EXCEPT ![r] = new]
        BY <1>4, <1>t DEF FindCase, Found, Goes, ArrearsTypeOK
    <2> HIDE DEF new
    <2> QED BY <1>k, <1>3, <1>4, <2>1, <2>2, QuietLadderStep DEF FindCase
<1>5. CASE OpenCases # {}
    <2>1. PICK c \in OpenCases :
              ladderRun' = [ladderRun EXCEPT ![r].at = "case", ![r].case = c,
                                             ![r].stage = cases[c].stage]
        BY <1>5 DEF FindCase, Found
    <2>2. c \in CaseIds /\ cases[c].stage \in Stages
        BY <2>1, <1>t DEF OpenCases, ArrearsTypeOK, Unopened
    <2> DEFINE new == [ladderRun[r] EXCEPT !.at = "case", !.case = c, !.stage = cases[c].stage]
    <2>3. new \in LadderRunType /\ new.at = "case" /\ new.case = c
        BY <1>k, <2>2 DEF LadderRunType, Knows
    <2>4. ladderRun' = [ladderRun EXCEPT ![r] = new]
        BY <2>1, <1>t DEF ArrearsTypeOK
    <2>5. new.case # NoCase
        BY <2>2, <2>3, NoCaseIsNone
    <2> HIDE DEF new
    <2> QED BY <1>k, <1>3, <2>3, <2>4, <2>5, QuietLadderStep DEF FindCase
<1> QED BY <1>4, <1>5

LEMMA CloseCaseKeeps ==
    ASSUME ArrearsInv, NEW r \in LadderRuns, CloseCase(r)
    PROVE  ArrearsInv'
<1>t. ArrearsTypeOK
    BY DEF ArrearsInv
<1>k. ladderRun[r] \in Knows /\ ladderRun[r].at = "case"
    BY LadderRunKnows DEF CloseCase, At
<1>1. PICK c \in CaseIds : ladderRun[r].case = c
    BY <1>k DEF CloseCase, Knows
<1>2. cases' = [cases EXCEPT ![c].open = FALSE]
    BY <1>1 DEF CloseCase
<1>3. cases' \in [CaseIds -> CaseType] /\ OpenCases' \subseteq OpenCases
    <2> DEFINE closed == [cases[c] EXCEPT !.open = FALSE]
    <2>1. cases \in [CaseIds -> CaseType]
        BY <1>t DEF ArrearsTypeOK, CaseType
    <2>2. cases' = [cases EXCEPT ![c] = closed]
        BY <1>2, <2>1
    <2>3. closed \in CaseType /\ ~ closed.open
        <3>1. CASE cases[c] = Unopened
            <4>1. closed \in [open: {FALSE}, stage: {NoStage}]
                BY <3>1, UnopenedShape
            <4>2. closed = Unopened
                BY <4>1, UnopenedShape
            <4> QED BY <4>1, <4>2 DEF CaseType
        <3>2. CASE cases[c] \in [open: BOOLEAN, stage: Stages]
            <4>1. closed \in [open: BOOLEAN, stage: Stages] /\ closed.open = FALSE
                BY <3>2
            <4> QED BY <4>1 DEF CaseType
        <3> QED BY <2>1, <3>1, <3>2 DEF CaseType
    <2> HIDE DEF closed
    <2>4. cases'[c] = closed /\ \A d \in CaseIds \ {c} : cases'[d] = cases[d]
        BY <2>1, <2>2
    <2>5. cases' \in [CaseIds -> CaseType]
        BY <2>1, <2>2, <2>3
    <2>6. OpenCases' \subseteq OpenCases
        BY <2>3, <2>4 DEF OpenCases
    <2> QED BY <2>5, <2>6
<1>4. upsets' \in 0..MaxUpsets
    BY <1>t DEF CloseCase, ArrearsTypeOK
<1> QED BY <1>k, <1>3, <1>4, IdleShape, QuietLadderStep DEF CloseCase, Ends

LEMMA LeaveCaseKeeps ==
    ASSUME ArrearsInv, NEW r \in LadderRuns, LeaveCase(r)
    PROVE  ArrearsInv'
<1>t. ArrearsTypeOK
    BY DEF ArrearsInv
<1>1. /\ cases' \in [CaseIds -> CaseType] /\ upsets' \in 0..MaxUpsets
      /\ OpenCases' \subseteq OpenCases
    BY <1>t DEF LeaveCase, ArrearsTypeOK, CaseType, OpenCases
<1> QED BY <1>1, IdleShape, QuietLadderStep DEF LeaveCase, Ends, At

LEMMA AdvanceCaseKeeps ==
    ASSUME ArrearsInv, NEW r \in LadderRuns, AdvanceCase(r)
    PROVE  ArrearsInv'
<1>t. ArrearsTypeOK
    BY DEF ArrearsInv
<1>k. ladderRun[r] \in Knows /\ ladderRun[r].at = "case"
    BY LadderRunKnows DEF AdvanceCase, At
<1>1. PICK c \in CaseIds : ladderRun[r].case = c
    BY <1>k DEF AdvanceCase, Knows
<1>2. PICK s \in Stages : RungStage(r) = s
    BY <1>k, RungStageTyped DEF AdvanceCase
<1>3. cases' \in [CaseIds -> CaseType] /\ OpenCases' \subseteq OpenCases
    <2> DEFINE moved == [cases[c] EXCEPT !.stage = s]
    <2>1. cases \in [CaseIds -> CaseType]
        BY <1>t DEF ArrearsTypeOK, CaseType
    <2>2. cases' = cases \/ cases' = [cases EXCEPT ![c] = moved]
        BY <1>1, <1>2, <2>1 DEF AdvanceCase
    <2>3. moved \in CaseType /\ (moved.open => cases[c].open)
        <3>1. CASE cases[c] = Unopened
            <4>1. moved \in [open: {FALSE}, stage: {s}]
                BY <3>1, UnopenedShape
            <4> QED BY <4>1 DEF CaseType
        <3>2. CASE cases[c] \in [open: BOOLEAN, stage: Stages]
            <4>1. moved \in [open: BOOLEAN, stage: Stages] /\ moved.open = cases[c].open
                BY <3>2
            <4> QED BY <4>1 DEF CaseType
        <3> QED BY <2>1, <3>1, <3>2 DEF CaseType
    <2> HIDE DEF moved
    <2>4. CASE cases' = cases
        BY <2>1, <2>4 DEF OpenCases
    <2>5. CASE cases' = [cases EXCEPT ![c] = moved]
        <3>1. cases'[c] = moved /\ \A d \in CaseIds \ {c} : cases'[d] = cases[d]
            BY <2>1, <2>5
        <3>2. cases' \in [CaseIds -> CaseType]
            BY <2>1, <2>3, <2>5
        <3>3. OpenCases' \subseteq OpenCases
            BY <2>3, <3>1 DEF OpenCases
        <3> QED BY <3>2, <3>3
    <2> QED BY <2>2, <2>4, <2>5
<1> DEFINE new == [ladderRun[r] EXCEPT !.at = "event", !.stage = s]
<1>4. /\ new \in LadderRunType /\ new.at = "event" /\ new.case = c /\ new.stage = s
    BY <1>k, <1>1 DEF LadderRunType, Knows
<1>5. ladderRun' = [ladderRun EXCEPT ![r] = new]
    BY <1>2, <1>t DEF AdvanceCase, ArrearsTypeOK
<1>6. upsets' \in 0..MaxUpsets
    BY <1>t DEF AdvanceCase, ArrearsTypeOK
<1> HIDE DEF new
<1> QED BY <1>k, <1>3, <1>4, <1>5, <1>6, QuietLadderStep DEF AdvanceCase

LEMMA OpenCaseKeeps ==
    ASSUME ArrearsInv, NEW r \in LadderRuns, OpenCase(r)
    PROVE  ArrearsInv'
<1>t. ArrearsTypeOK /\ HasItsCase /\ OneIsOpen /\ ReminderInStep
    BY DEF ArrearsInv
<1>k. ladderRun[r] \in Knows /\ ladderRun[r].at = "case" /\ ladderRun[r].case = NoCase
    BY LadderRunKnows DEF OpenCase, At
<1>1. PICK s \in Stages : RungStage(r) = s
    BY <1>k, RungStageTyped DEF OpenCase
<1>2. PICK c \in CaseIds :
        /\ cases' = [cases EXCEPT ![c] = NewCase(s)]
        /\ ladderRun' = [ladderRun EXCEPT ![r].at = "event", ![r].case = c, ![r].stage = s]
    BY <1>1 DEF OpenCase
<1> DEFINE new == [ladderRun[r] EXCEPT !.at = "event", !.case = c, !.stage = s]
<1>s. /\ lookedTwice' = (lookedTwice \/
            \E q \in LadderRuns \ {r} : At(q, "case") /\ ladderRun[q].case = NoCase)
      /\ UNCHANGED <<debt, unitClass, events, reminders, upsets, sentTwice>>
    BY DEF OpenCase
<1>d. ladderRun \in [LadderRuns -> LadderRunType]
    BY <1>t DEF ArrearsTypeOK, LadderRunType
<1>3. /\ new \in LadderRunType /\ new.at = "event" /\ new.case = c /\ new.stage = s
    BY <1>k DEF LadderRunType, Knows
<1>4. ladderRun' = [ladderRun EXCEPT ![r] = new]
    BY <1>2, <1>d
<1> HIDE DEF new
<1>5. /\ ladderRun'[r] = new
      /\ \A q \in LadderRuns \ {r} : ladderRun'[q] = ladderRun[q]
      /\ ladderRun' \in [LadderRuns -> LadderRunType]
    BY <1>3, <1>4, <1>d
<1>6. NewCase(s) \in CaseType
    BY DEF NewCase, CaseType
<1>7. ArrearsTypeOK'
    <2>1. cases' \in [CaseIds -> CaseType]
        BY <1>2, <1>6, <1>t DEF ArrearsTypeOK, CaseType
    <2>2. lookedTwice' \in BOOLEAN
        BY <1>s
    <2> QED BY <2>1, <2>2, <1>5, <1>s, <1>t DEF ArrearsTypeOK, CaseType, LadderRunType
<1>8. HasItsCase'
    BY <1>3, <1>5, <1>t DEF HasItsCase
<1>9. OneIsOpen'
    <2> SUFFICES ASSUME ~ lookedTwice' PROVE OneIsOpen'
        BY DEF OneIsOpen
    <2>1. /\ ~ lookedTwice
          /\ \A q \in LadderRuns \ {r} : ~ (ladderRun[q].at = "case" /\ ladderRun[q].case = NoCase)
        BY <1>s DEF At
    <2>2. OpenCases = {}
        BY <2>1, <1>k, <1>t DEF OneIsOpen, At
    <2>3. OpenCases' \subseteq {c}
        <3>1. \A d \in CaseIds \ {c} : cases'[d] = cases[d]
            BY <1>2, <1>t DEF ArrearsTypeOK
        <3> QED BY <2>2, <3>1 DEF OpenCases
    <2>4. \A q \in LadderRuns : ~ (ladderRun'[q].at = "case" /\ ladderRun'[q].case = NoCase)
        BY <2>1, <1>3, <1>5
    <2> QED BY <2>3, <2>4 DEF OneIsOpen, At
<1>10. ReminderInStep'
    <2>1. \A e : ~ Reminds(ladderRun[r], e) /\ ~ Reminds(ladderRun'[r], e)
        BY <1>k, <1>3, <1>5 DEF Reminds
    <2>2. ASSUME NEW e \in CaseIds \ sentTwice
          PROVE  /\ \A p, q \in LadderRuns :
                       Reminds(ladderRun'[p], e) /\ Reminds(ladderRun'[q], e) => p = q
                 /\ \A q \in LadderRuns : Reminds(ladderRun'[q], e) =>
                       /\ events[e]["reminder"] = 0
                       /\ ladderRun'[q].at = "drafted" => reminders[e] = 0
        BY <1>5, <2>1, <2>2, <1>t DEF ReminderInStep
    <2>3. ASSUME NEW e \in CaseIds \ sentTwice
          PROVE  /\ reminders[e] <= 1
                 /\ reminders[e] > 0 =>
                      /\ "reminder" \in Stages
                      /\ \/ events[e]["reminder"] > 0
                         \/ \E q \in LadderRuns : Reminds(ladderRun'[q], e) /\ ladderRun'[q].at = "sent"
        BY <1>5, <2>1, <2>3, <1>t DEF ReminderInStep
    <2> QED BY <2>2, <2>3, <1>s DEF ReminderInStep
<1> QED BY <1>7, <1>8, <1>9, <1>10 DEF ArrearsInv

LEMMA DraftKeeps ==
    ASSUME ArrearsInv, NEW r \in LadderRuns, Draft(r)
    PROVE  ArrearsInv'
<1>t. ArrearsTypeOK /\ HasItsCase /\ OneIsOpen /\ ReminderInStep
    BY DEF ArrearsInv
<1>k. ladderRun[r] \in Knows /\ ladderRun[r].at = "event"
    BY LadderRunKnows DEF Draft, At
<1>1. PICK c \in CaseIds : ladderRun[r].case = c
    BY <1>k, <1>t DEF HasItsCase
<1>2. PICK s \in Stages : ladderRun[r].stage = s
    BY <1>k, <1>t DEF HasItsCase
<1>s. UNCHANGED <<debt, unitClass, cases, events, reminders, upsets, lookedTwice>>
    BY DEF Draft
<1>d. ladderRun \in [LadderRuns -> LadderRunType]
    BY <1>t DEF ArrearsTypeOK, LadderRunType
<1>o. OpenCases' = OpenCases
    BY <1>s DEF OpenCases
<1>3. CASE HasEvent(c, s)
    <2>1. ladderRun' = [ladderRun EXCEPT ![r] = Idle] /\ UNCHANGED sentTwice
        BY <1>1, <1>2, <1>3 DEF Draft, Ends
    <2>2. cases' \in [CaseIds -> CaseType] /\ upsets' \in 0..MaxUpsets
        BY <1>s, <1>t DEF ArrearsTypeOK, CaseType
    <2> QED BY <1>k, <1>s, <1>o, <2>1, <2>2, IdleShape, QuietLadderStep
<1>4. CASE ~ HasEvent(c, s)
    <2> DEFINE new == [ladderRun[r] EXCEPT !.at = "drafted"]
    <2>1. new \in LadderRunType /\ new.at = "drafted" /\ new.case = c /\ new.stage = s
        BY <1>k, <1>1, <1>2 DEF LadderRunType, Knows
    <2>2. ladderRun' = [ladderRun EXCEPT ![r] = new]
        BY <1>1, <1>2, <1>4, <1>d DEF Draft, Goes
    <2> HIDE DEF new
    <2>3. sentTwice' = sentTwice \cup {d \in {c} : \E q \in LadderRuns : SameLetter(r, q)}
        BY <1>1, <1>2, <1>4 DEF Draft
    <2>4. /\ ladderRun'[r] = new
          /\ \A q \in LadderRuns \ {r} : ladderRun'[q] = ladderRun[q]
          /\ ladderRun' \in [LadderRuns -> LadderRunType]
        BY <2>1, <2>2, <1>d
    <2>5. ArrearsTypeOK'
        BY <2>3, <2>4, <1>s, <1>t DEF ArrearsTypeOK, LadderRunType
    <2>6. HasItsCase'
        BY <2>1, <2>4, <1>t DEF HasItsCase
    <2>7. OneIsOpen'
        <3>1. \A q \in LadderRuns : ladderRun'[q].at = "case" /\ ladderRun'[q].case = NoCase
                => ladderRun[q].at = "case" /\ ladderRun[q].case = NoCase
            BY <2>1, <2>4
        <3> QED BY <3>1, <1>o, <1>s, <1>t DEF OneIsOpen, At
    <2>8. events[c][s] = 0
        <3>1. events[c][s] \in Nat
            BY <1>t DEF ArrearsTypeOK
        <3> QED BY <3>1, <1>4 DEF HasEvent
    <2>9. \A e : ~ Reminds(ladderRun[r], e)
        BY <1>k DEF Reminds
    <2>10. \A e : Reminds(ladderRun'[r], e) <=> (e = c /\ s = "reminder")
        BY <2>1, <2>4 DEF Reminds
    <2>11. s = "reminder" /\ c \notin sentTwice' =>
             /\ \A q \in LadderRuns : ~ Reminds(ladderRun[q], c)
             /\ reminders[c] = 0
        <3> SUFFICES ASSUME s = "reminder", c \notin sentTwice'
                     PROVE  /\ \A q \in LadderRuns : ~ Reminds(ladderRun[q], c)
                            /\ reminders[c] = 0
            OBVIOUS
        <3>1. \A q \in LadderRuns : ~ Reminds(ladderRun[q], c)
            BY <2>3, <1>1, <1>2 DEF SameLetter, Reminds
        <3>2. c \notin sentTwice /\ reminders[c] \in Nat
            BY <2>3, <1>t DEF ArrearsTypeOK
        <3>3. ~ (reminders[c] > 0)
            BY <3>1, <3>2, <2>8, <1>t DEF ReminderInStep
        <3> QED BY <3>1, <3>2, <3>3
    <2>12. ASSUME NEW e \in CaseIds \ sentTwice'
           PROVE  /\ \A p, q \in LadderRuns :
                        Reminds(ladderRun'[p], e) /\ Reminds(ladderRun'[q], e) => p = q
                  /\ \A q \in LadderRuns : Reminds(ladderRun'[q], e) =>
                        /\ events[e]["reminder"] = 0
                        /\ ladderRun'[q].at = "drafted" => reminders[e] = 0
        <3>1. e \in CaseIds \ sentTwice
            BY <2>12, <2>3
        <3>2. CASE e = c /\ s = "reminder"
            BY <3>1, <3>2, <2>12, <2>4, <2>8, <2>10, <2>11
        <3>3. CASE ~ (e = c /\ s = "reminder")
            BY <3>1, <3>3, <2>4, <2>10, <1>t DEF ReminderInStep
        <3> QED BY <3>2, <3>3
    <2>13. ASSUME NEW e \in CaseIds \ sentTwice'
           PROVE  /\ reminders[e] <= 1
                  /\ reminders[e] > 0 =>
                      /\ "reminder" \in Stages
                      /\ \/ events[e]["reminder"] > 0
                         \/ \E q \in LadderRuns : Reminds(ladderRun'[q], e) /\ ladderRun'[q].at = "sent"
        <3>1. e \in CaseIds \ sentTwice
            BY <2>13, <2>3
        <3>2. \A q \in LadderRuns : Reminds(ladderRun[q], e) => q # r /\ ladderRun'[q] = ladderRun[q]
            BY <2>4, <2>9
        <3> QED BY <3>1, <3>2, <1>t DEF ReminderInStep
    <2>14. ReminderInStep'
        BY <2>12, <2>13, <1>s DEF ReminderInStep
    <2> QED BY <2>5, <2>6, <2>7, <2>14 DEF ArrearsInv
<1> QED BY <1>3, <1>4

LEMMA SendReminderKeeps ==
    ASSUME ArrearsInv, NEW r \in LadderRuns, SendReminder(r)
    PROVE  ArrearsInv'
<1>t. ArrearsTypeOK /\ HasItsCase /\ OneIsOpen /\ ReminderInStep
    BY DEF ArrearsInv
<1>k. ladderRun[r] \in Knows /\ ladderRun[r].at = "drafted"
    BY LadderRunKnows DEF SendReminder, At
<1>1. PICK c \in CaseIds : ladderRun[r].case = c
    BY <1>k, <1>t DEF HasItsCase
<1>2. ladderRun[r].stage = "reminder" /\ ladderRun[r].stage \in Stages
    <2>1. ladderRun[r].class \in UnitClasses
        BY <1>k DEF Knows
    <2> QED BY <2>1, <1>k, <1>t, OnlyReminderIsSent DEF SendReminder, HasItsCase
<1>s. /\ reminders' = [reminders EXCEPT ![c] = @ + 1]
      /\ UNCHANGED <<debt, unitClass, cases, events, upsets, lookedTwice, sentTwice>>
    BY <1>1 DEF SendReminder
<1>d. ladderRun \in [LadderRuns -> LadderRunType] /\ reminders \in [CaseIds -> Nat]
    BY <1>t DEF ArrearsTypeOK, LadderRunType
<1>o. OpenCases' = OpenCases
    BY <1>s DEF OpenCases
<1> DEFINE new == [ladderRun[r] EXCEPT !.at = "sent"]
<1>3. /\ new \in LadderRunType /\ new.at = "sent" /\ new.case = c
      /\ new.stage = "reminder" /\ new.stage \in Stages
    BY <1>k, <1>1, <1>2 DEF LadderRunType, Knows
<1>4. ladderRun' = [ladderRun EXCEPT ![r] = new]
    BY <1>d DEF SendReminder, Goes
<1> HIDE DEF new
<1>5. /\ ladderRun'[r] = new
      /\ \A q \in LadderRuns \ {r} : ladderRun'[q] = ladderRun[q]
      /\ ladderRun' \in [LadderRuns -> LadderRunType]
      /\ reminders'[c] = reminders[c] + 1
      /\ \A e \in CaseIds \ {c} : reminders'[e] = reminders[e]
      /\ reminders' \in [CaseIds -> Nat]
    BY <1>3, <1>4, <1>d, <1>s
<1>6. ArrearsTypeOK'
    BY <1>5, <1>s, <1>t DEF ArrearsTypeOK, LadderRunType
<1>7. HasItsCase'
    BY <1>3, <1>5, <1>t DEF HasItsCase
<1>8. OneIsOpen'
    <2>1. \A q \in LadderRuns : ladderRun'[q].at = "case" /\ ladderRun'[q].case = NoCase
            => ladderRun[q].at = "case" /\ ladderRun[q].case = NoCase
        BY <1>3, <1>5
    <2> QED BY <2>1, <1>o, <1>s, <1>t DEF OneIsOpen, At
<1>9. \A e, q : q \in LadderRuns => (Reminds(ladderRun'[q], e) <=> Reminds(ladderRun[q], e))
    BY <1>k, <1>1, <1>2, <1>3, <1>5 DEF Reminds
<1>10. Reminds(ladderRun[r], c)
    BY <1>k, <1>1, <1>2 DEF Reminds
<1>11. c \notin sentTwice => reminders[c] = 0 /\ events[c]["reminder"] = 0
    BY <1>k, <1>10, <1>t DEF ReminderInStep
<1>12. ASSUME NEW e \in CaseIds \ sentTwice
       PROVE  /\ \A p, q \in LadderRuns :
                    Reminds(ladderRun'[p], e) /\ Reminds(ladderRun'[q], e) => p = q
              /\ \A q \in LadderRuns : Reminds(ladderRun'[q], e) =>
                    /\ events[e]["reminder"] = 0
                    /\ ladderRun'[q].at = "drafted" => reminders'[e] = 0
    <2>1. \A p, q \in LadderRuns :
                    Reminds(ladderRun'[p], e) /\ Reminds(ladderRun'[q], e) => p = q
        BY <1>9, <1>12, <1>t DEF ReminderInStep
    <2>2. ASSUME NEW q \in LadderRuns, Reminds(ladderRun'[q], e)
          PROVE  /\ events[e]["reminder"] = 0
                 /\ ladderRun'[q].at = "drafted" => reminders'[e] = 0
        <3>1. Reminds(ladderRun[q], e)
            BY <2>2, <1>9
        <3>2. CASE e = c
            <4>1. q = r
                BY <3>1, <3>2, <1>10, <1>12, <1>t DEF ReminderInStep
            <4> QED BY <4>1, <3>2, <1>11, <1>12, <1>3, <1>5
        <3>3. CASE e # c
            <4>1. q # r
                BY <3>1, <3>3, <1>1 DEF Reminds
            <4> QED BY <4>1, <3>1, <3>3, <1>5, <1>12, <1>t DEF ReminderInStep
        <3> QED BY <3>2, <3>3
    <2> QED BY <2>1, <2>2
<1>13. ASSUME NEW e \in CaseIds \ sentTwice
       PROVE  /\ reminders'[e] <= 1
              /\ reminders'[e] > 0 =>
                   /\ "reminder" \in Stages
                   /\ \/ events[e]["reminder"] > 0
                      \/ \E q \in LadderRuns : Reminds(ladderRun'[q], e) /\ ladderRun'[q].at = "sent"
    <2>1. CASE e = c
        BY <2>1, <1>13, <1>3, <1>5, <1>9, <1>10, <1>11
    <2>2. CASE e # c
        <3>1. \A q \in LadderRuns : Reminds(ladderRun[q], e) => ladderRun'[q] = ladderRun[q]
            BY <2>2, <1>1, <1>5 DEF Reminds
        <3> QED BY <3>1, <2>2, <1>5, <1>13, <1>t DEF ReminderInStep
    <2> QED BY <2>1, <2>2
<1>14. ReminderInStep'
    BY <1>12, <1>13, <1>s DEF ReminderInStep
<1> QED BY <1>6, <1>7, <1>8, <1>14 DEF ArrearsInv

\* A run leaves the letter it was at: with its event on record, or with none
\* and what was sent forgotten.
LEMMA LeavesLetter ==
    ASSUME ArrearsInv, NEW r \in LadderRuns, NEW c \in CaseIds, NEW s \in Stages,
           ladderRun[r].at \in {"drafted", "sent"},
           ladderRun[r].case = c, ladderRun[r].stage = s,
           ladderRun' = [ladderRun EXCEPT ![r] = Idle],
           UNCHANGED <<debt, unitClass, cases, reminders, lookedTwice>>,
           upsets' \in 0..MaxUpsets,
           \/ /\ events' = [events EXCEPT ![c] = [events[c] EXCEPT ![s] = events[c][s] + 1]]
              /\ sentTwice' = sentTwice
           \/ /\ events' = events
              /\ sentTwice' = IF ladderRun[r].at = "sent" THEN sentTwice \cup {c} ELSE sentTwice
    PROVE  ArrearsInv'
<1>t. ArrearsTypeOK /\ HasItsCase /\ OneIsOpen /\ ReminderInStep
    BY DEF ArrearsInv
<1>d. /\ ladderRun \in [LadderRuns -> LadderRunType] /\ events \in [CaseIds -> [Stages -> Nat]]
      /\ reminders \in [CaseIds -> Nat] /\ sentTwice \subseteq CaseIds
    BY <1>t DEF ArrearsTypeOK, LadderRunType
<1>1. /\ ladderRun'[r] = Idle
      /\ \A q \in LadderRuns \ {r} : ladderRun'[q] = ladderRun[q]
      /\ ladderRun' \in [LadderRuns -> LadderRunType]
    BY <1>d, IdleShape
<1>2. sentTwice' \subseteq CaseIds /\ sentTwice \subseteq sentTwice'
    BY <1>d
<1>3. /\ events' \in [CaseIds -> [Stages -> Nat]]
      /\ \A e \in CaseIds, t \in Stages : events'[e][t] >= events[e][t]
      /\ \A e \in CaseIds, t \in Stages : e # c \/ t # s => events'[e][t] = events[e][t]
      /\ ladderRun[r].at = "sent" => events'[c][s] > 0 \/ c \in sentTwice'
    <2>1. CASE events' = events
        BY <2>1, <1>d
    <2>2. CASE events' = [events EXCEPT ![c] = [events[c] EXCEPT ![s] = events[c][s] + 1]]
        <3> DEFINE row == [events[c] EXCEPT ![s] = events[c][s] + 1]
        <3>1. events[c] \in [Stages -> Nat] /\ events[c][s] \in Nat
            BY <1>d
        <3>2. /\ row \in [Stages -> Nat] /\ row[s] = events[c][s] + 1
              /\ \A t \in Stages : t # s => row[t] = events[c][t]
            BY <3>1
        <3>3. events' = [events EXCEPT ![c] = row]
            BY <2>2
        <3> HIDE DEF row
        <3>4. events' \in [CaseIds -> [Stages -> Nat]]
            BY <3>2, <3>3, <1>d
        <3>5. events'[c] = row /\ \A e \in CaseIds : e # c => events'[e] = events[e]
            BY <3>3, <1>d
        <3>6. \A e \in CaseIds, t \in Stages : events[e][t] \in Nat
            BY <1>d
        <3>7. \A e \in CaseIds, t \in Stages : e # c \/ t # s => events'[e][t] = events[e][t]
            BY <3>2, <3>5
        <3>8. events'[c][s] = events[c][s] + 1
            BY <3>2, <3>5
        <3> QED BY <3>4, <3>6, <3>7, <3>8
    <2> QED BY <2>1, <2>2
<1>4. ArrearsTypeOK'
    BY <1>1, <1>2, <1>3, <1>t DEF ArrearsTypeOK, LadderRunType
<1>5. HasItsCase'
    BY <1>1, IdleShape, <1>t DEF HasItsCase
<1>6. OneIsOpen'
    <2>1. OpenCases' = OpenCases
        BY DEF OpenCases
    <2>2. \A q \in LadderRuns : ladderRun'[q].at = "case" /\ ladderRun'[q].case = NoCase
            => ladderRun[q].at = "case" /\ ladderRun[q].case = NoCase
        BY <1>1, IdleShape
    <2> QED BY <2>1, <2>2, <1>t DEF OneIsOpen, At
<1>7. \A e, q : q \in LadderRuns /\ Reminds(ladderRun'[q], e) =>
        /\ q # r /\ ladderRun'[q] = ladderRun[q] /\ Reminds(ladderRun[q], e)
        /\ "reminder" \in Stages
    BY <1>1, IdleShape, <1>t DEF Reminds, HasItsCase
<1>8. Reminds(ladderRun[r], c) <=> s = "reminder"
    BY DEF Reminds
<1>9. ASSUME NEW e \in CaseIds \ sentTwice'
      PROVE  /\ \A p, q \in LadderRuns :
                    Reminds(ladderRun'[p], e) /\ Reminds(ladderRun'[q], e) => p = q
             /\ \A q \in LadderRuns : Reminds(ladderRun'[q], e) =>
                    /\ events'[e]["reminder"] = 0
                    /\ ladderRun'[q].at = "drafted" => reminders[e] = 0
    <2>1. e \in CaseIds \ sentTwice
        BY <1>2, <1>9
    <2>2. \A p, q \in LadderRuns :
                    Reminds(ladderRun'[p], e) /\ Reminds(ladderRun'[q], e) => p = q
        BY <2>1, <1>7, <1>t DEF ReminderInStep
    <2>3. ASSUME NEW q \in LadderRuns, Reminds(ladderRun'[q], e)
          PROVE  /\ events'[e]["reminder"] = 0
                 /\ ladderRun'[q].at = "drafted" => reminders[e] = 0
        <3>1. /\ q # r /\ ladderRun'[q] = ladderRun[q] /\ Reminds(ladderRun[q], e)
              /\ "reminder" \in Stages
            BY <2>3, <1>7
        <3>2. e # c \/ s # "reminder"
            BY <3>1, <2>1, <1>8, <1>t DEF ReminderInStep
        <3>3. events'[e]["reminder"] = events[e]["reminder"]
            BY <3>1, <3>2, <1>3, <2>1
        <3> QED BY <3>1, <3>3, <2>1, <1>t DEF ReminderInStep
    <2> QED BY <2>2, <2>3
<1>10. ASSUME NEW e \in CaseIds \ sentTwice'
       PROVE  /\ reminders[e] <= 1
              /\ reminders[e] > 0 =>
                   /\ "reminder" \in Stages
                   /\ \/ events'[e]["reminder"] > 0
                      \/ \E q \in LadderRuns : Reminds(ladderRun'[q], e) /\ ladderRun'[q].at = "sent"
    <2>1. e \in CaseIds \ sentTwice
        BY <1>2, <1>10
    <2>2. reminders[e] <= 1 /\ (reminders[e] > 0 => "reminder" \in Stages)
        BY <2>1, <1>t DEF ReminderInStep
    <2>3. ASSUME reminders[e] > 0
          PROVE  \/ events'[e]["reminder"] > 0
                 \/ \E q \in LadderRuns : Reminds(ladderRun'[q], e) /\ ladderRun'[q].at = "sent"
        <3>1. CASE events[e]["reminder"] > 0
            <4>1. /\ events'[e]["reminder"] >= events[e]["reminder"]
                  /\ events'[e]["reminder"] \in Nat /\ events[e]["reminder"] \in Nat
                BY <2>1, <2>2, <2>3, <1>3, <1>d
            <4> QED BY <3>1, <4>1
        <3>2. ASSUME NEW q \in LadderRuns, Reminds(ladderRun[q], e), ladderRun[q].at = "sent"
              PROVE  \/ events'[e]["reminder"] > 0
                     \/ \E p \in LadderRuns : Reminds(ladderRun'[p], e) /\ ladderRun'[p].at = "sent"
            <4>1. CASE q # r
                BY <4>1, <3>2, <1>1
            <4>2. CASE q = r
                <5>1. e = c /\ s = "reminder"
                    BY <4>2, <3>2 DEF Reminds
                <5> QED BY <5>1, <4>2, <3>2, <1>3, <1>10, <2>1
            <4> QED BY <4>1, <4>2
        <3> QED BY <3>1, <3>2, <2>1, <2>3, <1>t DEF ReminderInStep
    <2> QED BY <2>2, <2>3
<1>11. ReminderInStep'
    BY <1>9, <1>10 DEF ReminderInStep
<1> QED BY <1>4, <1>5, <1>6, <1>11 DEF ArrearsInv

LEMMA RecordEventKeeps ==
    ASSUME ArrearsInv, NEW r \in LadderRuns, RecordEvent(r)
    PROVE  ArrearsInv'
<1>t. ArrearsTypeOK /\ HasItsCase
    BY DEF ArrearsInv
<1>k. ladderRun[r].at \in {"drafted", "sent"}
    BY DEF RecordEvent, At
<1>1. PICK c \in CaseIds : ladderRun[r].case = c
    BY <1>k, <1>t DEF HasItsCase
<1>2. PICK s \in Stages : ladderRun[r].stage = s
    BY <1>k, <1>t DEF HasItsCase
<1>3. events' = [events EXCEPT ![c] = [events[c] EXCEPT ![s] = events[c][s] + 1]]
    BY <1>1, <1>2, <1>t DEF RecordEvent, ArrearsTypeOK
<1>4. upsets' \in 0..MaxUpsets
    BY <1>t DEF RecordEvent, ArrearsTypeOK
<1>5. /\ ladderRun' = [ladderRun EXCEPT ![r] = Idle]
      /\ UNCHANGED <<debt, unitClass, cases, reminders, lookedTwice, sentTwice>>
    BY DEF RecordEvent, Ends
<1> QED BY <1>k, <1>1, <1>2, <1>3, <1>4, <1>5, LeavesLetter

LEMMA UpsetCounted ==
    ASSUME ArrearsInv, Upset
    PROVE  upsets' \in 0..MaxUpsets
BY ArrearsAssumption DEF ArrearsInv, ArrearsTypeOK, Upset

LEMMA RunFailsKeeps ==
    ASSUME ArrearsInv, NEW r \in LadderRuns, RunFails(r)
    PROVE  ArrearsInv'
<1>t. ArrearsTypeOK /\ HasItsCase
    BY DEF ArrearsInv
<1>1. upsets' \in 0..MaxUpsets
    BY UpsetCounted DEF RunFails
<1>2. CASE ladderRun[r].at \in {"drafted", "sent"}
    <2>1. PICK c \in CaseIds : ladderRun[r].case = c
        BY <1>2, <1>t DEF HasItsCase
    <2>2. PICK s \in Stages : ladderRun[r].stage = s
        BY <1>2, <1>t DEF HasItsCase
    <2>3. sentTwice' = IF ladderRun[r].at = "sent" THEN sentTwice \cup {c} ELSE sentTwice
        BY <2>1 DEF RunFails, At
    <2> QED BY <1>1, <1>2, <2>1, <2>2, <2>3, LeavesLetter DEF RunFails, Ends
<1>3. CASE ladderRun[r].at \notin {"drafted", "sent"}
    <2>1. cases' \in [CaseIds -> CaseType] /\ OpenCases' \subseteq OpenCases
        BY <1>t DEF RunFails, ArrearsTypeOK, CaseType, OpenCases
    <2>2. UNCHANGED sentTwice
        BY <1>3 DEF RunFails, At
    <2> QED BY <1>1, <1>3, <2>1, <2>2, IdleShape, QuietLadderStep DEF RunFails, Ends
<1> QED BY <1>2, <1>3

LEMMA DebtChangesKeeps ==
    ASSUME ArrearsInv, DebtChanges
    PROVE  ArrearsInv'
<1>t. ArrearsTypeOK /\ HasItsCase /\ OneIsOpen /\ ReminderInStep
    BY DEF ArrearsInv
<1>1. upsets' \in 0..MaxUpsets
    BY UpsetCounted DEF DebtChanges
<1>2. ArrearsTypeOK'
    BY <1>1, <1>t DEF DebtChanges, ArrearsTypeOK
<1>3. HasItsCase' /\ OneIsOpen' /\ ReminderInStep'
    BY <1>t DEF DebtChanges, HasItsCase, OneIsOpen, ReminderInStep, OpenCases, At
<1> QED BY <1>2, <1>3 DEF ArrearsInv

LEMMA ArrearsInvNext == ArrearsInv /\ [ArrearsNext]_arrearsVars => ArrearsInv'
<1> SUFFICES ASSUME ArrearsInv, [ArrearsNext]_arrearsVars PROVE ArrearsInv'
    OBVIOUS
<1>1. CASE DebtChanges
    BY <1>1, DebtChangesKeeps
<1>2. ASSUME NEW r \in LadderRuns, LadderStep(r) PROVE ArrearsInv'
    BY <1>2, ReadArrearsKeeps, FindCaseKeeps, CloseCaseKeeps, LeaveCaseKeeps, OpenCaseKeeps,
       AdvanceCaseKeeps, DraftKeeps, SendReminderKeeps, RecordEventKeeps DEF LadderStep
<1>3. ASSUME NEW r \in LadderRuns, RunFails(r) PROVE ArrearsInv'
    BY <1>3, RunFailsKeeps
<1>4. CASE UNCHANGED arrearsVars
    BY <1>4 DEF arrearsVars, ArrearsInv, ArrearsTypeOK, HasItsCase, OneIsOpen,
                ReminderInStep, OpenCases, At
<1> QED BY <1>1, <1>2, <1>3, <1>4 DEF ArrearsNext

LEMMA ArrearsAlways == ArrearsSpec => []ArrearsInv
BY ArrearsInvInit, ArrearsInvNext, PTL DEF ArrearsSpec

\* The tables of the ladder and what its runs know stay what the code may write,
\* for any ladder classes, days, runs and cases.
THEOREM ArrearsTypeCorrect == ArrearsSpec => []ArrearsTypeOK
<1>1. ArrearsInv => ArrearsTypeOK
    BY DEF ArrearsInv
<1> QED BY <1>1, ArrearsAlways, PTL

\* A tenant has at most one open arrears case, unless one run opened a case under
\* another that had just found none: whatever the debt does, and whichever runs
\* overlap, end half way or start again.
THEOREM CaseAlwaysAlone == ArrearsSpec => []OneOpenCase
<1>1. ArrearsInv => OneOpenCase
    <2> SUFFICES ASSUME ArrearsInv, ~ lookedTwice PROVE Cardinality(OpenCases) <= 1
        BY DEF OneOpenCase
    <2>1. \A c, d \in OpenCases : c = d
        BY DEF ArrearsInv, OneIsOpen
    <2>2. CASE OpenCases = {}
        BY <2>2, FS_EmptySet
    <2>3. CASE OpenCases # {}
        <3>1. PICK c \in OpenCases : OpenCases = {c}
            BY <2>1, <2>3
        <3> QED BY <3>1, FS_Singleton
    <2> QED BY <2>2, <2>3
<1> QED BY <1>1, ArrearsAlways, PTL

\* A case's reminder goes out once, unless a run ended between the e-mail and its
\* event or two runs were past the same check: however often the ladder is climbed,
\* left and climbed again, and whichever class the unit is given meanwhile.
THEOREM ReminderAlwaysOnce == ArrearsSpec => []RemindedOnce
<1>1. ArrearsInv => RemindedOnce
    BY DEF ArrearsInv, ReminderInStep, RemindedOnce
<1> QED BY <1>1, ArrearsAlways, PTL

-----------------------------------------------------------------------------
(* The calendar.                                                            *)
-----------------------------------------------------------------------------
\* A nonempty set of numbers has a least one.
LEMMA LeastOf ==
    ASSUME NEW S \in SUBSET Nat, S # {}
    PROVE  \E m \in S : \A n \in S : m <= n
<1>1. PICK m \in S : \A n \in S : ~ (<<n, m>> \in OpToRel(<, Nat))
    BY NatLessThanWellFounded, WFMin
<1>2. \A n \in S : ~ (n < m)
    BY <1>1 DEF OpToRel
<1> QED BY <1>2

LEMMA MonthsCounted ==
    /\ Cardinality(Months) \in Nat
    /\ Months = 1..Cardinality(Months)
    /\ \A m \in Months : MonthLengths[m] \in 28..31
<1>1. /\ Len(MonthLengths) \in Nat /\ Months = 1..Len(MonthLengths)
      /\ \A m \in Months : MonthLengths[m] \in 28..31
    BY RentChargesAssumption DEF Months
<1>2. Cardinality(1..Len(MonthLengths)) = Len(MonthLengths)
    BY <1>1, FS_Interval
<1> QED BY <1>1, <1>2

\* The days before the first n months, as the recursive definition has them.
Days1(n, f) == f = [m \in 1..n |-> IF m = 1 THEN 0 ELSE f[m - 1] + MonthLengths[m - 1]]

LEMMA DaysExist ==
    ASSUME NEW n \in Nat
    PROVE  \E f : Days1(n, f)
<1> DEFINE bad == {k \in Nat : ~ \E f : Days1(k, f)}
<1> SUFFICES ASSUME bad # {} PROVE FALSE
    OBVIOUS
<1>1. PICK k \in bad : \A j \in bad : k <= j
    BY LeastOf
<1>2. CASE k = 0
    <2> DEFINE f == [m \in 1..0 |-> 0]
    <2>1. f = [m \in 1..0 |-> IF m = 1 THEN 0 ELSE f[m - 1] + MonthLengths[m - 1]]
        OBVIOUS
    <2> HIDE DEF f
    <2> QED BY <2>1, <1>1, <1>2 DEF Days1
<1>3. CASE k # 0
    <2>1. k \in Nat /\ k - 1 \in Nat /\ k - 1 \notin bad
        BY <1>1, <1>3
    <2>2. PICK f : Days1(k - 1, f)
        BY <2>1
    <2> DEFINE g == [m \in 1..k |-> IF m = 1 THEN 0 ELSE f[m - 1] + MonthLengths[m - 1]]
    <2>3. \A m \in 1..(k - 1) : f[m] = IF m = 1 THEN 0 ELSE f[m - 1] + MonthLengths[m - 1]
        BY <2>2 DEF Days1
    <2>4. \A m \in 1..(k - 1) : g[m] = f[m]
        BY <2>1, <2>3
    <2>5. \A m \in 1..k : m # 1 => g[m - 1] = f[m - 1]
        <3> SUFFICES ASSUME NEW m \in 1..k, m # 1 PROVE g[m - 1] = f[m - 1]
            OBVIOUS
        <3>1. m - 1 \in 1..(k - 1)
            BY <2>1
        <3> QED BY <3>1, <2>4
    <2>6. g = [m \in 1..k |-> IF m = 1 THEN 0 ELSE g[m - 1] + MonthLengths[m - 1]]
        BY <2>5
    <2> HIDE DEF g
    <2> QED BY <2>6, <1>1 DEF Days1
<1> QED BY <1>2, <1>3

LEMMA DaysBeforeValues ==
    LET n == Cardinality(Months) IN
    /\ DaysBefore[1] = 0
    /\ \A m \in 2..(n + 1) : DaysBefore[m] = DaysBefore[m - 1] + MonthLengths[m - 1]
<1> DEFINE n == Cardinality(Months)
<1>1. n \in Nat
    BY MonthsCounted
<1>2. \E f : f = [m \in 1..(n + 1) |-> IF m = 1 THEN 0 ELSE f[m - 1] + MonthLengths[m - 1]]
    BY <1>1, DaysExist DEF Days1
<1>3. DaysBefore = [m \in 1..(n + 1) |->
                      IF m = 1 THEN 0 ELSE DaysBefore[m - 1] + MonthLengths[m - 1]]
    BY <1>2 DEF DaysBefore
<1>4. \A m \in 1..(n + 1) : DaysBefore[m] = IF m = 1 THEN 0 ELSE DaysBefore[m - 1] + MonthLengths[m - 1]
    BY <1>3
<1>5. 1 \in 1..(n + 1) /\ \A m \in 2..(n + 1) : m \in 1..(n + 1) /\ m # 1
    BY <1>1
<1> QED BY <1>4, <1>5

LEMMA DaysBeforeTyped ==
    \A m \in 1..(Cardinality(Months) + 1) : DaysBefore[m] \in Nat
<1> DEFINE n == Cardinality(Months)
           bad == {m \in 1..(n + 1) : DaysBefore[m] \notin Nat}
<1>n. n \in Nat
    BY MonthsCounted
<1> SUFFICES ASSUME bad # {} PROVE FALSE
    OBVIOUS
<1>1. bad \in SUBSET Nat
    BY <1>n
<1>2. PICK m \in bad : \A j \in bad : m <= j
    BY <1>1, LeastOf
<1>3. m # 1
    BY <1>2, DaysBeforeValues
<1>4. m \in 2..(n + 1) /\ m - 1 \in 1..(n + 1) /\ m - 1 \in Months
    BY <1>2, <1>3, <1>n, MonthsCounted
<1>5. DaysBefore[m - 1] \in Nat
    <2>1. m - 1 \notin bad
        BY <1>2, <1>4
    <2> QED BY <1>4, <2>1
<1>6. MonthLengths[m - 1] \in 28..31
    BY <1>4, MonthsCounted
<1>7. DaysBefore[m] = DaysBefore[m - 1] + MonthLengths[m - 1]
    BY <1>4, DaysBeforeValues
<1>8. DaysBefore[m] \in Nat
    BY <1>5, <1>6, <1>7
<1> QED BY <1>2, <1>8

LEMMA NextMonth ==
    ASSUME NEW m \in Months
    PROVE  /\ m \in 1..(Cardinality(Months) + 1) /\ m + 1 \in 1..(Cardinality(Months) + 1)
           /\ DaysBefore[m] \in Nat /\ DaysBefore[m + 1] \in Nat
           /\ DaysBefore[m] + 28 <= DaysBefore[m + 1]
           /\ DaysBefore[m + 1] <= DaysBefore[m] + 31
<1> DEFINE n == Cardinality(Months)
<1>1. n \in Nat /\ m \in 1..n /\ MonthLengths[m] \in 28..31
    BY MonthsCounted
<1>2. m \in 1..(n + 1) /\ m + 1 \in 2..(n + 1) /\ (m + 1) - 1 = m /\ m + 1 \in 1..(n + 1)
    BY <1>1
<1>3. DaysBefore[m + 1] = DaysBefore[m] + MonthLengths[m]
    BY <1>2, DaysBeforeValues
<1>4. DaysBefore[m] \in Nat /\ DaysBefore[m + 1] \in Nat
    BY <1>2, DaysBeforeTyped
<1> QED BY <1>1, <1>2, <1>3, <1>4

LEMMA DaysBeforeGrows ==
    ASSUME NEW i \in 1..(Cardinality(Months) + 1), NEW j \in 1..(Cardinality(Months) + 1), i < j
    PROVE  DaysBefore[i] + 28 <= DaysBefore[j]
<1> DEFINE n == Cardinality(Months)
           bad == {k \in 1..(n + 1) : i < k /\ ~ (DaysBefore[i] + 28 <= DaysBefore[k])}
<1>n. n \in Nat /\ Months = 1..n
    BY MonthsCounted
<1> SUFFICES ASSUME bad # {} PROVE FALSE
    OBVIOUS
<1>1. bad \in SUBSET Nat
    BY <1>n
<1>2. PICK k \in bad : \A l \in bad : k <= l
    BY <1>1, LeastOf
<1>3. k \in 1..(n + 1) /\ i < k /\ k - 1 \in Months /\ (k - 1) + 1 = k
    BY <1>2, <1>n
<1>4. /\ DaysBefore[k - 1] \in Nat /\ DaysBefore[k] \in Nat
      /\ DaysBefore[k - 1] + 28 <= DaysBefore[k]
    BY <1>3, NextMonth
<1>5. DaysBefore[i] \in Nat
    BY DaysBeforeTyped
<1>6. CASE k - 1 = i
    BY <1>2, <1>4, <1>6
<1>7. CASE k - 1 # i
    <2>1. k - 1 \in 1..(n + 1) /\ i < k - 1
        BY <1>3, <1>7, <1>n
    <2>2. k - 1 \notin bad
        BY <1>2, <1>3
    <2>3. DaysBefore[i] + 28 <= DaysBefore[k - 1]
        BY <2>1, <2>2
    <2> QED BY <2>3, <1>2, <1>4, <1>5
<1> QED BY <1>6, <1>7

LEMMA LastDayTyped == LastDay \in Nat
<1>1. Cardinality(Months) + 1 \in 1..(Cardinality(Months) + 1)
    BY MonthsCounted
<1> QED BY <1>1, DaysBeforeTyped DEF LastDay

\* A day lies in one month.
LEMMA OneMonthOf ==
    ASSUME NEW d \in Int, NEW m \in Months, DaysBefore[m] < d, d <= DaysBefore[m + 1]
    PROVE  MonthOf(d) = m
<1>1. ASSUME NEW k \in Months, DaysBefore[k] < d, d <= DaysBefore[k + 1]
      PROVE  k = m
    <2>1. /\ m \in 1..(Cardinality(Months) + 1) /\ m + 1 \in 1..(Cardinality(Months) + 1)
          /\ k \in 1..(Cardinality(Months) + 1) /\ k + 1 \in 1..(Cardinality(Months) + 1)
          /\ DaysBefore[m] \in Nat /\ DaysBefore[m + 1] \in Nat
          /\ DaysBefore[k] \in Nat /\ DaysBefore[k + 1] \in Nat
        BY NextMonth
    <2>2. CASE k < m
        <3>1. k + 1 = m \/ k + 1 < m
            BY <2>1, <2>2
        <3>2. DaysBefore[k + 1] <= DaysBefore[m]
            BY <3>1, <2>1, DaysBeforeGrows
        <3> QED BY <3>2, <2>1, <1>1
    <2>3. CASE m < k
        <3>1. m + 1 = k \/ m + 1 < k
            BY <2>1, <2>3
        <3>2. DaysBefore[m + 1] <= DaysBefore[k]
            BY <3>1, <2>1, DaysBeforeGrows
        <3> QED BY <3>2, <2>1, <1>1
    <2> QED BY <2>1, <2>2, <2>3
<1> QED BY <1>1 DEF MonthOf

LEMMA DayHasMonth ==
    ASSUME NEW d \in 1..LastDay
    PROVE  /\ MonthOf(d) \in Months
           /\ DaysBefore[MonthOf(d)] < d /\ d <= DaysBefore[MonthOf(d) + 1]
<1> DEFINE n == Cardinality(Months)
           over == {m \in 1..(n + 1) : d <= DaysBefore[m]}
<1>n. n \in Nat /\ Months = 1..n /\ LastDay \in Nat /\ n + 1 \in 1..(n + 1)
    BY MonthsCounted, LastDayTyped
<1>1. n + 1 \in over
    BY <1>n DEF LastDay
<1>2. over \in SUBSET Nat
    BY <1>n
<1>3. PICK k \in over : \A j \in over : k <= j
    BY <1>1, <1>2, LeastOf
<1>4. k # 1
    BY <1>3, <1>n, DaysBeforeValues
<1>5. k - 1 \in Months /\ k - 1 \in 1..(n + 1) /\ (k - 1) + 1 = k
    BY <1>3, <1>4, <1>n
<1>6. DaysBefore[k - 1] \in Nat /\ k - 1 \notin over
    BY <1>3, <1>5, DaysBeforeTyped
<1>7. DaysBefore[k - 1] < d
    BY <1>5, <1>6, <1>n
<1>8. MonthOf(d) = k - 1
    BY <1>3, <1>5, <1>7, <1>n, OneMonthOf
<1> QED BY <1>3, <1>5, <1>7, <1>8

\* One period later: never earlier than the next day.
LEMMA PeriodLater ==
    ASSUME NEW d \in 1..LastDay, frequency \in Frequencies
    PROVE  AddPeriod(d) \in Nat /\ d < AddPeriod(d)
<1>1. frequency \in {"weekly", "fortnightly", "four_weekly", "monthly", "quarterly"}
    BY RentChargesAssumption
<1>l. LastDay \in Nat
    BY LastDayTyped
<1>2. ASSUME NEW k \in 1..3
      PROVE  AddMonths(d, k) \in Nat /\ d < AddMonths(d, k)
    <2> DEFINE m == MonthOf(d)
               n == Cardinality(Months)
    <2>1. /\ m \in Months /\ m \in 1..(n + 1) /\ m + 1 \in 1..(n + 1)
          /\ DaysBefore[m] < d /\ d <= DaysBefore[m + 1]
          /\ DaysBefore[m] \in Nat /\ DaysBefore[m + 1] \in Nat
        BY DayHasMonth, NextMonth
    <2>n. n \in Nat /\ Months = 1..n
        BY MonthsCounted
    <2>2. AddMonths(d, k) = IF m + k \in Months
                            THEN DaysBefore[m + k] + (d - DaysBefore[m])
                            ELSE LastDay + 1
        BY DEF AddMonths
    <2> HIDE DEF m, n
    <2>3. CASE m + k \in Months
        <3>1. m + k \in 1..(n + 1) /\ (m + 1 = m + k \/ m + 1 < m + k)
            BY <2>1, <2>n, <2>3
        <3>2. DaysBefore[m + k] \in Nat /\ DaysBefore[m + 1] <= DaysBefore[m + k]
            BY <3>1, <2>1, NextMonth, <2>3, DaysBeforeGrows DEF n
        <3> QED BY <3>2, <2>1, <2>2, <2>3
    <2>4. CASE m + k \notin Months
        BY <2>2, <2>4, <1>l
    <2> QED BY <2>3, <2>4
<1>3. CASE frequency = "weekly"
    BY <1>3 DEF AddPeriod
<1>4. CASE frequency = "fortnightly"
    BY <1>4 DEF AddPeriod
<1>5. CASE frequency = "four_weekly"
    BY <1>5 DEF AddPeriod
<1>6. CASE frequency = "monthly"
    <2>1. AddPeriod(d) = AddMonths(d, 1)
        BY <1>6 DEF AddPeriod
    <2> QED BY <2>1, <1>2
<1>7. CASE frequency = "quarterly"
    <2>1. AddPeriod(d) = AddMonths(d, 3)
        BY <1>7 DEF AddPeriod
    <2> QED BY <2>1, <1>2
<1> QED BY <1>1, <1>3, <1>4, <1>5, <1>6, <1>7

-----------------------------------------------------------------------------
(* The charges of a tenancy.                                                *)
-----------------------------------------------------------------------------
MonthlyByThe28th == frequency = "monthly" /\ startDate <= 28
\* The due date of month m, for a monthly rent that starts by the 28th.
Due(m) == startDate + DaysBefore[m]

\* A date is the first one or follows a known one, and has every earlier month's
\* date before it. Without a start date there is no such schedule.
Follows(d, known) ==
    startDate # NoStart =>
       /\ d = startDate \/ \E e \in known : AddPeriod(e) = d
       /\ MonthlyByThe28th => \E m \in Months : /\ d = Due(m)
                                                /\ \A i \in 1..(m - 1) : Due(i) \in known

ChargeRunTyped == chargeRun \in [ChargeRuns -> [candidate: Nat, today: Nat]]

\* What is known follows, and so does what a run is about to insert.
InSchedule ==
    /\ \A d \in CameUp : Follows(d, CameUp)
    /\ \A r \in ChargeRuns : Charging(r) => Follows(chargeRun[r].candidate, CameUp)

ChargeInv == ChargeTypeOK /\ ChargeRunTyped /\ InSchedule

LEMMA NotChargingTyped ==
    /\ NotCharging \in [candidate: Nat, today: Nat]
    /\ NotCharging.candidate = 0
BY DEF NotCharging

LEMMA TodayOnCalendar ==
    ASSUME NEW d \in Todays
    PROVE  d \in Nat \ {0} /\ d <= LastDay
BY RentChargesAssumption, CalendarAssumption

LEMMA ChargeInvInit == ChargeInit => ChargeInv
<1> SUFFICES ASSUME ChargeInit PROVE ChargeInv
    OBVIOUS
<1>1. \A r \in ChargeRuns : chargeRun[r] = NotCharging
    BY DEF ChargeInit
<1>2. ChargeRunTyped
    BY NotChargingTyped DEF ChargeInit, ChargeRunTyped
<1>3. mishaps \in 0..MaxMishaps
    BY RentChargesAssumption DEF ChargeInit
<1>4. ChargeTypeOK
    BY <1>1, <1>3 DEF ChargeInit, ChargeTypeOK
<1>5. InSchedule
    BY <1>1 DEF ChargeInit, InSchedule, CameUp, Charging
<1> QED BY <1>2, <1>4, <1>5 DEF ChargeInv

LEMMA FollowsGrows ==
    ASSUME NEW known, NEW more, known \subseteq more, NEW d, Follows(d, known)
    PROVE  Follows(d, more)
BY DEF Follows

\* The first date, if the calendar has it.
LEMMA StartFollows ==
    ASSUME ChargeInv, startDate <= LastDay, startDate # NoStart, NEW known
    PROVE  Follows(startDate, known)
<1>1. startDate \in Nat \ {0}
    BY RentChargesAssumption DEF ChargeInv, ChargeTypeOK, NoStart
<1>2. 1 \in Months /\ DaysBefore[1] = 0
    <2>1. Cardinality(Months) # 0
        <3>1. Cardinality(Months) = 0 => LastDay = 0
            BY DaysBeforeValues DEF LastDay
        <3> QED BY <3>1, <1>1
    <2> QED BY <2>1, MonthsCounted, DaysBeforeValues
<1>3. startDate = Due(1)
    BY <1>1, <1>2 DEF Due
<1> QED BY <1>2, <1>3 DEF Follows

\* A due date lies in its month.
LEMMA DueInMonth ==
    ASSUME ChargeInv, MonthlyByThe28th, startDate # NoStart, NEW m \in Months
    PROVE  MonthOf(Due(m)) = m /\ Due(m) \in Nat /\ Due(m) - DaysBefore[m] = startDate
<1>1. startDate \in Nat \ {0} /\ startDate <= 28
    BY RentChargesAssumption DEF ChargeInv, ChargeTypeOK, MonthlyByThe28th, NoStart
<1>2. DaysBefore[m] \in Nat /\ DaysBefore[m + 1] \in Nat /\ DaysBefore[m] + 28 <= DaysBefore[m + 1]
    BY NextMonth
<1> DEFINE d == Due(m)
<1>3. d = startDate + DaysBefore[m]
    BY DEF Due
<1> HIDE DEF d
<1>4. d \in Int /\ DaysBefore[m] < d /\ d <= DaysBefore[m + 1] /\ d - DaysBefore[m] = startDate
    BY <1>1, <1>2, <1>3
<1>5. MonthOf(d) = m
    BY <1>4, OneMonthOf
<1> QED BY <1>1, <1>2, <1>3, <1>4, <1>5 DEF d

\* One period after a known date, if the calendar has it.
LEMMA PeriodFollows ==
    ASSUME ChargeInv, NEW known, NEW d \in known, d \in 1..LastDay, Follows(d, known),
           AddPeriod(d) <= LastDay
    PROVE  Follows(AddPeriod(d), known)
<1> SUFFICES ASSUME MonthlyByThe28th, startDate # NoStart
             PROVE  \E m \in Months : /\ AddPeriod(d) = Due(m)
                                      /\ \A i \in 1..(m - 1) : Due(i) \in known
    BY DEF Follows
<1>1. PICK m \in Months : d = Due(m) /\ \A i \in 1..(m - 1) : Due(i) \in known
    BY DEF Follows
<1>2. MonthOf(d) = m /\ d - DaysBefore[m] = startDate
    BY <1>1, DueInMonth
<1>3. AddPeriod(d) = IF m + 1 \in Months THEN DaysBefore[m + 1] + (d - DaysBefore[m])
                     ELSE LastDay + 1
    BY <1>2 DEF MonthlyByThe28th, AddPeriod, AddMonths
<1>4. m + 1 \in Months
    BY <1>3, LastDayTyped
<1>5. AddPeriod(d) = Due(m + 1)
    <2>1. DaysBefore[m + 1] \in Nat
        BY <1>4, NextMonth
    <2>2. startDate \in Nat
        BY RentChargesAssumption DEF ChargeInv, ChargeTypeOK
    <2> QED BY <2>1, <2>2, <1>2, <1>3, <1>4 DEF Due
<1>6. \A i \in 1..((m + 1) - 1) : Due(i) \in known
    <2> TAKE i \in 1..((m + 1) - 1)
    <2>1. m \in Nat
        BY MonthsCounted
    <2>2. i = m \/ i \in 1..(m - 1)
        BY <2>1
    <2> QED BY <2>2, <1>1
<1> QED BY <1>4, <1>5, <1>6

\* The last due date is one of the charges.
LEMMA LastDueIsCharge ==
    ASSUME ChargeInv, charges # {}
    PROVE  LastDue \in charges
<1> DEFINE back == {LastDay - d : d \in charges}
<1>1. charges \subseteq 1..LastDay /\ LastDay \in Nat
    BY LastDayTyped DEF ChargeInv, ChargeTypeOK
<1>2. back \in SUBSET Nat /\ back # {}
    <2>1. \A d \in charges : LastDay - d \in Nat
        BY <1>1
    <2> QED BY <2>1
<1>3. PICK m \in back : \A n \in back : m <= n
    BY <1>2, LeastOf
<1>4. PICK d \in charges : m = LastDay - d
    BY <1>3
<1>5. \A e \in charges : e <= d
    <2> TAKE e \in charges
    <2>1. LastDay - d <= LastDay - e
        BY <1>3, <1>4
    <2> QED BY <2>1, <1>1
<1> QED BY <1>5 DEF LastDue

\* What the loop starts with, if it is due.
LEMMA FirstCandidateFollows ==
    ASSUME ChargeInv, FirstCandidate <= today
    PROVE  FirstCandidate \in 1..today /\ Follows(FirstCandidate, CameUp)
<1>t. ChargeTypeOK /\ InSchedule
    BY DEF ChargeInv
<1>1. today \in Nat \ {0} /\ today <= LastDay /\ LastDay \in Nat
    BY <1>t, TodayOnCalendar, LastDayTyped DEF ChargeTypeOK
<1>2. CASE charges = {}
    <2>1. FirstCandidate = FirstDue
        BY <1>2 DEF FirstCandidate
    <2>2. CASE startDate = NoStart
        <3>1. FirstDue = today
            BY <2>2 DEF FirstDue
        <3> QED BY <2>1, <2>2, <3>1, <1>1 DEF Follows
    <2>3. CASE startDate # NoStart
        <3>1. FirstDue = startDate /\ startDate \in Nat \ {0}
            BY <2>3, <1>t, RentChargesAssumption DEF FirstDue, ChargeTypeOK, NoStart
        <3> QED BY <2>1, <2>3, <3>1, <1>1, StartFollows
    <2> QED BY <2>2, <2>3
<1>3. CASE charges # {}
    <2>1. FirstCandidate = AddPeriod(LastDue) /\ LastDue \in charges
        BY <1>3, LastDueIsCharge DEF FirstCandidate
    <2>2. LastDue \in 1..LastDay /\ LastDue \in CameUp /\ frequency \in Frequencies
        BY <2>1, <1>t DEF ChargeTypeOK, CameUp
    <2>3. AddPeriod(LastDue) \in Nat /\ LastDue < AddPeriod(LastDue)
        BY <2>2, PeriodLater
    <2>4. Follows(LastDue, CameUp)
        BY <2>2, <1>t DEF InSchedule
    <2>5. AddPeriod(LastDue) <= LastDay
        BY <2>1, <2>3, <1>1
    <2>6. Follows(AddPeriod(LastDue), CameUp)
        BY <2>2, <2>4, <2>5, PeriodFollows
    <2> QED BY <2>1, <2>2, <2>3, <2>6, <1>1
<1> QED BY <1>2, <1>3

\* What a run is about to insert.
LEMMA CandidateKnows ==
    ASSUME ChargeInv, NEW r \in ChargeRuns, Charging(r)
    PROVE  /\ chargeRun[r] \in [candidate: Nat, today: Nat]
           /\ chargeRun[r].candidate \in 1..chargeRun[r].today /\ chargeRun[r].today \in Todays
           /\ chargeRun[r].candidate \in 1..LastDay
           /\ Follows(chargeRun[r].candidate, CameUp)
<1>1. /\ chargeRun[r] \in [candidate: Nat, today: Nat]
      /\ chargeRun[r].candidate \in 1..chargeRun[r].today /\ chargeRun[r].today \in Todays
      /\ Follows(chargeRun[r].candidate, CameUp)
    BY DEF ChargeInv, ChargeTypeOK, ChargeRunTyped, InSchedule, Charging
<1>2. chargeRun[r].today \in Nat /\ chargeRun[r].today <= LastDay /\ LastDay \in Nat
    BY <1>1, TodayOnCalendar, LastDayTyped
<1>3. chargeRun[r].candidate \in 1..LastDay
    BY <1>1, <1>2
<1> QED BY <1>1, <1>3

\* A place a run may stand at, when the dates in known are known.
Stands(run, known) ==
    \/ run = NotCharging
    \/ /\ run \in [candidate: Nat, today: Nat]
       /\ run.candidate \in 1..run.today /\ run.today \in Todays
       /\ Follows(run.candidate, known)

LEMMA NextCandidateStands ==
    ASSUME ChargeInv, NEW r \in ChargeRuns, Charging(r),
           NEW known, CameUp \subseteq known, chargeRun[r].candidate \in known
    PROVE  Stands(NextCandidate(r), known)
<1> DEFINE c == chargeRun[r].candidate
<1>1. /\ chargeRun[r] \in [candidate: Nat, today: Nat]
      /\ chargeRun[r].today \in Todays
      /\ c \in 1..LastDay /\ Follows(c, CameUp)
    BY CandidateKnows
<1>2. chargeRun[r].today \in Nat /\ chargeRun[r].today <= LastDay /\ LastDay \in Nat
    BY <1>1, TodayOnCalendar, LastDayTyped
<1>3. frequency \in Frequencies
    BY DEF ChargeInv, ChargeTypeOK
<1>4. AddPeriod(c) \in Nat /\ c < AddPeriod(c)
    BY <1>1, <1>3, PeriodLater
<1>5. CASE AddPeriod(c) > chargeRun[r].today
    BY <1>5 DEF NextCandidate, Stands
<1>6. CASE ~ (AddPeriod(c) > chargeRun[r].today)
    <2> DEFINE next == [chargeRun[r] EXCEPT !.candidate = AddPeriod(c)]
    <2>1. NextCandidate(r) = next
        BY <1>6, <1>1 DEF NextCandidate
    <2>2. /\ next \in [candidate: Nat, today: Nat]
          /\ next.candidate = AddPeriod(c) /\ next.today = chargeRun[r].today
        BY <1>1, <1>4
    <2>3. AddPeriod(c) <= LastDay /\ AddPeriod(c) \in 1..chargeRun[r].today
        BY <1>1, <1>2, <1>4, <1>6
    <2>4. Follows(AddPeriod(c), known)
        BY <2>3, <1>1, FollowsGrows, PeriodFollows
    <2> HIDE DEF next
    <2> QED BY <2>1, <2>2, <2>3, <2>4, <1>1 DEF Stands
<1> QED BY <1>5, <1>6

\* A step of one run that keeps what is known.
LEMMA ChargeRunMoves ==
    ASSUME ChargeInv, NEW r \in ChargeRuns, NEW new,
           chargeRun' = [chargeRun EXCEPT ![r] = new],
           UNCHANGED <<startDate, frequency, today, byHand, paid, deleted>>,
           CameUp \subseteq CameUp', \A d \in CameUp' : Follows(d, CameUp'),
           charges \subseteq charges', charges' \subseteq 1..LastDay, lost' \subseteq 1..LastDay,
           mishaps' \in 0..MaxMishaps,
           Stands(new, CameUp')
    PROVE  ChargeInv'
<1>t. ChargeTypeOK /\ ChargeRunTyped /\ InSchedule
    BY DEF ChargeInv
<1>1. new \in [candidate: Nat, today: Nat]
    BY NotChargingTyped DEF Stands
<1>2. /\ chargeRun'[r] = new
      /\ \A q \in ChargeRuns \ {r} : chargeRun'[q] = chargeRun[q]
      /\ chargeRun' \in [ChargeRuns -> [candidate: Nat, today: Nat]]
    BY <1>1, <1>t DEF ChargeRunTyped
<1>3. ASSUME NEW q \in ChargeRuns
      PROVE  Stands(chargeRun'[q], CameUp')
    <2>1. CASE q = r
        BY <2>1, <1>2
    <2>2. CASE q # r
        <3>1. CASE ~ Charging(q)
            BY <3>1, <2>2, <1>2 DEF Charging, Stands
        <3>2. CASE Charging(q)
            <4>1. Follows(chargeRun[q].candidate, CameUp')
                BY <3>2, CandidateKnows, FollowsGrows
            <4> QED BY <4>1, <3>2, <2>2, <1>2, CandidateKnows DEF Stands
        <3> QED BY <3>1, <3>2
    <2> QED BY <2>1, <2>2
<1>4. ChargeTypeOK'
    <2>1. \A q \in ChargeRuns :
            \/ chargeRun'[q] = NotCharging
            \/ /\ chargeRun'[q].candidate \in 1..chargeRun'[q].today
               /\ chargeRun'[q].today \in Todays
        BY <1>3 DEF Stands
    <2>2. paid' \subseteq charges'
        BY <1>t DEF ChargeTypeOK
    <2> QED BY <2>1, <2>2, <1>t DEF ChargeTypeOK
<1>5. ChargeRunTyped'
    BY <1>2 DEF ChargeRunTyped
<1>6. InSchedule'
    <2>1. \A q \in ChargeRuns :
            chargeRun'[q] # NotCharging => Follows(chargeRun'[q].candidate, CameUp')
        BY <1>3 DEF Stands
    <2>2. \A d : AddPeriod(d)' = AddPeriod(d)
        BY DEF AddPeriod
    <2>3. \A m : Due(m)' = Due(m)
        BY DEF Due
    <2>4. MonthlyByThe28th' = MonthlyByThe28th
        BY DEF MonthlyByThe28th
    <2> QED BY <2>1, <2>2, <2>3, <2>4 DEF InSchedule, Follows, Charging
<1> QED BY <1>4, <1>5, <1>6 DEF ChargeInv

\* A step that leaves the runs alone and forgets no date.
LEMMA ChargesMove ==
    ASSUME ChargeInv, ChargeTypeOK', UNCHANGED <<startDate, frequency, chargeRun>>,
           CameUp' = CameUp
    PROVE  ChargeInv'
<1>t. ChargeTypeOK /\ ChargeRunTyped /\ InSchedule
    BY DEF ChargeInv
<1>1. ChargeRunTyped'
    BY <1>t DEF ChargeRunTyped
<1>2. InSchedule'
    <2>2. \A d : AddPeriod(d)' = AddPeriod(d)
        BY DEF AddPeriod
    <2>3. \A m : Due(m)' = Due(m)
        BY DEF Due
    <2>4. MonthlyByThe28th' = MonthlyByThe28th
        BY DEF MonthlyByThe28th
    <2> QED BY <2>2, <2>3, <2>4, <1>t DEF InSchedule, Follows, Charging
<1> QED BY <1>1, <1>2 DEF ChargeInv

LEMMA MishapCounted ==
    ASSUME ChargeInv, Mishap
    PROVE  mishaps' \in 0..MaxMishaps
BY RentChargesAssumption DEF ChargeInv, ChargeTypeOK, Mishap

LEMMA StartChargingKeeps ==
    ASSUME ChargeInv, NEW r \in ChargeRuns, StartCharging(r)
    PROVE  ChargeInv'
<1>t. ChargeTypeOK /\ InSchedule
    BY DEF ChargeInv
<1>s. UNCHANGED <<startDate, frequency, today, charges, byHand, paid, mishaps, deleted, lost>>
    BY DEF StartCharging
<1>k. CameUp' = CameUp
    BY <1>s DEF CameUp
<1>1. CASE FirstCandidate <= today
    <2> DEFINE new == [candidate |-> FirstCandidate, today |-> today]
    <2>1. today \in Nat /\ today \in Todays
        BY <1>t, TodayOnCalendar DEF ChargeTypeOK
    <2>2. FirstCandidate \in 1..today /\ Follows(FirstCandidate, CameUp)
        BY <1>1, FirstCandidateFollows
    <2>3. Stands(new, CameUp')
        BY <2>1, <2>2, <1>k DEF Stands
    <2>4. chargeRun' = [chargeRun EXCEPT ![r] = new]
        BY <1>1 DEF StartCharging
    <2> HIDE DEF new
    <2>5. /\ charges \subseteq charges' /\ charges' \subseteq 1..LastDay
          /\ lost' \subseteq 1..LastDay /\ mishaps' \in 0..MaxMishaps
        BY <1>s, <1>t DEF ChargeTypeOK
    <2>6. CameUp \subseteq CameUp' /\ \A d \in CameUp' : Follows(d, CameUp')
        BY <1>k, <1>t DEF InSchedule
    <2> QED BY <1>s, <2>3, <2>4, <2>5, <2>6, ChargeRunMoves
<1>2. CASE ~ (FirstCandidate <= today)
    <2>1. UNCHANGED chargeRun
        BY <1>2 DEF StartCharging
    <2>2. ChargeTypeOK'
        BY <1>s, <2>1, <1>t DEF ChargeTypeOK
    <2> QED BY <1>s, <1>k, <2>1, <2>2, ChargesMove
<1> QED BY <1>1, <1>2

LEMMA InsertChargeKeeps ==
    ASSUME ChargeInv, NEW r \in ChargeRuns, InsertCharge(r)
    PROVE  ChargeInv'
<1>t. ChargeTypeOK /\ InSchedule
    BY DEF ChargeInv
<1> DEFINE c == chargeRun[r].candidate
<1>1. c \in 1..LastDay /\ Follows(c, CameUp)
    BY CandidateKnows DEF InsertCharge
<1>s. /\ charges' = charges \cup {c}
      /\ chargeRun' = [chargeRun EXCEPT ![r] = NextCandidate(r)]
      /\ UNCHANGED <<startDate, frequency, today, byHand, paid, mishaps, deleted, lost>>
    BY DEF InsertCharge
<1>2. CameUp' = CameUp \cup {c}
    BY <1>s DEF CameUp
<1>3. \A d \in CameUp' : Follows(d, CameUp')
    BY <1>1, <1>2, <1>t, FollowsGrows DEF InSchedule
<1>4. Stands(NextCandidate(r), CameUp')
    BY <1>2, NextCandidateStands DEF InsertCharge
<1>5. /\ charges \subseteq charges' /\ charges' \subseteq 1..LastDay
      /\ lost' \subseteq 1..LastDay /\ mishaps' \in 0..MaxMishaps
    BY <1>s, <1>1, <1>t DEF ChargeTypeOK
<1> HIDE DEF c
<1> QED BY <1>s, <1>2, <1>3, <1>4, <1>5, ChargeRunMoves

LEMMA InsertFailsKeeps ==
    ASSUME ChargeInv, NEW r \in ChargeRuns, InsertFails(r)
    PROVE  ChargeInv'
<1>t. ChargeTypeOK /\ InSchedule
    BY DEF ChargeInv
<1> DEFINE c == chargeRun[r].candidate
<1>1. c \in 1..LastDay /\ Follows(c, CameUp)
    BY CandidateKnows DEF InsertFails
<1>s. /\ lost' = lost \cup ({c} \ charges)
      /\ chargeRun' = [chargeRun EXCEPT ![r] = NextCandidate(r)]
      /\ UNCHANGED <<startDate, frequency, today, charges, byHand, paid, deleted>>
    BY DEF InsertFails
<1>2. CameUp' = CameUp \cup {c}
    BY <1>s DEF CameUp
<1>3. \A d \in CameUp' : Follows(d, CameUp')
    BY <1>1, <1>2, <1>t, FollowsGrows DEF InSchedule
<1>4. Stands(NextCandidate(r), CameUp')
    BY <1>2, NextCandidateStands DEF InsertFails
<1>5. /\ charges \subseteq charges' /\ charges' \subseteq 1..LastDay /\ lost' \subseteq 1..LastDay
    BY <1>s, <1>1, <1>t DEF ChargeTypeOK
<1>6. mishaps' \in 0..MaxMishaps
    BY MishapCounted DEF InsertFails
<1> HIDE DEF c
<1> QED BY <1>s, <1>2, <1>3, <1>4, <1>5, <1>6, ChargeRunMoves

LEMMA ChargeRunEndsKeeps ==
    ASSUME ChargeInv, NEW r \in ChargeRuns, ChargeRunEnds(r)
    PROVE  ChargeInv'
<1>t. ChargeTypeOK /\ InSchedule
    BY DEF ChargeInv
<1>s. /\ chargeRun' = [chargeRun EXCEPT ![r] = NotCharging]
      /\ UNCHANGED <<startDate, frequency, today, charges, byHand, paid, deleted, lost>>
    BY DEF ChargeRunEnds
<1>1. CameUp' = CameUp /\ \A d \in CameUp' : Follows(d, CameUp')
    BY <1>s, <1>t DEF CameUp, InSchedule
<1>2. Stands(NotCharging, CameUp')
    BY DEF Stands
<1>3. /\ charges \subseteq charges' /\ charges' \subseteq 1..LastDay /\ lost' \subseteq 1..LastDay
    BY <1>s, <1>t DEF ChargeTypeOK
<1>4. mishaps' \in 0..MaxMishaps
    BY MishapCounted DEF ChargeRunEnds
<1> QED BY <1>s, <1>1, <1>2, <1>3, <1>4, ChargeRunMoves

LEMMA PeoplesChargesKeep ==
    ASSUME ChargeInv,
           \/ \E d \in charges : MarkPaid(d) \/ DeleteCharge(d)
           \/ \E d \in HandDates : AddChargeByHand(d)
           \/ TimePasses
    PROVE  ChargeInv'
<1>t. ChargeTypeOK
    BY DEF ChargeInv
<1>1. ASSUME NEW d \in charges, MarkPaid(d) PROVE ChargeInv'
    <2>1. ChargeTypeOK'
        BY <1>1, <1>t DEF MarkPaid, ChargeTypeOK
    <2> QED BY <1>1, <2>1, ChargesMove DEF MarkPaid, CameUp
<1>2. ASSUME NEW d \in charges, DeleteCharge(d) PROVE ChargeInv'
    <2>1. mishaps' \in 0..MaxMishaps
        BY <1>2, MishapCounted DEF DeleteCharge
    <2>2. ChargeTypeOK'
        BY <1>2, <2>1, <1>t DEF DeleteCharge, ChargeTypeOK
    <2>3. CameUp' = CameUp
        BY <1>2 DEF DeleteCharge, CameUp
    <2> QED BY <1>2, <2>2, <2>3, ChargesMove DEF DeleteCharge
<1>3. ASSUME NEW d \in HandDates, AddChargeByHand(d) PROVE ChargeInv'
    <2>1. ChargeTypeOK'
        BY <1>3, <1>t DEF AddChargeByHand, ChargeTypeOK
    <2> QED BY <1>3, <2>1, ChargesMove DEF AddChargeByHand, CameUp
<1>4. ASSUME TimePasses PROVE ChargeInv'
    <2>1. ChargeTypeOK'
        BY <1>4, <1>t DEF TimePasses, ChargeTypeOK
    <2> QED BY <1>4, <2>1, ChargesMove DEF TimePasses, CameUp
<1> QED BY <1>1, <1>2, <1>3, <1>4

LEMMA ChargeInvNext == ChargeInv /\ [ChargeNext]_chargeVars => ChargeInv'
<1> SUFFICES ASSUME ChargeInv, [ChargeNext]_chargeVars PROVE ChargeInv'
    OBVIOUS
<1>1. ASSUME NEW r \in ChargeRuns, ChargeStep(r) \/ InsertFails(r) \/ ChargeRunEnds(r)
      PROVE  ChargeInv'
    BY <1>1, StartChargingKeeps, InsertChargeKeeps, InsertFailsKeeps, ChargeRunEndsKeeps
       DEF ChargeStep
<1>2. CASE UNCHANGED chargeVars
    <2>1. ChargeTypeOK'
        BY <1>2 DEF chargeVars, ChargeInv, ChargeTypeOK
    <2> QED BY <1>2, <2>1, ChargesMove DEF chargeVars, CameUp
<1> QED BY <1>1, <1>2, PeoplesChargesKeep DEF ChargeNext

LEMMA ChargesAlways == ChargeSpec => []ChargeInv
BY ChargeInvInit, ChargeInvNext, PTL DEF ChargeSpec

\* Charges, runs and dates stay on the calendar, and a run is never ahead of its
\* own day, for any calendar, frequency and start of the tenancy.
THEOREM ChargeTypeCorrect == ChargeSpec => []ChargeTypeOK
<1>1. ChargeInv => ChargeTypeOK
    BY DEF ChargeInv
<1> QED BY <1>1, ChargesAlways, PTL

\* The schedule of a tenancy with a start date has no hole and no double: every
\* charge follows another by one period, and a monthly rent that starts by the
\* 28th is due once in every month up to any charge. For any calendar of months of 28 to 31 days, however many
\* runs overlap, fail or end half way, and whatever people add or delete.
THEOREM ScheduleAlwaysFull == ChargeSpec => []EveryPeriodCharged
<1>1. ChargeInv => EveryPeriodCharged
    <2> SUFFICES ASSUME ChargeInv PROVE EveryPeriodCharged
        OBVIOUS
    <2> SUFFICES ASSUME startDate # NoStart
                 PROVE  /\ \A d \in charges : d = startDate \/ \E e \in CameUp : AddPeriod(e) = d
                        /\ MonthlyByThe28th =>
                              \A e \in charges : \A m \in MonthOf(startDate)..MonthOf(e) :
                                  Cardinality({d \in CameUp : MonthOf(d) = m}) = 1
        BY DEF EveryPeriodCharged, MonthlyByThe28th
    <2>t. \A d \in CameUp : Follows(d, CameUp)
        BY DEF ChargeInv, InSchedule
    <2>1. \A d \in charges : d = startDate \/ \E e \in CameUp : AddPeriod(e) = d
        BY <2>t DEF Follows, CameUp
    <2>2. ASSUME MonthlyByThe28th, NEW e \in charges, NEW m \in MonthOf(startDate)..MonthOf(e)
          PROVE  Cardinality({d \in CameUp : MonthOf(d) = m}) = 1
        <3>1. PICK last \in Months : e = Due(last) /\ \A i \in 1..(last - 1) : Due(i) \in CameUp
            BY <2>t, <2>2 DEF Follows, CameUp
        <3>2. MonthOf(e) = last
            BY <3>1, <2>2, DueInMonth
        <3>3. Months = 1..Cardinality(Months) /\ Cardinality(Months) \in Nat
            BY MonthsCounted
        <3>4. 1 \in Months
            BY <3>1, <3>3
        <3>5. MonthOf(startDate) = 1
            <4>1. startDate \in Nat
                BY RentChargesAssumption DEF ChargeInv, ChargeTypeOK
            <4>2. Due(1) = startDate
                BY <4>1, DaysBeforeValues DEF Due
            <4> QED BY <4>2, <3>4, <2>2, DueInMonth
        <3>6. m \in 1..last /\ m \in Months
            BY <3>2, <3>3, <3>5, <2>2
        <3>7. Due(m) \in CameUp
            <4>1. m = last \/ m \in 1..(last - 1)
                BY <3>3, <3>6
            <4> QED BY <4>1, <3>1 DEF CameUp
        <3>8. ASSUME NEW d \in CameUp, MonthOf(d) = m PROVE d = Due(m)
            <4>1. PICK k \in Months : d = Due(k)
                BY <2>t, <2>2 DEF Follows
            <4>2. k = m
                BY <4>1, <3>8, <2>2, DueInMonth
            <4> QED BY <4>1, <4>2
        <3>9. {d \in CameUp : MonthOf(d) = m} = {Due(m)}
            BY <3>6, <3>7, <3>8, <2>2, DueInMonth
        <3> QED BY <3>9, FS_Singleton
    <2> QED BY <2>1, <2>2
<1> QED BY <1>1, ChargesAlways, PTL

-----------------------------------------------------------------------------
(* The ledger: each behaviour explores one component.                       *)
-----------------------------------------------------------------------------
LedgerInv ==
    /\ ArrearsInv /\ ChargeInv
    /\ BankInv /\ BankNamed
    /\ StripeTyped

LEMMA LedgerInvInit == LedgerInit => LedgerInv
BY ArrearsInvInit, ChargeInvInit, BankInvInit, BankNamedInit, StripeTypedInit
   DEF LedgerInit, LedgerInv

LEMMA LedgerInvNext == LedgerInv /\ [LedgerNext]_ledgerVars => LedgerInv'
<1> SUFFICES ASSUME LedgerInv, [LedgerNext]_ledgerVars PROVE LedgerInv'
    OBVIOUS
<1>1. /\ [ArrearsNext]_arrearsVars /\ [ChargeNext]_chargeVars
      /\ [BankNext]_bankVars /\ [StripeNext]_stripeVars
    BY DEF LedgerNext, ledgerVars
<1> QED BY <1>1, ArrearsInvNext, ChargeInvNext, BankInvNext, BankNamedNext, StripeTypedNext
        DEF LedgerInv

\* The four components of the ledger together: every table, run, request and
\* handler is well typed.
THEOREM LedgerTypeCorrect == LedgerSpec => []LedgerTypeOK
<1>1. LedgerInv => LedgerTypeOK
    <2>1. LedgerInv => ArrearsTypeOK /\ ChargeTypeOK
        BY DEF LedgerInv, ArrearsInv, ChargeInv
    <2>2. LedgerInv => BankTypeOK
        BY BankInvTyped DEF LedgerInv
    <2>3. LedgerInv => StripeTypeOK
        BY StripeTypedTyped DEF LedgerInv
    <2> QED BY <2>1, <2>2, <2>3 DEF LedgerTypeOK
<1> QED BY <1>1, LedgerInvInit, LedgerInvNext, PTL DEF LedgerSpec
=============================================================================
