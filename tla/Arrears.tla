------------------------------ MODULE Arrears -------------------------------
(***************************************************************************)
(* The arrears ladder of one tenant: every run of the agent takes one look *)
(* at the tenancy_arrears view, then opens, advances or closes the         *)
(* tenant's case and, for a rung that has no event yet, drafts the         *)
(* document, sends it when the rung needs no approval, and records the     *)
(* event. Each statement is a transaction of its own and nothing is unique *)
(* in arrears_cases or arrears_events, so runs that overlap (a job handed  *)
(* back under a live run, see JobQueue) and runs that end half way matter. *)
(***************************************************************************)
EXTENDS Naturals, FiniteSets, Sequences

CONSTANTS
    LadderRuns,     \* runs of the agent that may overlap (a bound)
    MaxCases,       \* rows of arrears_cases (a bound)
    UnitClasses,    \* the classes the tenant's unit may take
    Days,           \* ages of the oldest unpaid charge that are told apart
    MaxUpsets       \* how often the debt or the class changes, or a run ends half
                    \* way (a bound)

ASSUME ArrearsAssumption ==
    /\ MaxCases \in Nat
    /\ UnitClasses \subseteq {"supported", "residential", "commercial"}
    /\ Days \subseteq Nat \ {0}
    /\ MaxUpsets \in Nat

VARIABLES
    debt,      \* age in days of the oldest unpaid charge, or Cleared
    unitClass, \* unit_class of the tenant's unit
    cases,     \* the arrears_cases table
    events,    \* events[c][s]: rows of arrears_events for case c and stage s
    reminders, \* reminders[c]: e-mails sent to the tenant for case c
    ladderRun, \* what each run knows
    upsets,    \* changes and faults so far
    lookedTwice, \* a run opened a case under another run that had found none
    sentTwice  \* cases whose reminder may go out again

arrearsVars == <<debt, unitClass, cases, events, reminders, ladderRun,
                 upsets, lookedTwice, sentTwice>>

-----------------------------------------------------------------------------
\* ARREARS_LADDER: the day and the stage of every rung.
Ladder ==
    [supported   |-> << <<7, "check_in">>, <<14, "hb_chase">>, <<28, "support_plan">>,
                        <<56, "formal_letter">>, <<90, "manager_review">> >>,
     residential |-> << <<5, "reminder">>, <<14, "formal_letter">>,
                        <<30, "solicitor">>, <<60, "notice">> >>,
     commercial  |-> << <<5, "reminder">>, <<14, "formal_letter">>, <<21, "solicitor">>,
                        <<45, "forfeiture">>, <<60, "bailiff">> >>]

Stages == UNION {{Ladder[k][i][2] : i \in DOMAIN Ladder[k]} : k \in UnitClasses}

\* balance <= 0, or no charge is past due: oldest_unpaid is before today.
Cleared == 0
NoStage == "none"

\* The furthest rung reached at d days, 0 when under the first.
RungForDays(k, d) == Cardinality({i \in DOMAIN Ladder[k] : Ladder[k][i][1] <= d})

\* 0 for a stage that is no rung of the class.
StageIndex(k, s) ==
    IF \E i \in DOMAIN Ladder[k] : Ladder[k][i][2] = s
    THEN CHOOSE i \in DOMAIN Ladder[k] : Ladder[k][i][2] = s
    ELSE 0

NeedsApproval(k, s) == StageIndex(k, s) # 1
TenantFacing == {"reminder", "formal_letter"}

CaseIds == 1..MaxCases  \* in the order of their creation
NoCase == 0
Unopened == [open |-> FALSE, stage |-> NoStage]
\* Variant of NewCase: the stage is left out of the record.
NewCaseUnstaged(s) == [open |-> TRUE, stage |-> NoStage]
NewCase(s) == [open |-> TRUE, stage |-> s]

OpenCases == {c \in CaseIds : cases[c].open}

Idle == [at |-> "idle"]
\* What a run knows: the row of the view, the case, and the case's stage.
Knows == [at: {"row", "case", "event", "drafted", "sent"},
          days: Days \cup {Cleared}, class: UnitClasses,
          case: CaseIds \cup {NoCase}, stage: Stages \cup {NoStage}]

Rung(r) == RungForDays(ladderRun[r].class, ladderRun[r].days)
RungStage(r) == Ladder[ladderRun[r].class][Rung(r)][2]
Behind(r) == StageIndex(ladderRun[r].class, ladderRun[r].stage)

At(r, step) == ladderRun[r].at = step
Goes(r, step) == ladderRun' = [ladderRun EXCEPT ![r].at = step]
Ends(r) == ladderRun' = [ladderRun EXCEPT ![r] = Idle]
Upset == upsets < MaxUpsets /\ upsets' = upsets + 1
Owing(r) == ladderRun[r].days # Cleared /\ Rung(r) > 0

\* Variant of Found: only a case that stands at the run's rung is looked for.
FoundAtRung(r) ==
    {c \in OpenCases : StageIndex(ladderRun[r].class, cases[c].stage) = Rung(r)}

\* The open case: opened_on is a date, so any of several may come first.
Found(r) == OpenCases

-----------------------------------------------------------------------------
\* The row of tenancy_arrears, read once at the start of the run.
ReadArrears(r) ==
    /\ At(r, "idle")
    /\ ladderRun' = [ladderRun EXCEPT ![r] =
          [at |-> "row", days |-> debt, class |-> unitClass, case |-> NoCase, stage |-> NoStage]]
    /\ UNCHANGED <<debt, unitClass, cases, events, reminders, upsets,
                   lookedTwice, sentTwice>>

FindCase(r) ==
    /\ At(r, "row")
    /\ IF Found(r) = {} THEN Goes(r, "case")
       ELSE \E c \in Found(r) :
              ladderRun' = [ladderRun EXCEPT ![r].at = "case", ![r].case = c,
                                             ![r].stage = cases[c].stage]
    /\ UNCHANGED <<debt, unitClass, cases, events, reminders, upsets,
                   lookedTwice, sentTwice>>

\* The balance is cleared, or the rung moved back: the update is by id.
CloseCase(r) ==
    /\ At(r, "case")
    /\ ladderRun[r].case # NoCase
    /\ \/ ladderRun[r].days = Cleared
       \/ Owing(r) /\ Rung(r) < Behind(r)
    /\ cases' = [cases EXCEPT ![ladderRun[r].case].open = FALSE]
    /\ Ends(r)
    /\ UNCHANGED <<debt, unitClass, events, reminders, upsets,
                   lookedTwice, sentTwice>>

\* Nothing to do: cleared without a case, or under the first rung.
LeaveCase(r) ==
    /\ At(r, "case")
    /\ \/ ladderRun[r].days = Cleared /\ ladderRun[r].case = NoCase
       \/ ladderRun[r].days # Cleared /\ Rung(r) = 0
    /\ Ends(r)
    /\ UNCHANGED <<debt, unitClass, cases, events, reminders, upsets,
                   lookedTwice, sentTwice>>

OpenCase(r) ==
    /\ At(r, "case")
    /\ Owing(r)
    /\ ladderRun[r].case = NoCase
    /\ \E c \in CaseIds :
        /\ c - 1 = Cardinality({d \in CaseIds : cases[d] # Unopened})
        /\ cases' = [cases EXCEPT ![c] = NewCase(RungStage(r))]
        /\ ladderRun' = [ladderRun EXCEPT ![r].at = "event", ![r].case = c,
                                          ![r].stage = RungStage(r)]
    /\ lookedTwice' = (lookedTwice \/
          \E q \in LadderRuns \ {r} : At(q, "case") /\ ladderRun[q].case = NoCase)
    /\ UNCHANGED <<debt, unitClass, events, reminders, upsets, sentTwice>>

\* The rung is the case's stage or further down the ladder.
AdvanceCase(r) ==
    /\ At(r, "case")
    /\ Owing(r)
    /\ ladderRun[r].case # NoCase
    /\ Rung(r) >= Behind(r)
    /\ cases' = IF Rung(r) > Behind(r)
                THEN [cases EXCEPT ![ladderRun[r].case].stage = RungStage(r)]
                ELSE cases
    /\ ladderRun' = [ladderRun EXCEPT ![r].at = "event", ![r].stage = RungStage(r)]
    /\ UNCHANGED <<debt, unitClass, events, reminders, upsets,
                   lookedTwice, sentTwice>>

\* Variants of HasEvent: any event of the case; no event is looked for.
HasAnyEvent(c, s) == \E t \in Stages : events[c][t] > 0
HasNoEvent(c, s) == FALSE
HasEvent(c, s) == events[c][s] > 0

Emails(r) ==
    /\ ~ NeedsApproval(ladderRun[r].class, ladderRun[r].stage)
    /\ ladderRun[r].stage \in TenantFacing

\* Another run is past the check for the same case and stage.
SameLetter(r, q) ==
    /\ ladderRun[q].at \in {"drafted", "sent"}
    /\ ladderRun[q].case = ladderRun[r].case
    /\ ladderRun[q].stage = ladderRun[r].stage

\* The rung has its event already, or its document is filed.
Draft(r) ==
    /\ At(r, "event")
    /\ IF HasEvent(ladderRun[r].case, ladderRun[r].stage)
       THEN Ends(r) /\ UNCHANGED sentTwice
       ELSE /\ Goes(r, "drafted")
            /\ sentTwice' = sentTwice \cup
                  {c \in {ladderRun[r].case} : \E q \in LadderRuns : SameLetter(r, q)}
    /\ UNCHANGED <<debt, unitClass, cases, events, reminders, upsets,
                   lookedTwice>>

\* Only the first rung goes out by itself.
SendReminder(r) ==
    /\ At(r, "drafted")
    /\ Emails(r)
    /\ reminders' = [reminders EXCEPT ![ladderRun[r].case] = @ + 1]
    /\ Goes(r, "sent")
    /\ UNCHANGED <<debt, unitClass, cases, events, upsets, lookedTwice,
                   sentTwice>>

\* Held for approval, released at once, or sent.
RecordEvent(r) ==
    /\ At(r, "sent") \/ (At(r, "drafted") /\ ~ Emails(r))
    /\ events' = [events EXCEPT ![ladderRun[r].case][ladderRun[r].stage] = @ + 1]
    /\ Ends(r)
    /\ UNCHANGED <<debt, unitClass, cases, reminders, upsets,
                   lookedTwice, sentTwice>>

\* The worker is gone or a statement throws: the job is tried again from the
\* start. A reminder that went out without its event is forgotten.
RunFails(r) ==
    /\ ~ At(r, "idle")
    /\ Upset
    /\ sentTwice' = IF At(r, "sent") THEN sentTwice \cup {ladderRun[r].case} ELSE sentTwice
    /\ Ends(r)
    /\ UNCHANGED <<debt, unitClass, cases, events, reminders, lookedTwice>>

\* Charges fall due and age, payments clear the oldest ones first, and a
\* manager may give the unit another class.
DebtChanges ==
    /\ Upset
    /\ \/ debt' \in (Days \cup {Cleared}) \ {debt} /\ UNCHANGED unitClass
       \/ unitClass' \in UnitClasses \ {unitClass} /\ UNCHANGED debt
    /\ UNCHANGED <<cases, events, reminders, ladderRun, lookedTwice, sentTwice>>

-----------------------------------------------------------------------------
ArrearsInit ==
    /\ debt \in Days \cup {Cleared}
    /\ unitClass \in UnitClasses
    /\ cases = [c \in CaseIds |-> Unopened]
    /\ events = [c \in CaseIds |-> [s \in Stages |-> 0]]
    /\ reminders = [c \in CaseIds |-> 0]
    /\ ladderRun = [r \in LadderRuns |-> Idle]
    /\ upsets = 0
    /\ lookedTwice = FALSE
    /\ sentTwice = {}

LadderStep(r) ==
    \/ ReadArrears(r) \/ FindCase(r) \/ CloseCase(r) \/ LeaveCase(r) \/ OpenCase(r)
    \/ AdvanceCase(r) \/ Draft(r) \/ SendReminder(r) \/ RecordEvent(r)

ArrearsNext == DebtChanges \/ \E r \in LadderRuns : LadderStep(r) \/ RunFails(r)

ArrearsSpec == ArrearsInit /\ [][ArrearsNext]_arrearsVars

\* The agent is scheduled again and again, and the queue lets every run go on
\* or retries it (see JobQueue).
ArrearsFairness == \A r \in LadderRuns : WF_arrearsVars(LadderStep(r))

-----------------------------------------------------------------------------
(* Tables and runs hold what the code may write: a case that was opened has *)
(* a rung's name for its stage.                                             *)
ArrearsTypeOK ==
    /\ debt \in Days \cup {Cleared}
    /\ unitClass \in UnitClasses
    /\ cases \in [CaseIds -> {Unopened} \cup [open: BOOLEAN, stage: Stages]]
    /\ events \in [CaseIds -> [Stages -> Nat]]
    /\ reminders \in [CaseIds -> Nat]
    /\ ladderRun \in [LadderRuns -> {Idle} \cup Knows]
    /\ upsets \in 0..MaxUpsets
    /\ lookedTwice \in BOOLEAN
    /\ sentTwice \subseteq CaseIds

(* A tenant has one open case at most, although no index says so, unless a *)
(* run opened one under another run that had just found none.              *)
OneOpenCase == lookedTwice \/ Cardinality(OpenCases) <= 1

(* A case's reminder reaches the tenant once, although it is sent before its *)
(* event is recorded, unless the run ended in between or another run had     *)
(* passed the same check.                                                    *)
RemindedOnce == \A c \in CaseIds : reminders[c] <= 1 \/ c \in sentTwice

\* An open case that stands at rung i and has the event of that rung.
ActedOn(i) ==
    \E c \in OpenCases : /\ StageIndex(unitClass, cases[c].stage) = i
                         /\ events[c][cases[c].stage] > 0

(* Debt that stays at a rung ends up with an open case at that rung and the *)
(* rung's event, and once the balance stays cleared every case is closed in *)
(* the end, whatever runs overlapped or ended before.                       *)
LadderFollowsDebt ==
    /\ <>[](debt = Cleared) => <>[](OpenCases = {})
    /\ \A i \in {RungForDays(k, d) : k \in UnitClasses, d \in Days} \ {0} :
          <>[](RungForDays(unitClass, debt) = i) => <>[] ActedOn(i)
=============================================================================
