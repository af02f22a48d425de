---------------------------- MODULE RentCharges -----------------------------
(***************************************************************************)
(* The charges of one active tenancy: the rent-reconciliation agent raises *)
(* every charge from the last one (or the start of the tenancy) to today,  *)
(* one insert per period, each a transaction of its own whose error is     *)
(* swallowed; people add charges by hand, mark them as paid and delete     *)
(* them. Runs of the agent may overlap and end half way.                   *)
(*                                                                         *)
(* A date is a day number: day 1 is the first day of month 1.              *)
(***************************************************************************)
EXTENDS Integers, FiniteSets, Sequences

CONSTANTS
    MonthLengths, \* days of each month of the calendar (a bound)
    Frequencies,  \* rent_frequency of the tenancy, one of
    StartDates,   \* start_date, one of; NoStart is NULL
    Todays,       \* the days on which something may happen (a bound)
    ChargeRuns,   \* runs of the agent that may overlap (a bound)
    HandDates,    \* due dates of charges that are added by hand (a bound)
    MarkDates,    \* due dates of charges that are marked as paid (a bound)
    MaxMishaps    \* how often an insert or a run fails, or a charge is deleted (a bound)

Months == DOMAIN MonthLengths
NoStart == 0

ASSUME RentChargesAssumption ==
    /\ MonthLengths \in Seq(28..31)
    /\ Frequencies \subseteq {"weekly", "fortnightly", "four_weekly", "monthly", "quarterly"}
    /\ StartDates \subseteq Nat
    /\ Todays \subseteq Nat \ {0}
    /\ HandDates \subseteq Nat
    /\ MaxMishaps \in Nat

VARIABLES
    startDate, frequency, \* start_date and rent_frequency
    today,     \* the current day
    charges,   \* due dates of the rows of service_charges with this tenancy_id
    byHand,    \* due dates of the tenant's rows without one
    paid,      \* due dates of the agent's rows that are marked is_paid
    chargeRun, \* chargeRun[r]: candidate and today of a run
    mishaps,   \* failures and deletions so far
    deleted,   \* due dates whose row was deleted
    lost       \* due dates whose insert failed and was swallowed

chargeVars == <<startDate, frequency, today, charges, byHand, paid, chargeRun, mishaps, deleted, lost>>

-----------------------------------------------------------------------------
\* DaysBefore[m]: the days before month m.
DaysBefore[m \in 1..(Cardinality(Months) + 1)] ==
    IF m = 1 THEN 0 ELSE DaysBefore[m - 1] + MonthLengths[m - 1]
LastDay == DaysBefore[Cardinality(Months) + 1]
\* Nothing happens after the calendar ends.
ASSUME CalendarAssumption == \A d \in Todays : d <= LastDay

MonthOf(d) == CHOOSE m \in Months : DaysBefore[m] < d /\ d <= DaysBefore[m + 1]

\* setUTCMonth keeps the day of the month, and a day the month does not have
\* runs over into the next one. Past the calendar there are no dates.
AddMonths(d, n) ==
    IF MonthOf(d) + n \in Months
    THEN DaysBefore[MonthOf(d) + n] + (d - DaysBefore[MonthOf(d)])
    ELSE LastDay + 1

AddPeriod(d) ==
    CASE frequency = "weekly" -> d + 7
      [] frequency = "fortnightly" -> d + 14
      [] frequency = "four_weekly" -> d + 28
      [] frequency = "monthly" -> AddMonths(d, 1)
      [] frequency = "quarterly" -> AddMonths(d, 3)

LastDue == CHOOSE d \in charges : \A e \in charges : e <= d

\* A tenancy without a start date is charged from the day of the run.
FirstDue == IF startDate = NoStart THEN today ELSE startDate

\* Variants of FirstCandidate: the last charge is raised again; the charges
\* that were added by hand count as well.
FirstFromLast == IF charges = {} THEN FirstDue ELSE LastDue
FirstAfterAny ==
    IF charges \cup byHand = {} THEN FirstDue
    ELSE AddPeriod(CHOOSE d \in charges \cup byHand : \A e \in charges \cup byHand : e <= d)
FirstCandidate == IF charges = {} THEN FirstDue ELSE AddPeriod(LastDue)

NotCharging == [candidate |-> 0, today |-> 0]
Charging(r) == chargeRun[r] # NotCharging
Mishap == mishaps < MaxMishaps /\ mishaps' = mishaps + 1

\* The loop goes on to the next period, whatever the insert did.
NextCandidate(r) ==
    IF AddPeriod(chargeRun[r].candidate) > chargeRun[r].today THEN NotCharging
    ELSE [chargeRun[r] EXCEPT !.candidate = AddPeriod(@)]

-----------------------------------------------------------------------------
\* The last due date, read before the loop, which may find nothing due. (Its
\* 500 periods are no bound here.)
StartCharging(r) ==
    /\ ~ Charging(r)
    /\ chargeRun' = IF FirstCandidate <= today
                    THEN [chargeRun EXCEPT ![r] = [candidate |-> FirstCandidate,
                                                   today |-> today]]
                    ELSE chargeRun
    /\ UNCHANGED <<startDate, frequency, today, charges, byHand, paid, mishaps, deleted, lost>>

\* The unique index turns a second insert into an error that is swallowed.
InsertCharge(r) ==
    /\ Charging(r)
    /\ charges' = charges \cup {chargeRun[r].candidate}
    /\ chargeRun' = [chargeRun EXCEPT ![r] = NextCandidate(r)]
    /\ UNCHANGED <<startDate, frequency, today, byHand, paid, mishaps, deleted, lost>>

\* Any other error is swallowed as well.
InsertFails(r) ==
    /\ Charging(r)
    /\ Mishap
    /\ chargeRun' = [chargeRun EXCEPT ![r] = NextCandidate(r)]
    /\ lost' = lost \cup ({chargeRun[r].candidate} \ charges)
    /\ UNCHANGED <<startDate, frequency, today, charges, byHand, paid, deleted>>

ChargeRunEnds(r) ==
    /\ Charging(r)
    /\ Mishap
    /\ chargeRun' = [chargeRun EXCEPT ![r] = NotCharging]
    /\ UNCHANGED <<startDate, frequency, today, charges, byHand, paid, deleted, lost>>

\* POST /api/service-charges: the schema drops tenancy_id, so neither the index
\* nor the agent's look at the last charge sees the row.
AddChargeByHand(d) ==
    /\ d \notin byHand
    /\ byHand' = byHand \cup {d}
    /\ UNCHANGED <<startDate, frequency, today, charges, paid, chargeRun, mishaps, deleted, lost>>

\* PATCH /api/service-charges/[id]
MarkPaid(d) ==
    /\ d \in charges \cap MarkDates
    /\ paid' \in {paid \cup {d}, paid \ {d}}
    /\ UNCHANGED <<startDate, frequency, today, charges, byHand, chargeRun, mishaps, deleted, lost>>

\* DELETE /api/service-charges/[id]
DeleteCharge(d) ==
    /\ d \in charges
    /\ Mishap
    /\ charges' = charges \ {d}
    /\ paid' = paid \ {d}
    /\ deleted' = deleted \cup {d}
    /\ UNCHANGED <<startDate, frequency, today, byHand, chargeRun, lost>>

TimePasses ==
    /\ today' \in {d \in Todays : d > today}
    /\ UNCHANGED <<startDate, frequency, charges, byHand, paid, chargeRun, mishaps, deleted, lost>>

-----------------------------------------------------------------------------
ChargeInit ==
    /\ startDate \in StartDates
    /\ frequency \in Frequencies
    /\ today \in {d \in Todays : \A e \in Todays : d <= e}
    /\ charges = {} /\ byHand = {} /\ paid = {}
    /\ chargeRun = [r \in ChargeRuns |-> NotCharging]
    /\ mishaps = 0 /\ deleted = {} /\ lost = {}

ChargeStep(r) == StartCharging(r) \/ InsertCharge(r)

ChargeNext ==
    \/ \E r \in ChargeRuns : ChargeStep(r) \/ InsertFails(r) \/ ChargeRunEnds(r)
    \/ \E d \in charges : MarkPaid(d) \/ DeleteCharge(d)
    \/ \E d \in HandDates : AddChargeByHand(d)
    \/ TimePasses

ChargeSpec == ChargeInit /\ [][ChargeNext]_chargeVars
\* The agent is scheduled every day.
ChargeFairness == \A r \in ChargeRuns : WF_chargeVars(ChargeStep(r))

-----------------------------------------------------------------------------
(* Rows and runs hold dates, and no run is ahead of its own today. *)
ChargeTypeOK ==
    /\ startDate \in StartDates
    /\ frequency \in Frequencies
    /\ today \in Todays
    /\ charges \subseteq 1..LastDay
    /\ byHand \subseteq HandDates
    /\ paid \subseteq charges
    /\ \A r \in ChargeRuns :
          \/ chargeRun[r] = NotCharging
          \/ /\ chargeRun[r].candidate \in 1..chargeRun[r].today
             /\ chargeRun[r].today \in Todays
    /\ mishaps \in 0..MaxMishaps
    /\ deleted \subseteq 1..LastDay
    /\ lost \subseteq 1..LastDay

\* Every date that ever came up to be charged: its row may have been deleted
\* since, or its insert may have failed.
CameUp == charges \cup deleted \cup lost

(* Overlapping runs, runs that ended half way and charges added by hand do   *)
(* not shift the schedule of a tenancy with a start date or leave a hole in  *)
(* it: a charge is the first one, or comes one period after another, which   *)
(* may have been deleted since or whose insert may have failed; and a        *)
(* monthly rent that starts by the 28th is due once in every month up to the *)
(* last charge, with the same two exceptions. (A rent that starts later      *)
(* skips February. Without a start date every run that finds no charge       *)
(* begins a schedule on its own day, and two runs on two days begin two.)    *)
EveryPeriodCharged ==
    startDate # NoStart =>
       /\ \A d \in charges : d = startDate \/ \E e \in CameUp : AddPeriod(e) = d
       /\ frequency = "monthly" /\ startDate <= 28 =>
             \A e \in charges : \A m \in MonthOf(startDate)..MonthOf(e) :
                 Cardinality({d \in CameUp : MonthOf(d) = m}) = 1

\* Every date up to today that the start date calls for has come up.
ScheduleCameUp ==
    /\ startDate <= today => startDate \in CameUp
    /\ \A e \in CameUp : AddPeriod(e) <= today => AddPeriod(e) \in CameUp

(* In the end the charges reach the present: the date after the last charge *)
(* lies ahead, so a deleted or lost last charge was raised again; and with a *)
(* start date every date up to today is charged, but for the dates whose     *)
(* insert failed or whose row was deleted before a later one went in, which  *)
(* no run goes back to.                                                      *)
ChargesCatchUp ==
    <>[](FirstCandidate > today /\ (startDate # NoStart => ScheduleCameUp))
=============================================================================
