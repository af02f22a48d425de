-------------------------- MODULE InsuranceRenewal --------------------------
(***************************************************************************)
(* The renewal of one insurance policy: the agent opens a cycle when the   *)
(* renewal date is near, gathers quotes and puts the cycle before a        *)
(* person, who decides. Runs of the agent and requests of people overlap,  *)
(* every statement is a transaction of its own, and the renewal date never *)
(* changes: no code updates a policy.                                      *)
(***************************************************************************)
EXTENDS Naturals, FiniteSets

CONSTANTS
    RenewalRuns,     \* runs of the agent that may overlap (a bound)
    Underwriters,    \* requests to the decision route that may overlap (a bound)
    MaxCycles,       \* rows of insurance_renewal_cycles (a bound)
    MaxRenewalFaults \* how often a run ends half way (a bound)

ASSUME RenewalAssumption == MaxCycles \in Nat /\ MaxRenewalFaults \in Nat

CycleIds == 1..MaxCycles  \* in the order of their creation

VARIABLES
    inLead,        \* the renewal date is within renewal_lead_days
    cycleStatus,   \* status of each cycle
    quoteRounds,   \* how often quotes were gathered for each cycle
    cycleDecisions, \* how often each cycle was decided
    renewalRun,    \* what each run is at
    underwriter,   \* the cycle each request has found awaiting its decision
    renewalFaults, \* faults so far
    sharedCycles   \* cycles two runs, or two requests, were at together

renewalVars == <<inLead, cycleStatus, quoteRounds, cycleDecisions, renewalRun,
                 underwriter, renewalFaults, sharedCycles>>

NoCycle == 0
Off == [at |-> "off", cycle |-> NoCycle]
Opened == {c \in CycleIds : cycleStatus[c] # "none"}

Finished == {"decided", "lapsed"}
Unfinished == {c \in Opened : cycleStatus[c] \notin Finished}
Latest == CHOOSE c \in Unfinished : \A d \in Unfinished : d <= c

-----------------------------------------------------------------------------
LeadTimeBegins ==
    /\ ~ inLead
    /\ inLead' = TRUE
    /\ UNCHANGED <<cycleStatus, quoteRounds, cycleDecisions, renewalRun, underwriter,
                   renewalFaults, sharedCycles>>

\* Variants of QuotedAlready: a cycle at the card is quoted again; one that was
\* only detected is left alone.
QuotedNever(c) == FALSE
QuotedOnceOpened(c) == cycleStatus[c] # "none"
QuotedAlready(c) == cycleStatus[c] \in {"awaiting_decision", "decided"}

\* The latest unfinished cycle; one that is at the card already is left alone.
FindCycle(r) ==
    /\ inLead
    /\ renewalRun[r] = Off
    /\ IF Unfinished = {}
       THEN renewalRun' = [renewalRun EXCEPT ![r].at = "none_found"]
       ELSE IF QuotedAlready(Latest) THEN UNCHANGED renewalRun
       ELSE renewalRun' = [renewalRun EXCEPT ![r] = [at |-> "quoting", cycle |-> Latest]]
    /\ sharedCycles' = sharedCycles \cup
          {c \in Unfinished : c = Latest /\ \E q \in RenewalRuns : renewalRun[q].cycle = c}
    /\ UNCHANGED <<inLead, cycleStatus, quoteRounds, cycleDecisions, underwriter,
                   renewalFaults>>

\* Past MaxCycles the run gives up (a bound).
CreateCycle(r) ==
    /\ renewalRun[r].at = "none_found"
    /\ IF Opened = CycleIds
       THEN /\ renewalRun' = [renewalRun EXCEPT ![r] = Off]
            /\ UNCHANGED cycleStatus
       ELSE LET c == Cardinality(Opened) + 1
            IN  /\ cycleStatus' = [cycleStatus EXCEPT ![c] = "detected"]
                /\ renewalRun' = [renewalRun EXCEPT ![r] = [at |-> "quoting", cycle |-> c]]
    /\ UNCHANGED <<inLead, quoteRounds, cycleDecisions, underwriter, renewalFaults,
                   sharedCycles>>

GatherQuotes(r) ==
    /\ renewalRun[r].at = "quoting"
    /\ quoteRounds' = [quoteRounds EXCEPT ![renewalRun[r].cycle] = @ + 1]
    /\ renewalRun' = [renewalRun EXCEPT ![r].at = "quoted"]
    /\ UNCHANGED <<inLead, cycleStatus, cycleDecisions, underwriter, renewalFaults,
                   sharedCycles>>

\* By id alone: a cycle that was decided meanwhile is back at the card.
PutToDecision(r) ==
    /\ renewalRun[r].at = "quoted"
    /\ cycleStatus' = [cycleStatus EXCEPT ![renewalRun[r].cycle] = "awaiting_decision"]
    /\ renewalRun' = [renewalRun EXCEPT ![r] = Off]
    /\ UNCHANGED <<inLead, quoteRounds, cycleDecisions, underwriter, renewalFaults,
                   sharedCycles>>

RenewalRunEnds(r) ==
    /\ renewalRun[r] # Off
    /\ renewalFaults < MaxRenewalFaults
    /\ renewalFaults' = renewalFaults + 1
    /\ renewalRun' = [renewalRun EXCEPT ![r] = Off]
    /\ UNCHANGED <<inLead, cycleStatus, quoteRounds, cycleDecisions, underwriter,
                   sharedCycles>>

\* POST /api/insurance/decision: the status is checked, then written by id.
DecisionCheck(p, c) ==
    /\ underwriter[p] = NoCycle
    /\ cycleStatus[c] = "awaiting_decision"
    /\ underwriter' = [underwriter EXCEPT ![p] = c]
    /\ sharedCycles' = sharedCycles \cup {d \in {c} : \E q \in Underwriters : underwriter[q] = d}
    /\ UNCHANGED <<inLead, cycleStatus, quoteRounds, cycleDecisions, renewalRun,
                   renewalFaults>>

DecisionWrite(p) ==
    /\ underwriter[p] # NoCycle
    /\ cycleStatus' = [cycleStatus EXCEPT ![underwriter[p]] = "decided"]
    /\ cycleDecisions' = [cycleDecisions EXCEPT ![underwriter[p]] = @ + 1]
    /\ underwriter' = [underwriter EXCEPT ![p] = NoCycle]
    /\ UNCHANGED <<inLead, quoteRounds, renewalRun, renewalFaults, sharedCycles>>

-----------------------------------------------------------------------------
RenewalInit ==
    /\ inLead = FALSE
    /\ cycleStatus = [c \in CycleIds |-> "none"]
    /\ quoteRounds = [c \in CycleIds |-> 0]
    /\ cycleDecisions = [c \in CycleIds |-> 0]
    /\ renewalRun = [r \in RenewalRuns |-> Off]
    /\ underwriter = [p \in Underwriters |-> NoCycle]
    /\ renewalFaults = 0
    /\ sharedCycles = {}

RenewalStep(r) == FindCycle(r) \/ CreateCycle(r) \/ GatherQuotes(r) \/ PutToDecision(r)

RenewalNext ==
    \/ LeadTimeBegins
    \/ \E r \in RenewalRuns : RenewalStep(r) \/ RenewalRunEnds(r)
    \/ \E p \in Underwriters : DecisionWrite(p) \/ \E c \in CycleIds : DecisionCheck(p, c)

RenewalSpec == RenewalInit /\ [][RenewalNext]_renewalVars
\* The agent runs every day; people need not decide.
RenewalFairness == \A r \in RenewalRuns : WF_renewalVars(RenewalStep(r))

-----------------------------------------------------------------------------
(* Rows, runs and requests hold what the code may write, and only a decided *)
(* or awaiting cycle has a decision.                                        *)
RenewalTypeOK ==
    /\ inLead \in BOOLEAN
    /\ cycleStatus \in [CycleIds -> {"none", "detected", "awaiting_decision", "decided"}]
    /\ quoteRounds \in [CycleIds -> Nat]
    /\ cycleDecisions \in [CycleIds -> Nat]
    /\ renewalRun \in [RenewalRuns ->
          {Off, [at |-> "none_found", cycle |-> NoCycle]}
          \cup [at: {"quoting", "quoted"}, cycle: Opened]]
    /\ underwriter \in [Underwriters -> {NoCycle} \cup Opened]
    /\ renewalFaults \in 0..MaxRenewalFaults
    /\ sharedCycles \subseteq Opened
    /\ \A c \in CycleIds : cycleDecisions[c] > 0 => quoteRounds[c] > 0

(* A person decides a cycle once: no late run brings it back to the card and *)
(* no second request overwrites the decision, unless two runs or two         *)
(* requests were at the cycle together; and it is quoted once, runs that     *)
(* ended half way aside.                                                     *)
CycleDecidedOnce ==
    \A c \in CycleIds \ sharedCycles :
        cycleDecisions[c] <= 1 /\ quoteRounds[c] <= 1 + renewalFaults

(* "A cycle is created once per policy and left alone once it reaches       *)
(* awaiting_decision or decided ... quotes are gathered exactly once per    *)
(* renewal".                                                                *)
QuotedOncePerRenewal == Cardinality(Opened) <= 1

(* A policy in its lead time comes before a person. *)
RenewalReached ==
    inLead => \E c \in CycleIds : cycleStatus[c] \in {"awaiting_decision", "decided"}
=============================================================================
