---------------------------- MODULE IssueTriage -----------------------------
(***************************************************************************)
(* Repair tickets: the agent picks those without a severity, and for each  *)
(* of them writes its classification, calls the trade when it dispatches   *)
(* an emergency by itself, and opens a dispatch job. Nothing is unique in  *)
(* dispatch_jobs, the ticket is not looked at again before it is written,  *)
(* and every statement is a transaction of its own.                        *)
(***************************************************************************)
EXTENDS Naturals, FiniteSets

CONSTANTS
    Tickets,        \* rows of maintenance_tickets (a bound)
    TriageRuns,     \* runs of the agent that may overlap (a bound)
    MaxTriageFaults \* how often a run ends half way (a bound)

ASSUME TriageAssumption == MaxTriageFaults \in Nat

VARIABLES
    reported,      \* tickets that exist
    resolved,      \* tickets with status Resolved
    triaged,       \* tickets with a severity
    tradeCalls,    \* e-mails to a trade about each ticket
    dispatchJobs,  \* rows of dispatch_jobs of each ticket
    triageRun,     \* what each run is at
    triageFaults,  \* faults so far
    pickedTwice,   \* tickets two runs had picked at once
    undispatched   \* tickets a run had written and not dispatched when it ended

ticketVars == <<reported, resolved, triaged, tradeCalls, dispatchJobs>>
triageVars == <<ticketVars, triageRun, triageFaults, pickedTwice, undispatched>>

NoTicket == {}
\* queue: the tickets a run has picked; seen: those that were resolved then;
\* at: what comes next; ticket: the one it is about.
TriageOff == [queue |-> {}, seen |-> {}, at |-> "off", ticket |-> NoTicket]
Picked == UNION {triageRun[q].queue : q \in TriageRuns}

\* Variant of Candidates: tickets that were triaged are picked again.
AnyTicket == reported
Candidates == reported \ triaged

-----------------------------------------------------------------------------
\* POST /api/maintenance and /api/tenant-portal/tickets
ReportTicket(t) ==
    /\ t \notin reported
    /\ reported' = reported \cup {t}
    /\ UNCHANGED <<resolved, triaged, tradeCalls, dispatchJobs, triageRun, triageFaults,
                   pickedTwice, undispatched>>

\* PATCH /api/maintenance/[id], whatever the agent is doing.
ResolveTicket(t) ==
    /\ t \in reported \ resolved
    /\ resolved' = resolved \cup {t}
    /\ UNCHANGED <<reported, triaged, tradeCalls, dispatchJobs, triageRun, triageFaults,
                   pickedTwice, undispatched>>

\* The tickets and their status are read once; resolved ones are picked as well.
PickTickets(r) ==
    /\ triageRun[r] = TriageOff
    /\ triageRun' = IF Candidates = {} THEN triageRun
                    ELSE [triageRun EXCEPT ![r] = [queue |-> Candidates, seen |-> resolved,
                                                   at |-> "write", ticket |-> NoTicket]]
    /\ pickedTwice' = pickedTwice \cup (Candidates \cap Picked)
    /\ UNCHANGED <<ticketVars, triageFaults, undispatched>>

\* The classification, by id: a dispatched ticket is in progress, any other has
\* the status that was read before.
WriteTriage(r, t, dispatch) ==
    /\ triageRun[r].at = "write"
    /\ t \in triageRun[r].queue
    /\ triaged' = triaged \cup {t}
    /\ resolved' = IF t \in triageRun[r].seen /\ ~ dispatch THEN resolved \cup {t}
                                                           ELSE resolved \ {t}
    /\ triageRun' = [triageRun EXCEPT ![r].ticket = {t},
                                      ![r].at = IF dispatch THEN "call" ELSE "open"]
    /\ UNCHANGED <<reported, tradeCalls, dispatchJobs, triageFaults, pickedTwice, undispatched>>

\* The trade is told before the job is written.
CallTrade(r) ==
    /\ triageRun[r].at = "call"
    /\ tradeCalls' = [t \in Tickets |-> IF t \in triageRun[r].ticket THEN tradeCalls[t] + 1
                                                                     ELSE tradeCalls[t]]
    /\ triageRun' = [triageRun EXCEPT ![r].at = "open"]
    /\ UNCHANGED <<reported, resolved, triaged, dispatchJobs, triageFaults, pickedTwice,
                   undispatched>>

\* A dispatched job, or a proposal for a person; then the next ticket.
OpenJob(r) ==
    /\ triageRun[r].at = "open"
    /\ dispatchJobs' = [t \in Tickets |-> IF t \in triageRun[r].ticket THEN dispatchJobs[t] + 1
                                                                       ELSE dispatchJobs[t]]
    /\ LET rest == triageRun[r].queue \ triageRun[r].ticket
       IN  triageRun' = [triageRun EXCEPT ![r] =
              IF rest = {} THEN TriageOff
              ELSE [@ EXCEPT !.queue = rest, !.at = "write", !.ticket = NoTicket]]
    /\ UNCHANGED <<reported, resolved, triaged, tradeCalls, triageFaults, pickedTwice,
                   undispatched>>

\* The mail or a statement throws, or the worker is gone.
TriageEnds(r) ==
    /\ triageRun[r] # TriageOff
    /\ triageFaults < MaxTriageFaults
    /\ triageFaults' = triageFaults + 1
    /\ undispatched' = undispatched \cup triageRun[r].ticket
    /\ triageRun' = [triageRun EXCEPT ![r] = TriageOff]
    /\ UNCHANGED <<ticketVars, pickedTwice>>

-----------------------------------------------------------------------------
TriageInit ==
    /\ reported = {} /\ resolved = {} /\ triaged = {}
    /\ tradeCalls = [t \in Tickets |-> 0]
    /\ dispatchJobs = [t \in Tickets |-> 0]
    /\ triageRun = [r \in TriageRuns |-> TriageOff]
    /\ triageFaults = 0 /\ pickedTwice = {} /\ undispatched = {}

TriageStep(r) ==
    \/ PickTickets(r) \/ CallTrade(r) \/ OpenJob(r)
    \/ \E t \in Tickets, dispatch \in BOOLEAN : WriteTriage(r, t, dispatch)

TriageNext ==
    \/ \E t \in Tickets : ReportTicket(t) \/ ResolveTicket(t)
    \/ \E r \in TriageRuns : TriageStep(r) \/ TriageEnds(r)

TriageSpec == TriageInit /\ [][TriageNext]_triageVars
\* The agent is scheduled again and again.
TriageFairness == \A r \in TriageRuns : WF_triageVars(TriageStep(r))

-----------------------------------------------------------------------------
(* Rows and runs hold what the code may write, and nothing is known of a *)
(* ticket that was not reported.                                         *)
TriageTypeOK ==
    /\ reported \subseteq Tickets
    /\ resolved \subseteq reported /\ triaged \subseteq reported
    /\ tradeCalls \in [Tickets -> Nat] /\ dispatchJobs \in [Tickets -> Nat]
    /\ \A t \in Tickets : tradeCalls[t] + dispatchJobs[t] > 0 => t \in triaged
    /\ triageRun \in [TriageRuns -> {TriageOff} \cup
          [queue: SUBSET reported, seen: SUBSET reported, at: {"write", "call", "open"},
           ticket: {NoTicket} \cup {{t} : t \in triaged}]]
    /\ triageFaults \in 0..MaxTriageFaults
    /\ pickedTwice \subseteq reported /\ undispatched \subseteq triaged

(* The severity is written first and decides that a ticket is a candidate no *)
(* more; even so a trade is called once, and a triaged ticket that no run is *)
(* at has exactly one job, unless two runs had picked it at once or the run  *)
(* ended before the job was written.                                         *)
TicketHandledOnce ==
    \A t \in reported \ pickedTwice :
        /\ tradeCalls[t] <= 1
        /\ t \in triaged /\ (\A r \in TriageRuns : triageRun[r].ticket # {t}) =>
             dispatchJobs[t] = 1 \/ (t \in undispatched /\ dispatchJobs[t] = 0)
=============================================================================
