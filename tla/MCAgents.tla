------------------------------ MODULE MCAgents ------------------------------
(***************************************************************************)
(* Five scheduled agents that share no rows in these models: each          *)
(* behaviour explores one of them, and the others stay where they start.   *)
(***************************************************************************)
EXTENDS InsuranceRenewal, IssueTriage, InteractionMemory, RegulationWatch,
        ComplianceWatch, TLC

CONSTANTS Parts, n1, n2, p1, p2, l1, l2, h1, h2

VARIABLE part \* the agent this behaviour explores

\* A note with two promises, and a session that repeats its first.
MCTableOf == n1 :> 1 @@ n2 :> 2
MCTextOf == n1 :> <<p1, p2>> @@ n2 :> <<p1, p1, p2>>

\* One law for both homes, and one whose scope is unknown.
MCConcerns == l1 :> {h1, h2} @@ l2 :> {}

MCCertNames == {"EPC", "EICR (commercial)"}
MCCertBase == [n \in MCCertNames |-> IF n = "EPC" THEN "epc" ELSE "eicr"]
MCCertDays == {30, 365}

agentVars == <<part, renewalVars, triageVars, memoryVars, lawVars, certVars>>

AgentsInit ==
    /\ part \in Parts
    /\ RenewalInit /\ TriageInit /\ MemoryInit /\ LawInit /\ CertInit

AgentsNext ==
    /\ UNCHANGED part
    /\ \/ part = "renewal" /\ RenewalNext
          /\ UNCHANGED <<triageVars, memoryVars, lawVars, certVars>>
       \/ part = "tickets" /\ TriageNext
          /\ UNCHANGED <<renewalVars, memoryVars, lawVars, certVars>>
       \/ part = "notes" /\ MemoryNext
          /\ UNCHANGED <<renewalVars, triageVars, lawVars, certVars>>
       \/ part = "laws" /\ LawNext
          /\ UNCHANGED <<renewalVars, triageVars, memoryVars, certVars>>
       \/ part = "certificates" /\ CertNext
          /\ UNCHANGED <<renewalVars, triageVars, memoryVars, lawVars>>

\* Each agent is scheduled again and again, and what began a run goes on with it.
AgentsFairness ==
    /\ \A r \in RenewalRuns : WF_renewalVars(part = "renewal" /\ RenewalStep(r))
    /\ \A r \in TriageRuns : WF_triageVars(part = "tickets" /\ TriageStep(r))
    /\ \A r \in MemoryRuns : WF_memoryVars(part = "notes" /\ MemoryStep(r))
    /\ \A r \in WatchRuns : WF_lawVars(part = "laws" /\ LawStep(r))
    /\ \A r \in CertRuns : WF_certVars(part = "certificates" /\ CertStep(r))

AgentsSpec == AgentsInit /\ [][AgentsNext]_agentVars /\ AgentsFairness

(* Every agent's state is well typed. *)
AgentsTypeOK == RenewalTypeOK /\ TriageTypeOK /\ MemoryTypeOK /\ LawTypeOK /\ CertTypeOK

(* Whatever runs overlap or end half way, each agent catches up with its     *)
(* input once that stands still: a policy in its lead time is before a       *)
(* person, tickets are triaged, notes summarised and late promises marked,   *)
(* laws on record, and alerts say what the certificates do (or two of one    *)
(* name were once open, after which the watch may throw for ever).           *)
AgentsCatchUp ==
    <>[](/\ RenewalReached
         /\ reported \subseteq triaged
         /\ NothingForgotten
         /\ recorded = inFeed
         /\ part = "certificates" => CertsWatched)

(* The memory of contacts and the law watch put what follows from an item on *)
(* record after the item was marked, once, and never take it back.           *)
AgentsLiftOnce == MemoryLiftsOnce /\ LawsLiftedOnce
=============================================================================
