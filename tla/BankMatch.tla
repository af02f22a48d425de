------------------------------ MODULE BankMatch -----------------------------
(***************************************************************************)
(* Bank transactions become rent payments: the rent-reconciliation agent   *)
(* of every organisation reads the one bank account of the deployment,     *)
(* records a confident match as a payment and queues a weak one in         *)
(* rent_unmatched, where a person confirms or dismisses it. Checks and     *)
(* writes are statements of their own, so runs of the agent and requests   *)
(* of people interleave. A payment that is recorded by hand carries no     *)
(* external_reference, and nothing here ever sees it.                      *)
(***************************************************************************)
EXTENDS Integers, FiniteSets

CONSTANTS
    Orgs,         \* organisations
    Txs,          \* transactions of the bank feed (a bound)
    Evidence,     \* Evidence[o][t]: what o's best candidate has in common with t
    FeedRuns,     \* runs of the agent that may overlap (a bound)
    Clerks,       \* requests to the resolve route that may overlap (a bound)
    MaxFeedFaults \* how often a run or a request ends half way (a bound)

\* What a candidate charge may have in common with a transaction: how much of
\* the reference, and the amount in per cent of the charge.
ReferenceParts == {"full", "first_word", "nothing"}

ASSUME BankMatchAssumption ==
    /\ Evidence \in [Orgs -> [Txs -> [reference: ReferenceParts, percent: Nat]]]
    /\ MaxFeedFaults \in Nat

VARIABLES
    bankPayments, \* rows of rent_payments that carry an external_reference
    unmatched,    \* unmatched[o][t]: the row of rent_unmatched
    feedRun,      \* the transaction each run has found unrecorded
    clerk,        \* what each request to the resolve route is about to write
    feedFaults,   \* faults so far
    expired,      \* transactions whose charge fell due more than 14 days ago
    contested     \* rows confirmed and dismissed by requests that overlapped, or
                  \* confirmed by a request that ended half way

bankVars == <<bankPayments, unmatched, feedRun, clerk, feedFaults, expired,
              contested>>

-----------------------------------------------------------------------------
ReferenceScore(o, t) ==
    CASE Evidence[o][t].reference = "full" -> 100
      [] Evidence[o][t].reference = "first_word" -> 40
      [] Evidence[o][t].reference = "nothing" -> 0

AmountScore(o, t) ==
    CASE Evidence[o][t].percent \in 99..101 -> 100
      [] Evidence[o][t].percent \in (90..110) \ (99..101) -> 50
      [] Evidence[o][t].percent \notin 90..110 -> 10

\* In hundredths.
MatchConfidence(o, t) == (ReferenceScore(o, t) * 50 + AmountScore(o, t) * 50) \div 100

\* Variant of HasCandidate: only the whole reference does.
WholeReferenceOnly(o, t) == t \notin expired /\ ReferenceScore(o, t) = 100
\* Without a sign of the reference of a recent charge there is no candidate,
\* whatever the amount.
HasCandidate(o, t) == t \notin expired /\ ReferenceScore(o, t) # 0

Confident(o, t) == MatchConfidence(o, t) >= 95

PaidIn(t) == {p \in bankPayments : p.tx = t}

\* Variant of MayInsert: the partial unique index on external_reference was
\* not created.
MayInsertAgain(o, t, by) == [org |-> o, tx |-> t, by |-> by] \notin bankPayments
\* The partial unique index on external_reference.
MayInsert(o, t, by) == PaidIn(t) = {}

Row == {"none", "pending", "confirmed", "dismissed"}
Resting == [at |-> "resting"]
FeedFault == feedFaults < MaxFeedFaults /\ feedFaults' = feedFaults + 1

-----------------------------------------------------------------------------
\* Payments of every organisation, rent_unmatched rows of this one.
AlreadyRecorded(o, t) == PaidIn(t) # {} \/ unmatched[o][t] # "none"

\* The next transaction of the feed; those that are recorded or resemble
\* nothing in the ledger are skipped.
TakeTransaction(r, o, t) ==
    /\ feedRun[r] = Resting
    /\ feedRun' = IF AlreadyRecorded(o, t) \/ ~ HasCandidate(o, t)
                  THEN feedRun
                  ELSE [feedRun EXCEPT ![r] = [at |-> "matched", org |-> o, tx |-> t]]
    /\ UNCHANGED <<bankPayments, unmatched, clerk, feedFaults, expired, contested>>

\* A confident match. The index makes the second insert throw: the run ends.
RecordMatch(r) ==
    /\ feedRun[r] # Resting
    /\ LET o == feedRun[r].org
           t == feedRun[r].tx
       IN  /\ Confident(o, t)
           /\ bankPayments' = IF MayInsert(o, t, "agent")
                              THEN bankPayments \cup {[org |-> o, tx |-> t, by |-> "agent"]}
                              ELSE bankPayments
    /\ feedRun' = [feedRun EXCEPT ![r] = Resting]
    /\ UNCHANGED <<unmatched, clerk, feedFaults, expired, contested>>

\* A weak match waits for a person; UNIQUE (org_id, external_reference).
QueueUnmatched(r) ==
    /\ feedRun[r] # Resting
    /\ LET o == feedRun[r].org
           t == feedRun[r].tx
       IN  /\ ~ Confident(o, t)
           /\ unmatched' = IF unmatched[o][t] = "none"
                           THEN [unmatched EXCEPT ![o][t] = "pending"]
                           ELSE unmatched
    /\ feedRun' = [feedRun EXCEPT ![r] = Resting]
    /\ UNCHANGED <<bankPayments, clerk, feedFaults, expired, contested>>

FeedRunEnds(r) ==
    /\ feedRun[r] # Resting
    /\ FeedFault
    /\ feedRun' = [feedRun EXCEPT ![r] = Resting]
    /\ UNCHANGED <<bankPayments, unmatched, clerk, expired, contested>>

\* Variant of MayResolve: a row may be resolved again.
MayResolveAgain(o, t) == unmatched[o][t] # "none"
MayResolve(o, t) == unmatched[o][t] = "pending"

\* POST /api/rent/unmatched/[id]/resolve: the row is read and must be pending.
ResolveCheck(q, o, t, verdict) ==
    /\ clerk[q] = Resting
    /\ MayResolve(o, t)
    /\ clerk' = [clerk EXCEPT ![q] = [at |-> IF verdict = "confirmed" THEN "paying" ELSE "writing",
                                      org |-> o, tx |-> t, verdict |-> verdict]]
    /\ UNCHANGED <<bankPayments, unmatched, feedRun, feedFaults, expired, contested>>

\* Another request is under way for the same row.
Overlaps(q) ==
    \E p \in Clerks \ {q} :
        clerk[p] # Resting /\ clerk[p].org = clerk[q].org /\ clerk[p].tx = clerk[q].tx

\* The payment of a confirmation; the index makes a second one throw (500), and
\* the row stays pending.
ConfirmPays(q) ==
    /\ clerk[q].at = "paying"
    /\ LET o == clerk[q].org
           t == clerk[q].tx
       IN  IF MayInsert(o, t, "person")
           THEN /\ bankPayments' = bankPayments \cup {[org |-> o, tx |-> t, by |-> "person"]}
                /\ clerk' = [clerk EXCEPT ![q].at = "writing"]
                /\ contested' = IF Overlaps(q) THEN contested \cup {<<o, t>>} ELSE contested
           ELSE /\ clerk' = [clerk EXCEPT ![q] = Resting]
                /\ UNCHANGED <<bankPayments, contested>>
    /\ UNCHANGED <<unmatched, feedRun, feedFaults, expired>>

\* The status of the row, by id alone.
ResolveWrites(q) ==
    /\ clerk[q].at = "writing"
    /\ unmatched' = [unmatched EXCEPT ![clerk[q].org][clerk[q].tx] = clerk[q].verdict]
    /\ clerk' = [clerk EXCEPT ![q] = Resting]
    /\ contested' = IF Overlaps(q) THEN contested \cup {<<clerk[q].org, clerk[q].tx>>}
                    ELSE contested
    /\ UNCHANGED <<bankPayments, feedRun, feedFaults, expired>>

ResolveEnds(q) ==
    /\ clerk[q] # Resting
    /\ FeedFault
    /\ clerk' = [clerk EXCEPT ![q] = Resting]
    /\ contested' = IF clerk[q].at = "writing" /\ clerk[q].verdict = "confirmed"
                    THEN contested \cup {<<clerk[q].org, clerk[q].tx>>} ELSE contested
    /\ UNCHANGED <<bankPayments, unmatched, feedRun, expired>>

\* Only charges of the last fortnight are candidates.
WindowCloses(t) ==
    /\ t \notin expired
    /\ expired' = expired \cup {t}
    /\ UNCHANGED <<bankPayments, unmatched, feedRun, clerk, feedFaults, contested>>

-----------------------------------------------------------------------------
BankInit ==
    /\ bankPayments = {}
    /\ unmatched = [o \in Orgs |-> [t \in Txs |-> "none"]]
    /\ feedRun = [r \in FeedRuns |-> Resting]
    /\ clerk = [q \in Clerks |-> Resting]
    /\ feedFaults = 0
    /\ expired \in SUBSET Txs
    /\ contested = {}

FeedStep(o, t) ==
    \E r \in FeedRuns :
        \/ TakeTransaction(r, o, t)
        \/ /\ feedRun[r] = [at |-> "matched", org |-> o, tx |-> t]
           /\ RecordMatch(r) \/ QueueUnmatched(r)

ClerkStep(q) ==
    \/ \E o \in Orgs, t \in Txs, v \in {"confirmed", "dismissed"} : ResolveCheck(q, o, t, v)
    \/ ConfirmPays(q) \/ ResolveWrites(q) \/ ResolveEnds(q)

BankNext ==
    \/ \E o \in Orgs, t \in Txs : FeedStep(o, t)
    \/ \E r \in FeedRuns : FeedRunEnds(r)
    \/ \E q \in Clerks : ClerkStep(q)
    \/ \E t \in Txs : WindowCloses(t)

BankSpec == BankInit /\ [][BankNext]_bankVars
\* The agent of every organisation runs every day and goes through the feed;
\* people need not answer.
BankFairness == \A o \in Orgs, t \in Txs : WF_bankVars(FeedStep(o, t))

-----------------------------------------------------------------------------
(* Tables, runs and requests hold what the code may write, and nothing is *)
(* queued or about to be recorded that resembles nothing in the ledger.   *)
BankTypeOK ==
    /\ bankPayments \subseteq [org: Orgs, tx: Txs, by: {"agent", "person"}]
    /\ unmatched \in [Orgs -> [Txs -> Row]]
    /\ feedRun \in [FeedRuns -> {Resting} \cup [at: {"matched"}, org: Orgs, tx: Txs]]
    /\ clerk \in [Clerks -> {Resting} \cup [at: {"paying", "writing"}, org: Orgs, tx: Txs,
                                            verdict: {"confirmed", "dismissed"}]]
    /\ \A o \in Orgs, t \in Txs :
          \/ unmatched[o][t] # "none"
          \/ \E r \in FeedRuns : feedRun[r] = [at |-> "matched", org |-> o, tx |-> t]
          => Evidence[o][t].reference # "nothing"
    /\ feedFaults \in 0..MaxFeedFaults
    /\ expired \subseteq Txs
    /\ contested \subseteq Orgs \X Txs

(* One bank transaction is one payment, whichever organisations' agents and *)
(* people take it for their rent at the same time, and what an agent records *)
(* by itself ("never marks a weak match as paid") has the whole reference   *)
(* and an amount within one per cent.                                       *)
BankPaidOnce ==
    /\ \A t \in Txs : Cardinality(PaidIn(t)) <= 1
    /\ \A p \in bankPayments : p.by = "agent" =>
          /\ Evidence[p.org][p.tx].reference = "full"
          /\ Evidence[p.org][p.tx].percent \in 99..101

(* What Today says of a transaction is what the ledger holds: a confirmed   *)
(* one is a payment of this organisation, and a dismissed one is not, except *)
(* for rows that two requests resolved at once or one left half way.        *)
ResolutionMatchesLedger ==
    \A o \in Orgs, t \in Txs :
        /\ unmatched[o][t] = "confirmed" => \E p \in PaidIn(t) : p.org = o
        /\ unmatched[o][t] = "dismissed" /\ <<o, t>> \notin contested =>
             ~ \E p \in PaidIn(t) : p.org = o /\ p.by = "person"

(* Every transaction that names a charge of an organisation, in full or in  *)
(* part, is a payment or before a person in the end, whatever runs ended    *)
(* half way, unless the charge is more than a fortnight old before that.    *)
MoneyIsAccountedFor ==
    <>[](\A o \in Orgs, t \in Txs :
            Evidence[o][t].reference # "nothing" =>
                t \in expired \/ PaidIn(t) # {} \/ unmatched[o][t] # "none")
=============================================================================
