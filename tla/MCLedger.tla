------------------------------ MODULE MCLedger ------------------------------
(***************************************************************************)
(* The four components that keep the ledger, which share no rows in these  *)
(* models: each behaviour explores one of them, and the others stay where  *)
(* they start.                                                             *)
(***************************************************************************)
EXTENDS Arrears, RentCharges, BankMatch, StripeEvents, TLC

CONSTANTS Parts, o1, o2, t1, t2

VARIABLE part \* the component this behaviour explores

\* Four months, February among them.
MCMonthLengths == <<31, 28, 31, 30>>

\* o2 has a clean match for t1, which also resembles a charge of o1; t2 only
\* names the first word of a reference of o2.
Shares(reference, percent) == [reference |-> reference, percent |-> percent]
MCEvidence ==
    o1 :> (t1 :> Shares("full", 50) @@ t2 :> Shares("nothing", 100))
    @@ o2 :> (t1 :> Shares("full", 101) @@ t2 :> Shares("first_word", 100))

ledgerVars == <<part, arrearsVars, chargeVars, bankVars, stripeVars>>

LedgerInit ==
    /\ part \in Parts
    /\ ArrearsInit /\ ChargeInit /\ BankInit /\ StripeInit
    \* One initial state of a component that is not explored is enough, one in
    \* which it has nothing to do.
    /\ part # "arrears" => debt = Cleared /\ unitClass = "residential"
    /\ part # "charges" => startDate = 31 /\ frequency = "monthly"
    /\ expired = IF part = "bank" THEN {} ELSE Txs

LedgerNext ==
    /\ UNCHANGED part
    /\ \/ part = "arrears" /\ ArrearsNext /\ UNCHANGED <<chargeVars, bankVars, stripeVars>>
       \/ part = "charges" /\ ChargeNext /\ UNCHANGED <<arrearsVars, bankVars, stripeVars>>
       \/ part = "bank" /\ BankNext /\ UNCHANGED <<arrearsVars, chargeVars, stripeVars>>
       \/ part = "stripe" /\ StripeNext /\ UNCHANGED <<arrearsVars, chargeVars, bankVars>>

\* The fairness each component states, for the component that is explored.
LedgerFairness ==
    /\ \A r \in LadderRuns : WF_arrearsVars(part = "arrears" /\ LadderStep(r))
    /\ \A r \in ChargeRuns : WF_chargeVars(part = "charges" /\ ChargeStep(r))
    /\ \A o \in Orgs, t \in Txs : WF_bankVars(part = "bank" /\ FeedStep(o, t))
    /\ \A s \in Sessions : WF_stripeVars(part = "stripe" /\ HandleUnanswered(s))

LedgerSpec == LedgerInit /\ [][LedgerNext]_ledgerVars /\ LedgerFairness

(* Every component's state is well typed. *)
LedgerTypeOK == ArrearsTypeOK /\ ChargeTypeOK /\ BankTypeOK /\ StripeTypeOK

(* Nothing that is owed or paid is forgotten, whatever runs, handlers and     *)
(* answers fail: the charges reach the present, and only dates whose insert   *)
(* failed or whose row was deleted are passed over (RentCharges'              *)
(* ChargesCatchUp),                                                           *)
(* bank money is a payment or before a person (BankMatch's                    *)
(* MoneyIsAccountedFor), and card money is in the ledger (StripeEvents'       *)
(* CardPaymentsAreRecorded).                                                  *)
LedgerCatchesUp == ChargesCatchUp /\ MoneyIsAccountedFor /\ CardPaymentsAreRecorded
=============================================================================
