---------------------------- MODULE MoneyProofs -----------------------------
(***************************************************************************)
(* Proofs that money reaches the ledger once: a transaction of the bank    *)
(* feed, and the event of a card payment. For any organisations, runs of   *)
(* the agent, requests and deliveries.                                     *)
(***************************************************************************)
EXTENDS BankMatch, StripeEvents, FiniteSetTheorems, TLAPS

-----------------------------------------------------------------------------
\* Only a whole reference with an amount within one per cent scores 95 or more.
LEMMA ConfidentIsClean ==
    ASSUME NEW o \in Orgs, NEW t \in Txs, Confident(o, t)
    PROVE  Evidence[o][t].reference = "full" /\ Evidence[o][t].percent \in 99..101
<1> DEFINE e == Evidence[o][t]
<1>1. e.reference \in {"full", "first_word", "nothing"} /\ e.percent \in Nat
    BY BankMatchAssumption DEF ReferenceParts
<1>2. /\ e.reference = "full" => ReferenceScore(o, t) = 100
      /\ e.reference = "first_word" => ReferenceScore(o, t) = 40
      /\ e.reference = "nothing" => ReferenceScore(o, t) = 0
    BY DEF ReferenceScore
<1>3. /\ e.percent \in 99..101 => AmountScore(o, t) = 100
      /\ e.percent \notin 99..101 => AmountScore(o, t) \in {50, 10}
    BY <1>1 DEF AmountScore
<1>4. (ReferenceScore(o, t) * 50 + AmountScore(o, t) * 50) \div 100 >= 95
    BY DEF Confident, MatchConfidence
<1>5. CASE AmountScore(o, t) = 100
    BY <1>1, <1>2, <1>3, <1>4, <1>5
<1>6. CASE AmountScore(o, t) = 50
    BY <1>1, <1>2, <1>3, <1>4, <1>6
<1>7. CASE AmountScore(o, t) = 10
    BY <1>1, <1>2, <1>3, <1>4, <1>7
<1> QED BY <1>3, <1>5, <1>6, <1>7

BankRow == [org: Orgs, tx: Txs, by: {"agent", "person"}]
Answering ==
    [at: {"paying", "writing"}, org: Orgs, tx: Txs, verdict: {"confirmed", "dismissed"}]
BankTyped ==
    /\ bankPayments \subseteq BankRow
    /\ unmatched \in [Orgs -> [Txs -> Row]]
    /\ feedRun \in [FeedRuns -> {Resting} \cup [at: {"matched"}, org: Orgs, tx: Txs]]
    /\ clerk \in [Clerks -> {Resting} \cup Answering]
    /\ contested \subseteq Orgs \X Txs

\* The index as a fact about rows, and what the agent takes by itself.
OnePerTx == \A p, q \in bankPayments : p.tx = q.tx => p = q
AgentTakesClean == \A p \in bankPayments : p.by = "agent" => Confident(p.org, p.tx)

\* A request that has paid, or is about to, is a confirmation.
Answers(q, o, t) == clerk[q] # Resting /\ clerk[q].org = o /\ clerk[q].tx = t
HasPaid(o, t) == \E p \in PaidIn(t) : p.org = o /\ p.by = "person"
PayingConfirms == \A q \in Clerks : clerk[q].at = "paying" => clerk[q].verdict = "confirmed"
Confirming(q, o, t) == Answers(q, o, t) /\ clerk[q].at = "writing" /\ clerk[q].verdict = "confirmed"
WritingHasPaid == \A q \in Clerks, o \in Orgs, t \in Txs : Confirming(q, o, t) => HasPaid(o, t)
ConfirmedHasPaid ==
    \A o \in Orgs, t \in Txs : unmatched[o][t] = "confirmed" => HasPaid(o, t)
\* A request that answers a row no longer pending had company.
LateIsContested ==
    \A q \in Clerks, o \in Orgs, t \in Txs :
        Answers(q, o, t) => unmatched[o][t] = "pending" \/ <<o, t>> \in contested
\* Money a person confirmed shows as confirmed, or is about to.
PaidIsConfirmed ==
    \A o \in Orgs, t \in Txs :
        HasPaid(o, t) => \/ <<o, t>> \in contested
                         \/ unmatched[o][t] = "confirmed"
                         \/ \E q \in Clerks : Confirming(q, o, t)

BankInv ==
    /\ BankTyped /\ OnePerTx /\ AgentTakesClean
    /\ PayingConfirms /\ WritingHasPaid /\ ConfirmedHasPaid
    /\ LateIsContested /\ PaidIsConfirmed

LEMMA RestingIsNoAnswer == Resting \notin Answering /\ Resting.at = "resting"
BY DEF Resting, Answering

LEMMA BankInvInit == BankInit => BankInv
<1> SUFFICES ASSUME BankInit PROVE BankInv
    OBVIOUS
<1> USE DEF BankInit
<1>1. BankTyped
    BY DEF BankTyped, Row
<1>2. \A q \in Clerks : clerk[q] = Resting
    OBVIOUS
<1>3. \A o \in Orgs, t \in Txs : ~ HasPaid(o, t) /\ unmatched[o][t] = "none"
    BY DEF HasPaid, PaidIn
<1> QED BY <1>1, <1>2, <1>3, RestingIsNoAnswer
    DEF BankInv, OnePerTx, AgentTakesClean, PayingConfirms, WritingHasPaid, ConfirmedHasPaid,
        LateIsContested, PaidIsConfirmed, Answers, Confirming

\* A step that touches neither a request nor a row a person may answer.
LEMMA AgentStep ==
    ASSUME BankInv, BankTyped', OnePerTx', AgentTakesClean', UNCHANGED <<clerk, contested>>,
           \A o \in Orgs, t \in Txs :
              \/ unmatched'[o][t] = unmatched[o][t]
              \/ unmatched[o][t] = "none" /\ unmatched'[o][t] = "pending",
           bankPayments \subseteq bankPayments',
           \A p \in bankPayments' \ bankPayments : p.by = "agent"
    PROVE  BankInv'
<1>t. /\ BankTyped /\ PayingConfirms /\ WritingHasPaid /\ ConfirmedHasPaid
      /\ LateIsContested /\ PaidIsConfirmed
    BY DEF BankInv
<1>1. \A o \in Orgs, t \in Txs : HasPaid(o, t)' <=> HasPaid(o, t)
    BY DEF HasPaid, PaidIn
<1>2. \A q \in Clerks, o \in Orgs, t \in Txs :
        (Answers(q, o, t)' <=> Answers(q, o, t)) /\ (Confirming(q, o, t)' <=> Confirming(q, o, t))
    BY DEF Answers, Confirming
<1>3. PayingConfirms' /\ WritingHasPaid'
    BY <1>t, <1>1, <1>2 DEF PayingConfirms, WritingHasPaid
<1>4. ConfirmedHasPaid'
    BY <1>t, <1>1 DEF ConfirmedHasPaid
<1>5. LateIsContested'
    BY <1>t, <1>2 DEF LateIsContested
<1>6. PaidIsConfirmed'
    BY <1>t, <1>1, <1>2 DEF PaidIsConfirmed
<1> QED BY <1>3, <1>4, <1>5, <1>6 DEF BankInv

\* A request: what it answers changes, the other requests stay as they are.
LEMMA OneRequest ==
    ASSUME BankTyped, NEW q \in Clerks, NEW new \in {Resting} \cup Answering,
           clerk' = [clerk EXCEPT ![q] = new]
    PROVE  /\ clerk' \in [Clerks -> {Resting} \cup Answering]
           /\ clerk'[q] = new
           /\ \A p \in Clerks, o \in Orgs, t \in Txs : p # q =>
                 /\ clerk'[p] = clerk[p]
                 /\ Answers(p, o, t)' <=> Answers(p, o, t)
                 /\ Confirming(p, o, t)' <=> Confirming(p, o, t)
BY DEF BankTyped, Answers, Confirming

\* A request that ends without writing, and was not about to confirm, or whose
\* row is known to be contested.
LEMMA RequestRests ==
    ASSUME BankInv, NEW q \in Clerks, clerk' = [clerk EXCEPT ![q] = Resting],
           UNCHANGED <<bankPayments, unmatched, feedRun>>,
           contested \subseteq contested', contested' \subseteq Orgs \X Txs,
           \A o \in Orgs, t \in Txs : Confirming(q, o, t) => <<o, t>> \in contested'
    PROVE  BankInv'
<1>t. /\ BankTyped /\ OnePerTx /\ AgentTakesClean /\ PayingConfirms /\ WritingHasPaid
      /\ ConfirmedHasPaid /\ LateIsContested /\ PaidIsConfirmed
    BY DEF BankInv
<1>1. /\ clerk' \in [Clerks -> {Resting} \cup Answering]
      /\ clerk'[q] = Resting
      /\ \A p \in Clerks, o \in Orgs, t \in Txs : p # q =>
            /\ clerk'[p] = clerk[p]
            /\ Answers(p, o, t)' <=> Answers(p, o, t)
            /\ Confirming(p, o, t)' <=> Confirming(p, o, t)
    BY <1>t, OneRequest
<1>2. \A o \in Orgs, t \in Txs : ~ Answers(q, o, t)' /\ ~ Confirming(q, o, t)'
    BY <1>1 DEF Answers, Confirming
<1>3. \A o \in Orgs, t \in Txs : HasPaid(o, t)' <=> HasPaid(o, t)
    BY DEF HasPaid, PaidIn
<1>4. BankTyped' /\ OnePerTx' /\ AgentTakesClean'
    BY <1>t, <1>1 DEF BankTyped, OnePerTx, AgentTakesClean, Confident, MatchConfidence,
        ReferenceScore, AmountScore
<1>5. PayingConfirms' /\ WritingHasPaid' /\ ConfirmedHasPaid'
    BY <1>t, <1>1, <1>2, <1>3, RestingIsNoAnswer DEF PayingConfirms, WritingHasPaid, ConfirmedHasPaid
<1>6. LateIsContested'
    BY <1>t, <1>1, <1>2 DEF LateIsContested
<1>7. PaidIsConfirmed'
    BY <1>t, <1>1, <1>2, <1>3 DEF PaidIsConfirmed
<1> QED BY <1>4, <1>5, <1>6, <1>7 DEF BankInv

LEMMA ResolveCheckStep ==
    ASSUME BankInv, NEW q \in Clerks, NEW o \in Orgs, NEW t \in Txs,
           NEW v \in {"confirmed", "dismissed"}, ResolveCheck(q, o, t, v)
    PROVE  BankInv'
<1> DEFINE new == [at |-> IF v = "confirmed" THEN "paying" ELSE "writing",
                   org |-> o, tx |-> t, verdict |-> v]
<1>t. /\ BankTyped /\ OnePerTx /\ AgentTakesClean /\ PayingConfirms /\ WritingHasPaid
      /\ ConfirmedHasPaid /\ LateIsContested /\ PaidIsConfirmed
    BY DEF BankInv
<1>1. /\ new \in Answering
      /\ new.at = "paying" => new.verdict = "confirmed"
      /\ ~ (new.at = "writing" /\ new.verdict = "confirmed")
      /\ new.org = o /\ new.tx = t
    BY DEF Answering
<1>2. /\ clerk[q] = Resting /\ clerk' = [clerk EXCEPT ![q] = new] /\ unmatched[o][t] = "pending"
      /\ UNCHANGED <<bankPayments, unmatched, feedRun, contested>>
    BY DEF ResolveCheck, MayResolve
<1> HIDE DEF new
<1>3. /\ clerk' \in [Clerks -> {Resting} \cup Answering]
      /\ clerk'[q] = new
      /\ \A p \in Clerks, oo \in Orgs, tt \in Txs : p # q =>
            /\ clerk'[p] = clerk[p]
            /\ Answers(p, oo, tt)' <=> Answers(p, oo, tt)
            /\ Confirming(p, oo, tt)' <=> Confirming(p, oo, tt)
    BY <1>t, <1>1, <1>2, OneRequest
<1>4. \A oo \in Orgs, tt \in Txs :
        /\ Answers(q, oo, tt)' => oo = o /\ tt = t
        /\ ~ Confirming(q, oo, tt)' /\ ~ Confirming(q, oo, tt)
        /\ HasPaid(oo, tt)' <=> HasPaid(oo, tt)
    BY <1>1, <1>2, <1>3 DEF Answers, Confirming, HasPaid, PaidIn
<1>5. BankTyped' /\ OnePerTx' /\ AgentTakesClean'
    BY <1>t, <1>2, <1>3 DEF BankTyped, OnePerTx, AgentTakesClean, Confident, MatchConfidence,
        ReferenceScore, AmountScore
<1>6. PayingConfirms' /\ WritingHasPaid' /\ ConfirmedHasPaid'
    BY <1>t, <1>1, <1>2, <1>3, <1>4 DEF PayingConfirms, WritingHasPaid, ConfirmedHasPaid
<1>7. LateIsContested'
    BY <1>t, <1>2, <1>3, <1>4 DEF LateIsContested
<1>8. PaidIsConfirmed'
    BY <1>t, <1>2, <1>3, <1>4 DEF PaidIsConfirmed
<1> QED BY <1>5, <1>6, <1>7, <1>8 DEF BankInv

LEMMA ConfirmPaysStep ==
    ASSUME BankInv, NEW q \in Clerks, ConfirmPays(q)
    PROVE  BankInv'
<1>t. /\ BankTyped /\ OnePerTx /\ AgentTakesClean /\ PayingConfirms /\ WritingHasPaid
      /\ ConfirmedHasPaid /\ LateIsContested /\ PaidIsConfirmed
    BY DEF BankInv
<1>0. /\ clerk[q] \in Answering /\ clerk[q].at = "paying" /\ clerk[q].verdict = "confirmed"
    BY <1>t, RestingIsNoAnswer DEF ConfirmPays, BankTyped, PayingConfirms
<1>1. PICK o \in Orgs, t \in Txs : clerk[q].org = o /\ clerk[q].tx = t
    BY <1>0 DEF Answering
<1>2. CASE MayInsert(o, t, "person")
    <2> DEFINE new == [clerk[q] EXCEPT !.at = "writing"]
               row == [org |-> o, tx |-> t, by |-> "person"]
    <2>1. /\ bankPayments' = bankPayments \cup {row}
          /\ clerk' = [clerk EXCEPT ![q] = new]
          /\ contested' = IF Overlaps(q) THEN contested \cup {<<o, t>>} ELSE contested
          /\ UNCHANGED <<unmatched, feedRun>>
        BY <1>2, <1>1, <1>t DEF ConfirmPays, BankTyped
    <2>2. /\ new \in Answering /\ new.at = "writing" /\ new.org = o /\ new.tx = t
          /\ new.verdict = "confirmed"
        BY <1>0, <1>1 DEF Answering
    <2>3. row \in BankRow /\ row.org = o /\ row.tx = t /\ row.by = "person"
        BY <1>1 DEF BankRow
    <2>4. \A p \in bankPayments : p.tx # t
        BY <1>2 DEF MayInsert, PaidIn
    <2> HIDE DEF new, row
    <2>5. /\ clerk' \in [Clerks -> {Resting} \cup Answering]
          /\ clerk'[q] = new
          /\ \A p \in Clerks, oo \in Orgs, tt \in Txs : p # q =>
                /\ clerk'[p] = clerk[p]
                /\ Answers(p, oo, tt)' <=> Answers(p, oo, tt)
                /\ Confirming(p, oo, tt)' <=> Confirming(p, oo, tt)
        BY <1>t, <2>1, <2>2, OneRequest
    <2>6. \A oo \in Orgs, tt \in Txs :
            HasPaid(oo, tt)' <=> (HasPaid(oo, tt) \/ (oo = o /\ tt = t))
        BY <2>1, <2>3 DEF HasPaid, PaidIn
    <2>7. Confirming(q, o, t)'
        BY <2>2, <2>5, RestingIsNoAnswer DEF Confirming, Answers
    <2>8. \A oo \in Orgs, tt \in Txs : Answers(q, oo, tt)' <=> (oo = o /\ tt = t)
        BY <2>2, <2>5, RestingIsNoAnswer DEF Answers
    <2>9. \A oo \in Orgs, tt \in Txs : Answers(q, oo, tt) <=> (oo = o /\ tt = t)
        BY <1>0, <1>1, RestingIsNoAnswer DEF Answers
    <2>10. contested \subseteq contested' /\ contested' \subseteq Orgs \X Txs
        BY <1>1, <1>t, <2>1 DEF BankTyped
    <2>11. BankTyped'
        BY <1>t, <2>1, <2>3, <2>5, <2>10 DEF BankTyped
    <2>12. OnePerTx' /\ AgentTakesClean'
        BY <1>t, <2>1, <2>3, <2>4 DEF OnePerTx, AgentTakesClean, Confident, MatchConfidence,
            ReferenceScore, AmountScore
    <2>13. PayingConfirms'
        BY <1>t, <1>1, <2>2, <2>5 DEF PayingConfirms
    <2>14. WritingHasPaid'
        BY <1>t, <2>5, <2>6, <2>8 DEF WritingHasPaid, Confirming
    <2>15. ConfirmedHasPaid'
        BY <1>t, <2>1, <2>6 DEF ConfirmedHasPaid
    <2>16. LateIsContested'
        BY <1>t, <2>1, <2>5, <2>8, <2>9, <2>10 DEF LateIsContested
    <2>17. PaidIsConfirmed'
        <3>1. ASSUME NEW oo \in Orgs, NEW tt \in Txs, HasPaid(oo, tt)', <<oo, tt>> \notin contested',
                     unmatched'[oo][tt] # "confirmed"
              PROVE  \E p \in Clerks : Confirming(p, oo, tt)'
            <4>1. CASE oo = o /\ tt = t
                BY <4>1, <2>7
            <4>2. CASE ~ (oo = o /\ tt = t)
                <5>1. PICK p \in Clerks : Confirming(p, oo, tt)
                    BY <4>2, <3>1, <2>1, <2>6, <2>10, <1>t DEF PaidIsConfirmed
                <5>2. p # q
                    BY <5>1, <4>2, <2>9 DEF Confirming
                <5> QED BY <5>1, <5>2, <2>5
            <4> QED BY <4>1, <4>2
        <3> QED BY <3>1 DEF PaidIsConfirmed
    <2> QED BY <2>11, <2>12, <2>13, <2>14, <2>15, <2>16, <2>17 DEF BankInv
<1>3. CASE ~ MayInsert(o, t, "person")
    <2>1. /\ clerk' = [clerk EXCEPT ![q] = Resting]
          /\ UNCHANGED <<bankPayments, unmatched, feedRun, contested>>
        BY <1>1, <1>3 DEF ConfirmPays
    <2>2. \A oo \in Orgs, tt \in Txs : ~ Confirming(q, oo, tt)
        BY <1>0 DEF Confirming
    <2> QED BY <1>t, <2>1, <2>2, RequestRests DEF BankTyped
<1> QED BY <1>2, <1>3

LEMMA ResolveWritesStep ==
    ASSUME BankInv, NEW q \in Clerks, ResolveWrites(q)
    PROVE  BankInv'
<1>t. /\ BankTyped /\ OnePerTx /\ AgentTakesClean /\ PayingConfirms /\ WritingHasPaid
      /\ ConfirmedHasPaid /\ LateIsContested /\ PaidIsConfirmed
    BY DEF BankInv
<1>0. clerk[q] \in Answering /\ clerk[q].at = "writing"
    BY <1>t, RestingIsNoAnswer DEF ResolveWrites, BankTyped
<1>1. PICK o \in Orgs, t \in Txs, v \in {"confirmed", "dismissed"} :
        clerk[q].org = o /\ clerk[q].tx = t /\ clerk[q].verdict = v
    BY <1>0 DEF Answering
<1>2. /\ unmatched' = [unmatched EXCEPT ![o][t] = v]
      /\ clerk' = [clerk EXCEPT ![q] = Resting]
      /\ contested' = IF Overlaps(q) THEN contested \cup {<<o, t>>} ELSE contested
      /\ UNCHANGED <<bankPayments, feedRun>>
    BY <1>1 DEF ResolveWrites
<1>3. /\ clerk' \in [Clerks -> {Resting} \cup Answering]
      /\ clerk'[q] = Resting
      /\ \A p \in Clerks, oo \in Orgs, tt \in Txs : p # q =>
            /\ clerk'[p] = clerk[p]
            /\ Answers(p, oo, tt)' <=> Answers(p, oo, tt)
            /\ Confirming(p, oo, tt)' <=> Confirming(p, oo, tt)
    BY <1>t, <1>2, OneRequest
<1>4. \A oo \in Orgs, tt \in Txs :
        /\ ~ Answers(q, oo, tt)' /\ ~ Confirming(q, oo, tt)'
        /\ Answers(q, oo, tt) <=> (oo = o /\ tt = t)
        /\ HasPaid(oo, tt)' <=> HasPaid(oo, tt)
    BY <1>0, <1>1, <1>2, <1>3, RestingIsNoAnswer DEF Answers, Confirming, HasPaid, PaidIn
<1>5. /\ unmatched'[o][t] = v
      /\ \A oo \in Orgs, tt \in Txs : (oo = o /\ tt = t) \/ unmatched'[oo][tt] = unmatched[oo][tt]
    BY <1>t, <1>2 DEF BankTyped
<1>6. contested \subseteq contested' /\ contested' \subseteq Orgs \X Txs
    BY <1>t, <1>2 DEF BankTyped
<1>7. \A p \in Clerks : p # q /\ Answers(p, o, t) => <<o, t>> \in contested'
    BY <1>1, <1>2 DEF Answers, Overlaps
<1>8. BankTyped'
    <2>1. unmatched' \in [Orgs -> [Txs -> Row]]
        BY <1>t, <1>2 DEF BankTyped, Row
    <2> QED BY <1>t, <1>2, <1>3, <1>6, <2>1 DEF BankTyped
<1>9. OnePerTx' /\ AgentTakesClean'
    BY <1>t, <1>2 DEF OnePerTx, AgentTakesClean, Confident, MatchConfidence, ReferenceScore,
        AmountScore
<1>10. PayingConfirms'
    BY <1>t, <1>1, <1>3, RestingIsNoAnswer DEF PayingConfirms
<1>11. WritingHasPaid'
    BY <1>t, <1>3, <1>4 DEF WritingHasPaid
<1>12. ConfirmedHasPaid'
    <2>1. v = "confirmed" => HasPaid(o, t)
        BY <1>t, <1>0, <1>1, <1>4 DEF WritingHasPaid, Confirming
    <2> QED BY <1>t, <1>4, <1>5, <2>1 DEF ConfirmedHasPaid
<1>13. LateIsContested'
    <2>1. ASSUME NEW p \in Clerks, NEW oo \in Orgs, NEW tt \in Txs, Answers(p, oo, tt)',
                 <<oo, tt>> \notin contested'
          PROVE  unmatched'[oo][tt] = "pending"
        <3>1. p # q /\ Answers(p, oo, tt)
            BY <1>3, <1>4, <2>1
        <3>2. ~ (oo = o /\ tt = t)
            BY <1>7, <2>1, <3>1
        <3>3. <<oo, tt>> \notin contested
            BY <1>6, <2>1
        <3>4. unmatched[oo][tt] = "pending"
            BY <1>t, <3>1, <3>3 DEF LateIsContested
        <3> QED BY <1>5, <3>2, <3>4
    <2> QED BY <2>1 DEF LateIsContested
<1>14. PaidIsConfirmed'
    <2>1. ASSUME NEW oo \in Orgs, NEW tt \in Txs, HasPaid(oo, tt)', <<oo, tt>> \notin contested',
                 unmatched'[oo][tt] # "confirmed"
          PROVE  \E p \in Clerks : Confirming(p, oo, tt)'
        <3>1. HasPaid(oo, tt) /\ <<oo, tt>> \notin contested
            BY <1>4, <1>6, <2>1
        <3>2. unmatched[oo][tt] = "confirmed" \/ \E p \in Clerks : Confirming(p, oo, tt)
            BY <1>t, <3>1 DEF PaidIsConfirmed
        <3>3. CASE oo = o /\ tt = t
            <4>1. unmatched[o][t] = "pending"
                BY <1>t, <1>4, <3>1, <3>3 DEF LateIsContested
            <4>2. PICK p \in Clerks : Confirming(p, o, t)
                BY <3>2, <3>3, <4>1
            <4>3. p # q
                BY <1>1, <1>5, <2>1, <3>3, <4>2 DEF Confirming
            <4> QED BY <1>7, <2>1, <3>3, <4>2, <4>3 DEF Confirming
        <3>4. CASE ~ (oo = o /\ tt = t)
            <4>1. PICK p \in Clerks : Confirming(p, oo, tt)
                BY <1>5, <2>1, <3>2, <3>4
            <4>2. p # q
                BY <1>4, <3>4, <4>1 DEF Confirming
            <4> QED BY <1>3, <4>1, <4>2
        <3> QED BY <3>3, <3>4
    <2> QED BY <2>1 DEF PaidIsConfirmed
<1> QED BY <1>8, <1>9, <1>10, <1>11, <1>12, <1>13, <1>14 DEF BankInv

LEMMA ResolveEndsStep ==
    ASSUME BankInv, NEW q \in Clerks, ResolveEnds(q)
    PROVE  BankInv'
<1>1. BankTyped
    BY DEF BankInv
<1>2. clerk[q] \in Answering
    BY <1>1 DEF ResolveEnds, BankTyped
<1>3. PICK o \in Orgs, t \in Txs : clerk[q].org = o /\ clerk[q].tx = t
    BY <1>2 DEF Answering
<1>4. /\ clerk' = [clerk EXCEPT ![q] = Resting]
      /\ UNCHANGED <<bankPayments, unmatched, feedRun>>
      /\ contested' = IF clerk[q].at = "writing" /\ clerk[q].verdict = "confirmed"
                      THEN contested \cup {<<o, t>>} ELSE contested
    BY <1>3 DEF ResolveEnds
<1>5. contested \subseteq contested' /\ contested' \subseteq Orgs \X Txs
    BY <1>1, <1>4 DEF BankTyped
<1>6. \A oo \in Orgs, tt \in Txs : Confirming(q, oo, tt) => <<oo, tt>> \in contested'
    BY <1>3, <1>4 DEF Confirming, Answers
<1> QED BY <1>4, <1>5, <1>6, RequestRests

\* The steps of the agent and the clock: at most one payment by the agent, at
\* most one row queued.
LEMMA TakeTransactionStep ==
    ASSUME BankInv, NEW r \in FeedRuns, NEW o \in Orgs, NEW t \in Txs, TakeTransaction(r, o, t)
    PROVE  BankInv'
<1>t. BankTyped /\ OnePerTx /\ AgentTakesClean
    BY DEF BankInv
<1>1. UNCHANGED <<bankPayments, unmatched, clerk, contested>>
    BY DEF TakeTransaction
<1>2. feedRun' \in [FeedRuns -> {Resting} \cup [at: {"matched"}, org: Orgs, tx: Txs]]
    BY <1>t DEF TakeTransaction, BankTyped
<1>3. BankTyped' /\ OnePerTx' /\ AgentTakesClean'
    BY <1>t, <1>1, <1>2 DEF BankTyped, OnePerTx, AgentTakesClean, Confident, MatchConfidence,
        ReferenceScore, AmountScore
<1> QED BY <1>1, <1>3, AgentStep

LEMMA RecordMatchStep ==
    ASSUME BankInv, NEW r \in FeedRuns, NEW o \in Orgs, NEW t \in Txs,
           feedRun[r] = [at |-> "matched", org |-> o, tx |-> t], RecordMatch(r)
    PROVE  BankInv'
<1> DEFINE row == [org |-> o, tx |-> t, by |-> "agent"]
<1>t. BankTyped /\ OnePerTx /\ AgentTakesClean
    BY DEF BankInv
<1>1. /\ Confident(o, t)
      /\ bankPayments' = IF MayInsert(o, t, "agent") THEN bankPayments \cup {row} ELSE bankPayments
      /\ feedRun' = [feedRun EXCEPT ![r] = Resting]
      /\ UNCHANGED <<unmatched, clerk, contested>>
    BY DEF RecordMatch
<1>2. row \in BankRow /\ row.org = o /\ row.tx = t /\ row.by = "agent"
    BY DEF BankRow
<1>3. MayInsert(o, t, "agent") => \A p \in bankPayments : p.tx # t
    BY DEF MayInsert, PaidIn
<1> HIDE DEF row
<1>4. bankPayments \subseteq bankPayments' /\ bankPayments' \ bankPayments \subseteq {row}
    BY <1>1
<1>5. BankTyped'
    BY <1>t, <1>1, <1>2, <1>4 DEF BankTyped
<1>6. OnePerTx'
    BY <1>t, <1>1, <1>2, <1>3 DEF OnePerTx
<1>7. AgentTakesClean'
    <2>1. ASSUME NEW p \in bankPayments', p.by = "agent"
          PROVE  Confident(p.org, p.tx)
        <3>1. CASE p \in bankPayments
            BY <1>t, <2>1, <3>1 DEF AgentTakesClean
        <3>2. CASE p = row
            BY <1>1, <1>2, <3>2
        <3> QED BY <1>4, <3>1, <3>2
    <2> QED BY <2>1 DEF AgentTakesClean, Confident, MatchConfidence, ReferenceScore, AmountScore
<1> QED BY <1>1, <1>2, <1>4, <1>5, <1>6, <1>7, AgentStep

LEMMA QueueUnmatchedStep ==
    ASSUME BankInv, NEW r \in FeedRuns, NEW o \in Orgs, NEW t \in Txs,
           feedRun[r] = [at |-> "matched", org |-> o, tx |-> t], QueueUnmatched(r)
    PROVE  BankInv'
<1>t. BankTyped /\ OnePerTx /\ AgentTakesClean
    BY DEF BankInv
<1>1. /\ unmatched' = IF unmatched[o][t] = "none"
                      THEN [unmatched EXCEPT ![o][t] = "pending"] ELSE unmatched
      /\ feedRun' = [feedRun EXCEPT ![r] = Resting]
      /\ UNCHANGED <<bankPayments, clerk, contested>>
    BY DEF QueueUnmatched
<1>2. unmatched' \in [Orgs -> [Txs -> Row]]
    BY <1>t, <1>1 DEF BankTyped, Row
<1>3. \A oo \in Orgs, tt \in Txs :
        \/ unmatched'[oo][tt] = unmatched[oo][tt]
        \/ unmatched[oo][tt] = "none" /\ unmatched'[oo][tt] = "pending"
    BY <1>t, <1>1 DEF BankTyped
<1>4. BankTyped' /\ OnePerTx' /\ AgentTakesClean'
    BY <1>t, <1>1, <1>2 DEF BankTyped, OnePerTx, AgentTakesClean, Confident, MatchConfidence,
        ReferenceScore, AmountScore
<1> QED BY <1>1, <1>3, <1>4, AgentStep

LEMMA FeedRunEndsStep ==
    ASSUME BankInv, NEW r \in FeedRuns, FeedRunEnds(r)
    PROVE  BankInv'
<1>t. BankTyped /\ OnePerTx /\ AgentTakesClean
    BY DEF BankInv
<1>1. /\ feedRun' = [feedRun EXCEPT ![r] = Resting]
      /\ UNCHANGED <<bankPayments, unmatched, clerk, contested>>
    BY DEF FeedRunEnds
<1>2. BankTyped' /\ OnePerTx' /\ AgentTakesClean'
    BY <1>t, <1>1 DEF BankTyped, OnePerTx, AgentTakesClean, Confident, MatchConfidence,
        ReferenceScore, AmountScore
<1> QED BY <1>1, <1>2, AgentStep

LEMMA BankIdleStep ==
    ASSUME BankInv, UNCHANGED <<bankPayments, unmatched, feedRun, clerk, contested>>
    PROVE  BankInv'
<1>1. BankTyped' /\ OnePerTx' /\ AgentTakesClean'
    BY DEF BankInv, BankTyped, OnePerTx, AgentTakesClean, Confident, MatchConfidence,
        ReferenceScore, AmountScore
<1> QED BY <1>1, AgentStep

LEMMA BankInvNext == BankInv /\ [BankNext]_bankVars => BankInv'
<1> SUFFICES ASSUME BankInv, [BankNext]_bankVars PROVE BankInv'
    OBVIOUS
<1>1. ASSUME NEW o \in Orgs, NEW t \in Txs, FeedStep(o, t)
      PROVE  BankInv'
    BY <1>1, TakeTransactionStep, RecordMatchStep, QueueUnmatchedStep DEF FeedStep
<1>2. ASSUME NEW q \in Clerks, ClerkStep(q)
      PROVE  BankInv'
    BY <1>2, ResolveCheckStep, ConfirmPaysStep, ResolveWritesStep, ResolveEndsStep DEF ClerkStep
<1>3. ASSUME NEW t \in Txs, WindowCloses(t)
      PROVE  BankInv'
    BY <1>3, BankIdleStep DEF WindowCloses
<1>4. CASE UNCHANGED bankVars
    BY <1>4, BankIdleStep DEF bankVars
<1> QED BY <1>1, <1>2, <1>3, <1>4, FeedRunEndsStep DEF BankNext

\* Every state of reconciliation satisfies the invariant.
THEOREM BankInvHolds == BankSpec => []BankInv
BY BankInvInit, BankInvNext, PTL DEF BankSpec

LEMMA BankInvPaidOnce == BankInv => BankPaidOnce
<1> SUFFICES ASSUME BankInv PROVE BankPaidOnce
    OBVIOUS
<1>1. ASSUME NEW t \in Txs
      PROVE  Cardinality(PaidIn(t)) <= 1
    <2>1. CASE PaidIn(t) = {}
        BY <2>1, FS_EmptySet
    <2>2. CASE PaidIn(t) # {}
        <3>1. PICK p : PaidIn(t) = {p}
            BY <2>2 DEF BankInv, OnePerTx, PaidIn
        <3> QED BY <3>1, FS_Singleton
    <2> QED BY <2>1, <2>2
<1>2. \A p \in bankPayments : p.by = "agent" =>
        Evidence[p.org][p.tx].reference = "full" /\ Evidence[p.org][p.tx].percent \in 99..101
    <2> SUFFICES ASSUME NEW p \in bankPayments, p.by = "agent"
                 PROVE  Evidence[p.org][p.tx].reference = "full"
                        /\ Evidence[p.org][p.tx].percent \in 99..101
        OBVIOUS
    <2>1. p.org \in Orgs /\ p.tx \in Txs /\ Confident(p.org, p.tx)
        BY DEF BankInv, BankTyped, BankRow, AgentTakesClean
    <2> QED BY <2>1, ConfidentIsClean
<1> QED BY <1>1, <1>2 DEF BankPaidOnce

\* A bank transaction is one payment, for any organisations that share the
\* bank account and any runs and requests, and what the agent records by
\* itself is the whole reference with the right amount.
THEOREM BankPaidOnceCorrect == BankSpec => []BankPaidOnce
BY BankInvHolds, BankInvPaidOnce, PTL

LEMMA BankInvResolution == BankInv => ResolutionMatchesLedger
<1> SUFFICES ASSUME BankInv, NEW o \in Orgs, NEW t \in Txs
             PROVE  /\ unmatched[o][t] = "confirmed" => \E p \in PaidIn(t) : p.org = o
                    /\ unmatched[o][t] = "dismissed" /\ <<o, t>> \notin contested =>
                         ~ \E p \in PaidIn(t) : p.org = o /\ p.by = "person"
    BY DEF ResolutionMatchesLedger
<1>1. ASSUME unmatched[o][t] = "confirmed"
      PROVE  \E p \in PaidIn(t) : p.org = o
    BY <1>1 DEF BankInv, ConfirmedHasPaid, HasPaid
<1>2. ASSUME unmatched[o][t] = "dismissed", <<o, t>> \notin contested, HasPaid(o, t)
      PROVE  FALSE
    BY <1>2 DEF BankInv, PaidIsConfirmed, LateIsContested, Confirming
<1> QED BY <1>1, <1>2 DEF HasPaid

\* What Today says of a transaction is what the ledger holds, for any requests.
THEOREM ResolutionMatchesLedgerCorrect == BankSpec => []ResolutionMatchesLedger
BY BankInvHolds, BankInvResolution, PTL

-----------------------------------------------------------------------------
\* What is queued, matched or being answered names a charge of its organisation.
NamesCharge(o, t) == Evidence[o][t].reference # "nothing"
BankNames ==
    /\ \A o \in Orgs, t \in Txs : unmatched[o][t] # "none" => NamesCharge(o, t)
    /\ \A r \in FeedRuns : feedRun[r] # Resting => NamesCharge(feedRun[r].org, feedRun[r].tx)
    /\ \A q \in Clerks : clerk[q] # Resting => NamesCharge(clerk[q].org, clerk[q].tx)
BankNamed ==
    /\ BankNames
    /\ feedFaults \in 0..MaxFeedFaults
    /\ expired \subseteq Txs

LEMMA BankNamedInit == BankInit => BankNamed
<1> SUFFICES ASSUME BankInit PROVE BankNamed
    OBVIOUS
<1>1. BankNames
    BY DEF BankInit, BankNames
<1>2. feedFaults \in 0..MaxFeedFaults
    BY BankMatchAssumption DEF BankInit
<1> QED BY <1>1, <1>2 DEF BankInit, BankNamed

LEMMA CandidateNamesCharge ==
    ASSUME NEW o \in Orgs, NEW t \in Txs, HasCandidate(o, t)
    PROVE  NamesCharge(o, t)
<1>1. Evidence[o][t].reference = "nothing" => ReferenceScore(o, t) = 0
    BY DEF ReferenceScore
<1> QED BY <1>1 DEF HasCandidate, NamesCharge

\* A step of one run.
LEMMA FeedRunNames ==
    ASSUME BankInv, BankNames, NEW r \in FeedRuns,
           NEW new \in {Resting} \cup [at: {"matched"}, org: Orgs, tx: Txs],
           feedRun' = [feedRun EXCEPT ![r] = new],
           new # Resting => NamesCharge(new.org, new.tx),
           UNCHANGED clerk,
           \A o \in Orgs, t \in Txs : unmatched'[o][t] # "none" => NamesCharge(o, t)
    PROVE  BankNames'
<1>1. \A p \in FeedRuns \ {r} : feedRun'[p] = feedRun[p]
    BY DEF BankInv, BankTyped
<1>2. feedRun'[r] = new
    BY DEF BankInv, BankTyped
<1> QED BY <1>1, <1>2 DEF BankNames, NamesCharge

\* A step of one request.
LEMMA RequestNames ==
    ASSUME BankInv, BankNames, NEW q \in Clerks,
           NEW new \in {Resting} \cup Answering,
           clerk' = [clerk EXCEPT ![q] = new],
           new # Resting => NamesCharge(new.org, new.tx),
           UNCHANGED feedRun,
           \A o \in Orgs, t \in Txs : unmatched'[o][t] # "none" => NamesCharge(o, t)
    PROVE  BankNames'
<1>1. \A p \in Clerks \ {q} : clerk'[p] = clerk[p]
    BY DEF BankInv, BankTyped
<1>2. clerk'[q] = new
    BY DEF BankInv, BankTyped
<1> QED BY <1>1, <1>2 DEF BankNames, NamesCharge

LEMMA FeedStepNames ==
    ASSUME BankInv, BankNames, NEW r \in FeedRuns, NEW o \in Orgs, NEW t \in Txs,
           \/ TakeTransaction(r, o, t)
           \/ /\ feedRun[r] = [at |-> "matched", org |-> o, tx |-> t]
              /\ RecordMatch(r) \/ QueueUnmatched(r)
           \/ FeedRunEnds(r)
    PROVE  BankNames'
<1>t. /\ unmatched \in [Orgs -> [Txs -> Row]]
      /\ feedRun \in [FeedRuns -> {Resting} \cup [at: {"matched"}, org: Orgs, tx: Txs]]
    BY DEF BankInv, BankTyped
<1>n. \A p \in Orgs, u \in Txs : unmatched[p][u] # "none" => NamesCharge(p, u)
    BY DEF BankNames
<1>1. ASSUME TakeTransaction(r, o, t) PROVE BankNames'
    <2> DEFINE new == [at |-> "matched", org |-> o, tx |-> t]
    <2>1. new \in [at: {"matched"}, org: Orgs, tx: Txs] /\ new.org = o /\ new.tx = t
        OBVIOUS
    <2>2. UNCHANGED <<clerk, unmatched>>
        BY <1>1 DEF TakeTransaction
    <2>3. CASE AlreadyRecorded(o, t) \/ ~ HasCandidate(o, t)
        <3>1. UNCHANGED feedRun
            BY <1>1, <2>3 DEF TakeTransaction
        <3> QED BY <2>2, <3>1 DEF BankNames, NamesCharge
    <2>4. CASE ~ (AlreadyRecorded(o, t) \/ ~ HasCandidate(o, t))
        <3>1. feedRun' = [feedRun EXCEPT ![r] = new]
            BY <1>1, <2>4 DEF TakeTransaction
        <3>2. NamesCharge(new.org, new.tx)
            BY <2>1, <2>4, CandidateNamesCharge
        <3> HIDE DEF new
        <3> QED BY <2>1, <2>2, <3>1, <3>2, <1>n, FeedRunNames
    <2> QED BY <2>3, <2>4
<1>2. ASSUME RecordMatch(r) \/ FeedRunEnds(r) PROVE BankNames'
    <2>1. feedRun' = [feedRun EXCEPT ![r] = Resting] /\ UNCHANGED <<clerk, unmatched>>
        BY <1>2 DEF RecordMatch, FeedRunEnds
    <2> QED BY <2>1, <1>n, FeedRunNames
<1>3. ASSUME feedRun[r] = [at |-> "matched", org |-> o, tx |-> t], QueueUnmatched(r)
      PROVE  BankNames'
    <2>1. /\ feedRun' = [feedRun EXCEPT ![r] = Resting] /\ UNCHANGED clerk
          /\ \/ UNCHANGED unmatched
             \/ unmatched' = [unmatched EXCEPT ![o][t] = "pending"]
        BY <1>3 DEF QueueUnmatched
    <2>2. feedRun[r] # Resting /\ feedRun[r].org = o /\ feedRun[r].tx = t
        BY <1>3 DEF QueueUnmatched
    <2>3. NamesCharge(o, t)
        BY <2>2 DEF BankNames
    <2>4. \A p \in Orgs, u \in Txs : unmatched'[p][u] # "none" => NamesCharge(p, u)
        <3> TAKE p \in Orgs, u \in Txs
        <3>1. CASE p = o /\ u = t
            BY <3>1, <2>3
        <3>2. CASE ~ (p = o /\ u = t)
            <4>1. unmatched'[p][u] = unmatched[p][u]
                BY <3>2, <2>1, <1>t
            <4> QED BY <4>1, <1>n
        <3> QED BY <3>1, <3>2
    <2> QED BY <2>1, <2>4, FeedRunNames
<1> QED BY <1>1, <1>2, <1>3

LEMMA ClerkStepNames ==
    ASSUME BankInv, BankNames, NEW q \in Clerks, ClerkStep(q)
    PROVE  BankNames'
<1>t. unmatched \in [Orgs -> [Txs -> Row]] /\ clerk \in [Clerks -> {Resting} \cup Answering]
    BY DEF BankInv, BankTyped
<1>n. \A p \in Orgs, u \in Txs : unmatched[p][u] # "none" => NamesCharge(p, u)
    BY DEF BankNames
<1>1. ASSUME NEW o \in Orgs, NEW t \in Txs, NEW v \in {"confirmed", "dismissed"},
             ResolveCheck(q, o, t, v)
      PROVE  BankNames'
    <2> DEFINE new == [at |-> IF v = "confirmed" THEN "paying" ELSE "writing",
                       org |-> o, tx |-> t, verdict |-> v]
    <2>1. new \in Answering /\ new.org = o /\ new.tx = t
        BY DEF Answering
    <2>2. clerk' = [clerk EXCEPT ![q] = new] /\ UNCHANGED <<feedRun, unmatched>>
        BY <1>1 DEF ResolveCheck
    <2>3. NamesCharge(o, t)
        BY <1>1, <1>n DEF ResolveCheck, MayResolve
    <2> HIDE DEF new
    <2> QED BY <2>1, <2>2, <2>3, <1>n, RequestNames
<1>2. ASSUME ConfirmPays(q) PROVE BankNames'
    <2>1. clerk[q] # Resting
        BY <1>2 DEF ConfirmPays, Resting
    <2>2. clerk[q] \in Answering /\ NamesCharge(clerk[q].org, clerk[q].tx)
        BY <2>1, <1>t DEF BankNames
    <2>3. UNCHANGED <<feedRun, unmatched>>
        BY <1>2 DEF ConfirmPays
    <2>4. CASE MayInsert(clerk[q].org, clerk[q].tx, "person")
        <3> DEFINE new == [clerk[q] EXCEPT !.at = "writing"]
        <3>1. new \in Answering /\ new.org = clerk[q].org /\ new.tx = clerk[q].tx
            BY <2>2 DEF Answering
        <3>2. clerk' = [clerk EXCEPT ![q] = new]
            BY <1>2, <2>4, <1>t DEF ConfirmPays
        <3> HIDE DEF new
        <3> QED BY <3>1, <3>2, <2>2, <2>3, <1>n, RequestNames
    <2>5. CASE ~ MayInsert(clerk[q].org, clerk[q].tx, "person")
        <3>1. clerk' = [clerk EXCEPT ![q] = Resting]
            BY <1>2, <2>5 DEF ConfirmPays
        <3> QED BY <3>1, <2>3, <1>n, RequestNames
    <2> QED BY <2>4, <2>5
<1>3. ASSUME ResolveWrites(q) PROVE BankNames'
    <2>1. clerk[q] # Resting
        BY <1>3 DEF ResolveWrites, Resting
    <2>2. clerk[q] \in Answering /\ NamesCharge(clerk[q].org, clerk[q].tx)
        BY <2>1, <1>t DEF BankNames
    <2>3. PICK o \in Orgs, t \in Txs : clerk[q].org = o /\ clerk[q].tx = t
        BY <2>2 DEF Answering
    <2>4. /\ unmatched' = [unmatched EXCEPT ![o][t] = clerk[q].verdict]
          /\ clerk' = [clerk EXCEPT ![q] = Resting] /\ UNCHANGED feedRun
        BY <1>3, <2>3 DEF ResolveWrites
    <2>5. \A p \in Orgs, u \in Txs : unmatched'[p][u] # "none" => NamesCharge(p, u)
        <3> TAKE p \in Orgs, u \in Txs
        <3>1. CASE p = o /\ u = t
            BY <3>1, <2>2, <2>3
        <3>2. CASE ~ (p = o /\ u = t)
            <4>1. unmatched'[p][u] = unmatched[p][u]
                BY <3>2, <2>4, <1>t
            <4> QED BY <4>1, <1>n
        <3> QED BY <3>1, <3>2
    <2> QED BY <2>4, <2>5, RequestNames
<1>4. ASSUME ResolveEnds(q) PROVE BankNames'
    <2>1. clerk' = [clerk EXCEPT ![q] = Resting] /\ UNCHANGED <<feedRun, unmatched>>
        BY <1>4 DEF ResolveEnds
    <2> QED BY <2>1, <1>n, RequestNames
<1> QED BY <1>1, <1>2, <1>3, <1>4 DEF ClerkStep

LEMMA BankNamedNext == BankInv /\ BankNamed /\ [BankNext]_bankVars => BankNamed'
<1> SUFFICES ASSUME BankInv, BankNamed, [BankNext]_bankVars PROVE BankNamed'
    OBVIOUS
<1>t. BankNames /\ feedFaults \in 0..MaxFeedFaults /\ expired \subseteq Txs
    BY DEF BankNamed
<1>f. FeedFault => feedFaults' \in 0..MaxFeedFaults
    BY <1>t, BankMatchAssumption DEF FeedFault
<1>1. ASSUME NEW o \in Orgs, NEW t \in Txs, FeedStep(o, t)
      PROVE  BankNamed'
    <2>1. UNCHANGED <<feedFaults, expired>>
        BY <1>1 DEF FeedStep, TakeTransaction, RecordMatch, QueueUnmatched
    <2>2. BankNames'
        BY <1>1, <1>t, FeedStepNames DEF FeedStep
    <2> QED BY <2>1, <2>2, <1>t DEF BankNamed
<1>2. ASSUME NEW r \in FeedRuns, FeedRunEnds(r)
      PROVE  BankNamed'
    <2>1. feedRun' = [feedRun EXCEPT ![r] = Resting] /\ UNCHANGED <<clerk, unmatched, expired>>
        BY <1>2 DEF FeedRunEnds
    <2>2. BankNames'
        BY <2>1, <1>t, FeedRunNames DEF BankNames, NamesCharge
    <2> QED BY <2>1, <2>2, <1>2, <1>f, <1>t DEF BankNamed, FeedRunEnds
<1>3. ASSUME NEW q \in Clerks, ClerkStep(q)
      PROVE  BankNamed'
    <2>1. UNCHANGED expired /\ (feedFaults' = feedFaults \/ FeedFault)
        BY <1>3 DEF ClerkStep, ResolveCheck, ConfirmPays, ResolveWrites, ResolveEnds
    <2>2. BankNames'
        BY <1>3, <1>t, ClerkStepNames
    <2> QED BY <2>1, <2>2, <1>f, <1>t DEF BankNamed
<1>4. ASSUME NEW t \in Txs, WindowCloses(t)
      PROVE  BankNamed'
    BY <1>4, <1>t DEF WindowCloses, BankNamed, BankNames, NamesCharge
<1>5. CASE UNCHANGED bankVars
    BY <1>5, <1>t DEF bankVars, BankNamed, BankNames, NamesCharge
<1> QED BY <1>1, <1>2, <1>3, <1>4, <1>5 DEF BankNext

LEMMA BankInvTyped == BankInv /\ BankNamed => BankTypeOK
<1> SUFFICES ASSUME BankInv, BankNamed PROVE BankTypeOK
    OBVIOUS
<1>1. BankTyped /\ BankNames
    BY DEF BankInv, BankNamed
<1>2. ASSUME NEW o \in Orgs, NEW t \in Txs, NEW r \in FeedRuns,
             feedRun[r] = [at |-> "matched", org |-> o, tx |-> t]
      PROVE  Evidence[o][t].reference # "nothing"
    <2>1. feedRun[r] # Resting /\ feedRun[r].org = o /\ feedRun[r].tx = t
        BY <1>2 DEF Resting
    <2> QED BY <2>1, <1>1 DEF BankNames, NamesCharge
<1>3. \A o \in Orgs, t \in Txs :
        (\/ unmatched[o][t] # "none"
         \/ \E r \in FeedRuns : feedRun[r] = [at |-> "matched", org |-> o, tx |-> t])
        => Evidence[o][t].reference # "nothing"
    BY <1>1, <1>2 DEF BankNames, NamesCharge
<1> QED BY <1>1, <1>3 DEF BankTypeOK, BankTyped, BankNamed, BankRow, Answering

\* Payments, rows, runs and requests stay what the code may write, and whatever is
\* queued or about to be recorded names a charge of that organisation.
THEOREM BankTypeCorrect == BankSpec => []BankTypeOK
BY BankInvTyped, BankInvHolds, BankNamedInit, BankNamedNext, PTL DEF BankSpec

-----------------------------------------------------------------------------
\* Card payments: while nobody was at the event of a session twice, a handler
\* that has it at hand found nothing and nothing was written since.
StripeInv ==
    /\ delivery \in [Deliveries -> {Free} \cup RentSessions]
    /\ cardPayments \in [RentSessions -> Nat]
    /\ subscription \in [SubSessions -> {"none", "pending", "approved", "rejected"}]
    /\ decisions \in [SubSessions -> Nat]
    /\ \A d \in Deliveries, s \in RentSessions :
          delivery[d] = s /\ s \notin handledTwice => cardPayments[s] = 0
    /\ \A s \in RentSessions : cardPayments[s] <= 1 \/ s \in handledTwice
    /\ \A s \in SubSessions :
          decisions[s] = IF subscription[s] \in {"approved", "rejected"} THEN 1 ELSE 0

LEMMA FreeIsNone == Free \notin RentSessions /\ Free \notin Sessions
BY StripeAssumption DEF Sessions

LEMMA StripeInvInit == StripeInit => StripeInv
BY StripeAssumption DEF StripeInit, StripeInv, Free

LEMMA LookForPaymentStep ==
    ASSUME StripeInv, NEW d \in Deliveries, NEW s \in Sessions, LookForPayment(d, s)
    PROVE  StripeInv'
<1>1. /\ s \in RentSessions
      /\ \/ UNCHANGED delivery
         \/ cardPayments[s] = 0 /\ delivery' = [delivery EXCEPT ![d] = s]
      /\ UNCHANGED <<cardPayments, subscription, decisions, handledTwice>>
    BY DEF LookForPayment, Recorded, StripeInv
<1> QED BY <1>1 DEF StripeInv

LEMMA WritePaymentStep ==
    ASSUME StripeInv, NEW d \in Deliveries, NEW s \in Sessions, WritePayment(d, s)
    PROVE  StripeInv'
<1>1. s \in RentSessions \/ s = Free
    BY DEF WritePayment, StripeInv
<1>2. CASE s \in RentSessions
    <2>1. /\ delivery[d] = s /\ delivery' = [delivery EXCEPT ![d] = Free]
          /\ cardPayments' = [cardPayments EXCEPT ![s] = cardPayments[s] + 1]
          /\ handledTwice' = handledTwice \cup
                {t \in {s} : \E e \in Deliveries \ {d} : delivery[e] = s}
          /\ UNCHANGED <<subscription, decisions>>
        BY DEF WritePayment
    <2>2. handledTwice \subseteq handledTwice'
        BY <2>1
    <2>3. \A e \in Deliveries, t \in RentSessions :
            delivery'[e] = t /\ t \notin handledTwice' => cardPayments'[t] = 0
        <3>1. ASSUME NEW e \in Deliveries, NEW t \in RentSessions, delivery'[e] = t,
                     t \notin handledTwice'
              PROVE  cardPayments'[t] = 0
            <4>1. e # d /\ delivery[e] = t
                BY <2>1, <3>1, FreeIsNone DEF StripeInv
            <4>2. t # s
                BY <2>1, <3>1, <4>1
            <4> QED BY <2>1, <2>2, <3>1, <4>1, <4>2 DEF StripeInv
        <3> QED BY <3>1
    <2>4. \A t \in RentSessions : cardPayments'[t] <= 1 \/ t \in handledTwice'
        BY <1>2, <2>1, <2>2 DEF StripeInv
    <2> QED BY <1>2, <2>1, <2>3, <2>4 DEF StripeInv
<1>3. CASE s = Free
    BY <1>3, FreeIsNone
<1> QED BY <1>1, <1>2, <1>3

LEMMA HandlerFailsStep ==
    ASSUME StripeInv, NEW d \in Deliveries, HandlerFails(d)
    PROVE  StripeInv'
BY FreeIsNone DEF StripeInv, HandlerFails

LEMMA InsertSubscriptionStep ==
    ASSUME StripeInv, NEW s \in Sessions, InsertSubscription(s)
    PROVE  StripeInv'
<1>1. /\ s \in SubSessions
      /\ \/ subscription' = subscription
         \/ subscription[s] = "none" /\ subscription' = [subscription EXCEPT ![s] = "pending"]
      /\ UNCHANGED <<delivery, cardPayments, decisions, handledTwice>>
    BY DEF InsertSubscription, OnConflict, StripeInv
<1> QED BY <1>1 DEF StripeInv

LEMMA DecideStep ==
    ASSUME StripeInv, NEW s \in SubSessions, NEW v \in {"approved", "rejected"}, Decide(s, v)
    PROVE  StripeInv'
<1>1. /\ subscription[s] = "pending"
      /\ subscription' = [subscription EXCEPT ![s] = v]
      /\ decisions' = [decisions EXCEPT ![s] = decisions[s] + 1]
      /\ UNCHANGED <<delivery, cardPayments, handledTwice>>
    BY DEF Decide
<1> QED BY <1>1 DEF StripeInv

LEMMA StripeInvNext == StripeInv /\ [StripeNext]_stripeVars => StripeInv'
<1> SUFFICES ASSUME StripeInv, [StripeNext]_stripeVars PROVE StripeInv'
    OBVIOUS
<1>1. ASSUME NEW s \in Sessions, OpenCheckout(s) \/ CompleteCheckout(s) \/ SkipUnpaid(s)
      PROVE  StripeInv'
    BY <1>1 DEF OpenCheckout, CompleteCheckout, SkipUnpaid, StripeInv
<1>2. ASSUME NEW s \in Sessions, Handle(s)
      PROVE  StripeInv'
    BY <1>1, <1>2, LookForPaymentStep, WritePaymentStep, InsertSubscriptionStep DEF Handle
<1>3. ASSUME NEW s \in SubSessions, MarkApproved(s) \/ MarkRejected(s)
      PROVE  StripeInv'
    BY <1>3, DecideStep DEF MarkApproved, MarkRejected
<1>4. CASE UNCHANGED stripeVars
    BY <1>4 DEF stripeVars, StripeInv
<1> QED BY <1>1, <1>2, <1>3, <1>4, HandlerFailsStep DEF StripeNext

\* The event of a session is paid once and a subscription is decided once,
\* however often the event is delivered and whichever answers are lost, unless
\* two handlers were at the event at once.
THEOREM CardEventActsOnceCorrect == StripeSpec => []CardEventActsOnce
<1>1. StripeInv => CardEventActsOnce
    BY DEF StripeInv, CardEventActsOnce
<1> QED BY <1>1, StripeInvInit, StripeInvNext, PTL DEF StripeSpec

\* What Stripe completed, row by row.
StripeShape ==
    /\ session \in [Sessions -> {"none", "open", "paid", "unpaid"}]
    /\ unanswered \subseteq Sessions
    /\ stripeFaults \in 0..MaxStripeFaults
    /\ handledTwice \subseteq RentSessions
StripeCompleted ==
    /\ \A s \in unanswered : Delivered(s)
    /\ \A d \in Deliveries, s \in RentSessions : delivery[d] = s => PaidFor(s)
    /\ \A s \in RentSessions : cardPayments[s] > 0 => PaidFor(s)
    /\ \A s \in SubSessions : subscription[s] # "none" => Delivered(s)

StripeTyped == StripeInv /\ StripeShape /\ StripeCompleted

LEMMA StripeTypedInit == StripeInit => StripeTyped
<1> SUFFICES ASSUME StripeInit PROVE StripeTyped
    OBVIOUS
<1>1. StripeInv
    BY StripeInvInit
<1>2. stripeFaults \in 0..MaxStripeFaults
    BY StripeAssumption DEF StripeInit
<1>3. StripeShape
    BY <1>2 DEF StripeInit, StripeShape
<1>4. StripeCompleted
    BY FreeIsNone DEF StripeInit, StripeCompleted
<1> QED BY <1>1, <1>3, <1>4 DEF StripeTyped

LEMMA StripeFaultCounted ==
    ASSUME StripeTyped, StripeFault
    PROVE  stripeFaults' \in 0..MaxStripeFaults
BY StripeAssumption DEF StripeTyped, StripeShape, StripeFault

\* What Stripe says of a session that is complete does not change any more.
LEMMA CompletedStays ==
    ASSUME StripeTyped, NEW s \in Sessions, OpenCheckout(s) \/ CompleteCheckout(s)
    PROVE  /\ session' \in [Sessions -> {"none", "open", "paid", "unpaid"}]
           /\ \A t \in Sessions : Delivered(t) => session'[t] = session[t]
           /\ CompleteCheckout(s) => session'[s] \in {"paid", "unpaid"}
BY DEF StripeTyped, StripeShape, OpenCheckout, CompleteCheckout, Delivered

LEMMA CheckoutTyped ==
    ASSUME StripeTyped, NEW s \in Sessions, OpenCheckout(s) \/ CompleteCheckout(s)
    PROVE  StripeShape' /\ StripeCompleted'
<1>t. StripeShape /\ StripeCompleted
    BY DEF StripeTyped
<1>1. /\ session' \in [Sessions -> {"none", "open", "paid", "unpaid"}]
      /\ \A t \in Sessions : Delivered(t) => session'[t] = session[t]
      /\ CompleteCheckout(s) => session'[s] \in {"paid", "unpaid"}
    BY CompletedStays
<1>2. /\ UNCHANGED <<delivery, cardPayments, subscription, stripeFaults, handledTwice>>
      /\ \/ unanswered' = unanswered
         \/ unanswered' = unanswered \cup {s} /\ CompleteCheckout(s)
    BY DEF OpenCheckout, CompleteCheckout
<1>3. StripeShape'
    BY <1>t, <1>1, <1>2 DEF StripeShape
<1>4. \A t \in Sessions : (Delivered(t) => Delivered(t)') /\ (PaidFor(t) => PaidFor(t)')
    BY <1>1 DEF Delivered, PaidFor
<1>5. \A t \in unanswered' : Delivered(t)'
    BY <1>t, <1>1, <1>2, <1>4 DEF StripeCompleted, StripeShape, Delivered
<1>6. /\ \A d \in Deliveries, t \in RentSessions : delivery'[d] = t => PaidFor(t)'
      /\ \A t \in RentSessions : cardPayments'[t] > 0 => PaidFor(t)'
      /\ \A t \in SubSessions : subscription'[t] # "none" => Delivered(t)'
    BY <1>t, <1>2, <1>4 DEF StripeCompleted, Sessions
<1> QED BY <1>3, <1>5, <1>6 DEF StripeCompleted

LEMMA HandleTyped ==
    ASSUME StripeTyped, NEW s \in Sessions, Handle(s)
    PROVE  StripeShape' /\ StripeCompleted'
<1>t. StripeInv /\ StripeShape /\ StripeCompleted
    BY DEF StripeTyped
<1>s. /\ UNCHANGED session /\ unanswered' \subseteq unanswered
      /\ stripeFaults' = stripeFaults \/ StripeFault
    BY DEF Handle, SkipUnpaid, InsertSubscription, LookForPayment, WritePayment, Answer
<1>f. stripeFaults' \in 0..MaxStripeFaults
    BY <1>s, <1>t, StripeFaultCounted DEF StripeShape
<1>p. \A t : (Delivered(t)' <=> Delivered(t)) /\ (PaidFor(t)' <=> PaidFor(t))
    BY <1>s DEF Delivered, PaidFor
<1>1. ASSUME SkipUnpaid(s) PROVE StripeShape' /\ StripeCompleted'
    <2>1. UNCHANGED <<delivery, cardPayments, subscription, handledTwice>>
        BY <1>1 DEF SkipUnpaid
    <2> QED BY <2>1, <1>t, <1>s, <1>f, <1>p DEF StripeShape, StripeCompleted
<1>2. ASSUME InsertSubscription(s) PROVE StripeShape' /\ StripeCompleted'
    <2>1. /\ s \in SubSessions /\ Delivered(s)
          /\ subscription' = [subscription EXCEPT ![s] = OnConflict(s)]
          /\ UNCHANGED <<delivery, cardPayments, handledTwice>>
        BY <1>2 DEF InsertSubscription
    <2>2. \A t \in SubSessions : subscription'[t] # "none" => Delivered(t)
        BY <2>1, <1>t DEF StripeInv, StripeCompleted
    <2> QED BY <2>1, <2>2, <1>t, <1>s, <1>f, <1>p DEF StripeShape, StripeCompleted
<1>3. ASSUME NEW d \in Deliveries, LookForPayment(d, s) PROVE StripeShape' /\ StripeCompleted'
    <2>1. /\ PaidFor(s) /\ (delivery' = delivery \/ delivery' = [delivery EXCEPT ![d] = s])
          /\ UNCHANGED <<cardPayments, subscription, handledTwice>>
        BY <1>3 DEF LookForPayment
    <2>2. \A e \in Deliveries, t \in RentSessions : delivery'[e] = t => PaidFor(t)
        BY <2>1, <1>t DEF StripeInv, StripeCompleted
    <2> QED BY <2>1, <2>2, <1>t, <1>s, <1>f, <1>p DEF StripeShape, StripeCompleted
<1>4. ASSUME NEW d \in Deliveries, WritePayment(d, s) PROVE StripeShape' /\ StripeCompleted'
    <2>1. /\ delivery[d] = s /\ delivery' = [delivery EXCEPT ![d] = Free]
          /\ cardPayments' = [cardPayments EXCEPT ![s] = cardPayments[s] + 1]
          /\ handledTwice' \subseteq handledTwice \cup {s} /\ UNCHANGED subscription
        BY <1>4 DEF WritePayment
    <2>2. s \in RentSessions /\ PaidFor(s)
        BY <2>1, <1>t, FreeIsNone DEF StripeInv, StripeCompleted
    <2>3. \A e \in Deliveries, t \in RentSessions : delivery'[e] = t => PaidFor(t)
        BY <2>1, <1>t, FreeIsNone DEF StripeInv, StripeCompleted
    <2>4. \A t \in RentSessions : cardPayments'[t] > 0 => PaidFor(t)
        BY <2>1, <2>2, <1>t DEF StripeInv, StripeCompleted
    <2> QED BY <2>1, <2>2, <2>3, <2>4, <1>t, <1>s, <1>f, <1>p DEF StripeShape, StripeCompleted
<1> QED BY <1>1, <1>2, <1>3, <1>4 DEF Handle

LEMMA StripeTypedNext == StripeTyped /\ [StripeNext]_stripeVars => StripeTyped'
<1> SUFFICES ASSUME StripeTyped, [StripeNext]_stripeVars PROVE StripeTyped'
    OBVIOUS
<1>t. StripeInv /\ StripeShape /\ StripeCompleted
    BY DEF StripeTyped
<1>i. StripeInv'
    BY <1>t, StripeInvNext
<1>1. ASSUME NEW d \in Deliveries, HandlerFails(d) PROVE StripeShape' /\ StripeCompleted'
    <2>1. /\ delivery' = [delivery EXCEPT ![d] = Free] /\ StripeFault
          /\ UNCHANGED <<session, unanswered, cardPayments, subscription, handledTwice>>
        BY <1>1 DEF HandlerFails
    <2>2. \A t : (Delivered(t)' <=> Delivered(t)) /\ (PaidFor(t)' <=> PaidFor(t))
        BY <2>1 DEF Delivered, PaidFor
    <2>3. \A e \in Deliveries, t \in RentSessions : delivery'[e] = t => PaidFor(t)
        BY <2>1, <1>t, FreeIsNone DEF StripeInv, StripeCompleted
    <2>4. stripeFaults' \in 0..MaxStripeFaults
        BY <2>1, StripeFaultCounted
    <2> QED BY <2>1, <2>2, <2>3, <2>4, <1>t DEF StripeShape, StripeCompleted
<1>2. ASSUME NEW s \in SubSessions, MarkApproved(s) \/ MarkRejected(s)
      PROVE  StripeShape' /\ StripeCompleted'
    <2>1. PICK v \in {"approved", "rejected"} : Decide(s, v)
        BY <1>2 DEF MarkApproved, MarkRejected
    <2>2. /\ subscription[s] = "pending" /\ subscription' = [subscription EXCEPT ![s] = v]
          /\ UNCHANGED <<session, unanswered, delivery, cardPayments, stripeFaults, handledTwice>>
        BY <2>1 DEF Decide
    <2>3. \A t : (Delivered(t)' <=> Delivered(t)) /\ (PaidFor(t)' <=> PaidFor(t))
        BY <2>2 DEF Delivered, PaidFor
    <2>4. \A t \in SubSessions : subscription'[t] # "none" => Delivered(t)
        BY <2>2, <1>t DEF StripeInv, StripeCompleted
    <2> QED BY <2>2, <2>3, <2>4, <1>t DEF StripeShape, StripeCompleted
<1>3. CASE UNCHANGED stripeVars
    <2>1. StripeShape' /\ StripeCompleted'
        BY <1>3, <1>t DEF stripeVars, StripeShape, StripeCompleted, Delivered, PaidFor
    <2> QED BY <2>1, <1>i DEF StripeTyped
<1> QED BY <1>i, <1>1, <1>2, <1>3, CheckoutTyped, HandleTyped DEF StripeNext, StripeTyped

LEMMA StripeTypedTyped == StripeTyped => StripeTypeOK
<1> SUFFICES ASSUME StripeTyped PROVE StripeTypeOK
    OBVIOUS
<1>1. StripeInv /\ StripeShape /\ StripeCompleted
    BY DEF StripeTyped
<1>2. \A d \in Deliveries : delivery[d] \in {Free} \cup {s \in RentSessions : session[s] = "paid"}
    BY <1>1 DEF StripeInv, StripeCompleted, PaidFor
<1>3. delivery \in [Deliveries -> {Free} \cup {s \in RentSessions : session[s] = "paid"}]
    BY <1>1, <1>2 DEF StripeInv
<1> QED BY <1>1, <1>3 DEF StripeTypeOK, StripeInv, StripeShape, StripeCompleted, PaidFor

\* Sessions, handlers and rows stay what the code can leave them in, and no row of a
\* session exists that Stripe did not complete.
THEOREM StripeTypeCorrect == StripeSpec => []StripeTypeOK
BY StripeTypedTyped, StripeTypedInit, StripeTypedNext, PTL DEF StripeSpec
=============================================================================
