------------------------------ MODULE IdChecks ------------------------------
(***************************************************************************)
(* Right-to-rent checks with a live provider. A request submits the check  *)
(* and then files a row under the provider's reference; the provider       *)
(* tells of its progress, concludes in its own time and calls the webhook  *)
(* about each, in no order it promises, again and again until it is        *)
(* answered with success; staff may poll meanwhile, and what a poll has    *)
(* answered is written to the row when the answer is back.                 *)
(***************************************************************************)
EXTENDS Naturals

CONSTANTS
    Checks,   \* checks that staff ask for (a bound)
    Polls,    \* refreshes that may overlap (a bound)
    MaxPolls, \* how often staff refresh (a bound)
    NoRow

ASSUME IdChecksAssumption ==
    /\ MaxPolls \in Nat
    /\ NoRow \notin {"pending", "pass", "fail", "refer"}

VARIABLES
    asked,    \* POST id-check: "unasked", "submitted", "filed" or "failed"
    provider, \* what the provider holds of each check
    event,    \* the calls about each check that no success has answered yet
    row,      \* status in tenant_id_checks
    poll,     \* what each refresh is at
    polls,    \* refreshes so far
    stale     \* checks whose row was last written from news older than the conclusion

idVars == <<asked, provider, event, row, poll, polls, stale>>

Conclusions == {"pass", "fail", "refer"}
News == {"progress", "conclusion"}
NotPolling == [at |-> "rest"]

-----------------------------------------------------------------------------
\* submitCheck.
SubmitCheck(k) ==
    /\ asked[k] = "unasked"
    /\ asked' = [asked EXCEPT ![k] = "submitted"]
    /\ provider' = [provider EXCEPT ![k] = "pending"]
    /\ UNCHANGED <<event, row, poll, polls, stale>>

\* The row, under the reference that the provider has returned.
FileCheck(k) ==
    /\ asked[k] = "submitted"
    /\ asked' = [asked EXCEPT ![k] = "filed"]
    /\ row' = [row EXCEPT ![k] = "pending"]
    /\ UNCHANGED <<provider, event, poll, polls, stale>>

\* The write throws, or the process is gone: the provider has a check that no
\* row knows of.
FilingFails(k) ==
    /\ asked[k] = "submitted"
    /\ asked' = [asked EXCEPT ![k] = "failed"]
    /\ UNCHANGED <<provider, event, row, poll, polls, stale>>

\* The provider has begun on the check, and says so.
ReportProgress(k) ==
    /\ provider[k] = "pending"
    /\ event' = [event EXCEPT ![k] = @ \cup {"progress"}]
    /\ UNCHANGED <<asked, provider, row, poll, polls, stale>>

\* The provider concludes, perhaps before the row is there.
Conclude(k, outcome) ==
    /\ provider[k] = "pending"
    /\ provider' = [provider EXCEPT ![k] = outcome]
    /\ event' = [event EXCEPT ![k] = @ \cup {"conclusion"}]
    /\ UNCHANGED <<asked, row, poll, polls, stale>>

\* The status that a call says.
Says(k, news) == IF news = "progress" THEN "pending" ELSE provider[k]

\* As it would be if a call about a reference without a row were received.
ReceivedAnyway(k) == TRUE
\* 404 while no row has the reference.
Received(k) == row[k] # NoRow

\* What a call says is written over whatever the row holds.
WriteCall(k, news) ==
    /\ Received(k)
    /\ row' = IF row[k] = NoRow THEN row ELSE [row EXCEPT ![k] = Says(k, news)]
    /\ stale' = IF Says(k, news) = provider[k] THEN stale \ {k} ELSE stale \cup {k}

\* POST /api/webhooks/credas.
Webhook(k, news) ==
    /\ news \in event[k]
    /\ event' = [event EXCEPT ![k] = @ \ {news}]
    /\ WriteCall(k, news)
    /\ UNCHANGED <<asked, provider, poll, polls>>

\* The answer does not reach the provider, which calls again.
WebhookUnheard(k, news) ==
    /\ news \in event[k]
    /\ WriteCall(k, news)
    /\ UNCHANGED <<asked, provider, event, poll, polls>>

\* POST refresh: the row is there, and the provider has answered.
RefreshPolls(q, k) ==
    /\ poll[q] = NotPolling
    /\ polls < MaxPolls
    /\ row[k] # NoRow
    /\ poll' = [poll EXCEPT ![q] = [at |-> "write", check |-> k, answer |-> provider[k]]]
    /\ polls' = polls + 1
    /\ UNCHANGED <<asked, provider, event, row, stale>>

RefreshWrites(q) ==
    /\ poll[q].at = "write"
    /\ LET k == poll[q].check IN
          /\ row' = [row EXCEPT ![k] = poll[q].answer]
          /\ stale' = IF poll[q].answer = provider[k] THEN stale \ {k} ELSE stale \cup {k}
    /\ poll' = [poll EXCEPT ![q] = NotPolling]
    /\ UNCHANGED <<asked, provider, event, polls>>

RefreshFails(q) ==
    /\ poll[q].at = "write"
    /\ poll' = [poll EXCEPT ![q] = NotPolling]
    /\ UNCHANGED <<asked, provider, event, row, polls, stale>>

-----------------------------------------------------------------------------
IdInit ==
    /\ asked = [k \in Checks |-> "unasked"]
    /\ provider = [k \in Checks |-> "none"]
    /\ event = [k \in Checks |-> {}]
    /\ row = [k \in Checks |-> NoRow]
    /\ poll = [q \in Polls |-> NotPolling]
    /\ polls = 0 /\ stale = {}

IdNext ==
    \/ \E k \in Checks :
          \/ SubmitCheck(k) \/ FileCheck(k) \/ FilingFails(k) \/ ReportProgress(k)
          \/ \E outcome \in Conclusions : Conclude(k, outcome)
          \/ \E news \in News : Webhook(k, news) \/ WebhookUnheard(k, news)
    \/ \E q \in Polls :
          \/ \E k \in Checks : RefreshPolls(q, k)
          \/ RefreshWrites(q) \/ RefreshFails(q)

IdSpec == IdInit /\ [][IdNext]_idVars

-----------------------------------------------------------------------------
(* Rows and requests hold what the code may write.                           *)
IdTypeOK ==
    /\ asked \in [Checks -> {"unasked", "submitted", "filed", "failed"}]
    /\ provider \in [Checks -> {"none", "pending"} \cup Conclusions]
    /\ event \in [Checks -> SUBSET News]
    /\ row \in [Checks -> {NoRow, "pending"} \cup Conclusions]
    /\ \A k \in Checks : row[k] # NoRow <=> asked[k] = "filed"
    /\ poll \in [Polls -> {NotPolling} \cup
          [at: {"write"}, check: Checks, answer: {"pending"} \cup Conclusions]]
    /\ polls \in 0..MaxPolls /\ stale \subseteq Checks

(* What the provider concluded reaches every row that was filed, although the *)
(* call may come before the row, come again and overlap refreshes, except     *)
(* where a refresh that polled before the conclusion, or a progress call that *)
(* comes late, was written over it and nothing newer after.                   *)
ConclusionsArrive ==
    <>[](\A k \in Checks :
            row[k] # NoRow /\ provider[k] \in Conclusions =>
                row[k] = provider[k] \/ k \in stale)
=============================================================================
