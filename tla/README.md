# A verification project for TENANT-HUB

TLA+ models of the parts of TENANT-HUB where concurrency, failure and ordering
decide whether the program is right, TLC runs that check them on small
instances, and TLAPS proofs of what matters most for every instance. Every
definition is translated from the TypeScript and SQL of the repository;
`PROJECT.json` ("map") names the lines each one stands for.

## 1. The system

TENANT-HUB is a property-management platform: a Next.js application
(`apps/web`), a background worker (`apps/worker`), shared packages and a
Postgres schema. State that matters is in Postgres; the two programs never call
each other and meet only there. There may be several workers, and within one
worker the ticks of the poll loop overlap.

| component | state it keeps | operations | correct when |
|---|---|---|---|
| agent job queue (`packages/db/src/jobs.ts`, `apps/worker/src`) | `jobs` rows, the in-flight runs, the shutdown flag | schedule, enqueue, claim, complete, fail, recover, release on SIGTERM | one runner per job; one live job per agent, organisation and bucket; outcomes are final; every job ends |
| audited write path (`write-with-audit.ts`) and daily chain check | the record, `audit_logs`, `stamp_queue`; all in one transaction | lock, upsert, link to the previous hash, append; `verifyChain` | the rows of a record form one chain, and the check reports a break exactly if history was touched |
| stamp outbox (`chain-stamp.ts`, `outbox.ts`, retry route) | `stamp_queue` rows, the transactions on the chain | claim, anchor, record, back off, manager's retry | the queue says of each hash what the chain says; every stamp settles |
| arrears ladder | `arrears_cases`, `arrears_events`, letters | open, climb, close a case; letter and event of a rung | one open case per tenancy, one letter per rung, the case follows the debt |
| rent reconciliation | `service_charges`, `rent_payments`, `rent_unmatched` | raise charges, match the bank feed, confirm, dismiss | every period is charged, the same money is one payment, nothing is forgotten |
| Stripe webhook | checkout sessions, card payments, `subscriptions` | checkout, completed events, approve, reject | a redelivered event acts once, and acts |
| intake | drafts, tenants, tenancies | pages load and save a draft, sign, commit | one tenant per draft, with the answers that were signed |
| leads board | leads and their tenant | edit, link, look (which heals) | a closed lead is the person it became |
| second factor | live and pending secret, recovery codes | set up, confirm, disable, sign in | what the person holds works; a code opens once |
| identity checks | `tenant_id_checks`, the provider's side | submit, webhook, refresh | the provider's conclusion reaches the row |
| passwords and sessions | password hash, sessions, vaulted copies | sign in, rehash, issue, reset | an old password works nowhere, the vault's one does |
| people of an organisation | roles, `access_requests` | change and remove people, ask, approve, invite | there is an admin; an approval is an account |
| homes and journey | tenancies, stations, diary | house, tick, move out, the board | one home per tenant and tenant per room; the board fills in order |
| issue triage, insurance renewal, interaction memory, regulation watch, compliance watch | tickets and jobs; cycles; notes and promises; laws and impacts; alerts | run by the queue once per interval, next to people's routes | each item is dealt with once, wholly, and in the end |
| owner digest, outside services, environment, telemetry, UI, CRUD routes, policies | none, or on the other side | calls that may throw | not modelled: see section 7 |

How they interact: the worker's tick calls `scheduleDue`, then `drainOnce`,
then `drainStamps`. Agents and web routes write through `writeWithAudit`, which
appends an audit row and a stamp; the chain check is itself an agent of the job
queue. What is hard is therefore not in one function: statements of two ticks
or two requests interleave, a flag or row read in one statement is used in the
next, a worker stops between two of them, a call that timed out has happened
all the same. `PROJECT.json` ("hazards") lists these places line by line.

## 2. Modules

| module | models |
|---|---|
| `JobQueue` | the jobs table, the scheduler, claim, runs and the life cycle of the workers |
| `JobQueueProofs` | theorems about `JobQueue` |
| `AuditWrite` | concurrent calls of `writeWithAudit` and the daily `verifyChain` |
| `AuditWriteProofs` | theorems about `AuditWrite` |
| `StampOutbox` | passes of `drainStamps`, the chain, the retry route |
| `StampOutboxProofs` | theorems about `StampOutbox` |
| `WorkItem` | abstract: the life of one item of a queue, which jobs and stamps implement |
| `Arrears`, `RentCharges`, `BankMatch`, `StripeEvents` | money: what is owed, chased, charged, matched and paid by card |
| `MoneyProofs` | theorems about `BankMatch` and `StripeEvents` |
| `LedgerProofs` | theorems about `Arrears` and `RentCharges`, and the types of all of `MCLedger` |
| `InsuranceRenewal`, `IssueTriage`, `InteractionMemory`, `RegulationWatch`, `ComplianceWatch` | the scheduled agents that keep rows of their own |
| `LiftOnce` | abstract: what an agent that lifts follow-ups from a stream of items promises |
| `AgentProofs` | theorems about the agents, with the refinement of `LiftOnce` and the types of all of `MCAgents` |
| `Intake`, `LeadBoard`, `SecondFactor`, `IdChecks`, `Accounts`, `Membership`, `Homes` | what people do through the web app |
| `AccountProofs` | theorems about `SecondFactor`, `Accounts` and `Membership` |
| `TenantProofs` | theorems about `Intake`, `LeadBoard`, `IdChecks` and `Homes`, and about all of `MCPeople` |
| `MCJobQueue`, `MCAuditWrite`, `MCStampOutbox` | instances for TLC |
| `MCLedger`, `MCAgents`, `MCPeople` | instances for TLC of the money, agent and web-app modules |

In every module a statement or a transaction sent to Postgres is one action, and
what a handler carries from one to the next is in a variable of its own
(`ladderRun`, `clerk`, `call`, `handler`, ...). A request or run that throws, or
whose process ends, is an action too; rows stay as they were then. Variables
that only say what happened (`lookedTwice`, `contested`, `handledTwice`,
`excuses`, `crossed`, `muddled`, ...) are history: the properties name with them
the interleavings after which the code really does leave something wrong, so
that everything else is covered without exception.

**MCLedger, MCAgents, MCPeople.** Modules of one group share no rows, so their
product would only multiply states. A variable `part` chooses at the start which
of them a behaviour explores; the rest stands still. Each disjunct of
`LedgerNext`, `AgentsNext` and `PeopleNext` is one module's whole next-state
relation.

**JobQueue.** A process is one tick `<<worker, slot>>`: `index.ts` starts a tick
on each poll interval and does not wait for the last one. Each statement sent to
the database is one action, in the order the code sends them: `BeginTick`,
`Recover` (`recoverStuckJobs`), `Consider` (`hasRecentJob`) and `Enqueue` for
each registered agent and organisation, `EndPass`, `Claim`, then for each
claimed job `AgentReturns` and `Complete` or `Fail`. `Consider` and `Enqueue`
are two actions since the code awaits between them. A run keeps the
`retry_count` its claim returned, as the `job` object of `drainOnce` does, and
`Complete` and `Fail` do not look at the row's status, as the updates by id do
not. Errors follow the catches: `PassThrows` goes on to the drain, `ClaimThrows`
ends the tick, `CompleteThrows` lands in the catch that records a failure. A
claim that would break the partial unique index fails as a whole
(`ClaimRejected`). `Sigterm`, `Release`, `Exit`, `Crash` and `Start` are the life
of a worker; the shutdown flag is read in `EndPass`, before the claim is sent,
so a claim may land after the release. Time is one flag per row, `elapsed`: the
wait attached to the row's status (backoff, thirty minutes, the agent's
interval) is over. `handedBack` is a history variable: the jobs that were
returned to the queue while a run of theirs was alive. `Init` also allows rows
of agents that an earlier deployment registered.

**AuditWrite.** A call goes through lock, look, upsert, chain and commit, one
statement each, under READ COMMITTED: what it wrote is invisible until `Commit`.
The timestamp is taken in `Begin`, before the lock, and so are the organisation
and the tenant that the caller names, or not. The lock key (`Key`) is the
organisation, or the record without one. `Fetchers` are the calls of routes that
look up `prev_hash` themselves before the transaction. `Bare` calls would have no
column to set: their update is a SELECT, which locks no row (`LocksRow`); no
caller in the repository passes such a record today. `BrokenLinks(o, r)` is what
`verifyChain` reports to organisation `o`: it reads the rows of `ReadBy(o)` only,
those with its `org_id` and those with none whose tenant is its own, by
timestamp, while a write links to the last row of the record whoever wrote it.

**StampOutbox.** A pass claims a batch and anchors it stamp by stamp. The chain
call has three outcomes: confirmed, landed although the pass was told
otherwise, never landed. `anchors[s]` counts the transactions on the chain.
`RetryCheck` and `RetryReset` are the two statements of the retry route. Two
history variables, `unsure` and `resetLate`, name the stamps to which the two
things happened that the code cannot tell apart from a failure.

**WorkItem.** One item of a queue: added, taken, then finished, failed (a try
less, the last one drops it) or let go, and back in the queue by `PutBack` (a
hand-back, the tries kept) or `Revive` (a reset, all tries again). `Life(j)` and
`Life(s)` are its instances for one job and one stamp, with the refinement
mapping at the end of `JobQueue` and `StampOutbox`: `failed` and `pending` both
wait, a run or a batch entry is a holder. A job is only put back and a stamp only
revived. `slipped` is where the promise ends: the job was handed back under a
live run, the stamp reset when it was no dead letter.

**Arrears.** A run reads the debt of one tenant in `ReadArrears` and then goes
statement by statement: `FindCase`, `CloseCase` or `LeaveCase`, `OpenCase` or
`AdvanceCase`, and for a rung without an event `Draft`, `SendReminder`,
`RecordEvent`. The debt moves under it (`DebtChanges`); a run may end anywhere
(`RunFails`). The rungs are those of `packages/domain/src/arrears-ladder.ts`.

**RentCharges.** A date is a day number in a calendar of unequal months.
`AddPeriod` is the code's month arithmetic, the skipped February included. A
tenancy may have no start date (`NoStart`): each run that finds no charge then
starts from its own day (`FirstDue`).
`InsertFails` is the swallowed error. People add, mark and delete charges.

**BankMatch.** `MatchConfidence` is the code's score of reference and amount over
an `Evidence` relation. `TakeTransaction` scores, `RecordMatch` and
`QueueUnmatched` write; `ResolveCheck`, `ConfirmPays` and `ResolveWrites` are the
three statements of a clerk's request. The index on `external_reference` is the
guard `MayInsert`. A charge older than a fortnight is no candidate
(`WindowCloses`).

**StripeEvents.** A session is opened, completed and delivered until answered, and
now and then once more. `LookForPayment` and `WritePayment` are the two
transactions of the rent handler; `InsertSubscription` is the one statement of
the other.

**The agents.** `InsuranceRenewal`: `FindCycle`, `CreateCycle`, `GatherQuotes`,
`PutToDecision`, and `DecisionCheck`, `DecisionWrite` of the person's route.
`IssueTriage`: `PickTickets`, then per ticket `WriteTriage`, `CallTrade`,
`OpenJob`. `InteractionMemory`: `PickNotes` from the three tables in turn,
`SummariseNote`, `LiftPromise` per sentence in the order of the note, refused if
one of the same text is on record (`OnRecord`), and the sweep `FindOverdue`,
`MarkOverdue`. `RegulationWatch`: `PollFeed`, `ReadHomes`, `RecordLaw`,
`MapToHome`. `ComplianceWatch`: `ReadCertificates`, `ReadAlerts`, then one
`CheckCertificate` per required name. `LiftOnce` states what the third and the
fourth have in common; `Memory` and `Watch` are its instances, with the
refinement mapping in the module that implements it.

**Intake.** A page loads the draft (`OpenPage`), keeps a copy and saves all of it
(`Submit`, `Save`: the route merges it into the row of now). A commit reads
(`CommitReads`) and then writes tenant, checklist, room and draft, one
transaction each. The unique signature hash of a tenant refuses one with the same
answers (`HashTaken`, `CreateRefused`). `ReadForm` is the OCR route, which puts a
new state in place of the draft's. A version stands for a set of answers, a signature and a hash
are known by the version they were given for.

**LeadBoard.** `EditReads`/`EditWrites`, `LinkReads`/`LinkCloses` (`linkLead`) and
the three reads and writes of a look at the board. An edit may write any stage.
`DeleteLead` deletes the row, `ArchiveTenant` takes a tenant off the board. **SecondFactor**: each handler
reads the account, then writes in `Enable`, `Disable` or `SpendRecoveryCode`.
**IdChecks**: `SubmitCheck` before `FileCheck`, `Webhook` for a call that
reports progress or the conclusion, in any order and again until it is heard, `RefreshPolls` and
`RefreshWrites`.

**Accounts.** A password is known by the request that chose it. A sign-in is
`CheckPassword`, `Rehash` if the hash is of the older kind, `OpenSession`. An
issue is `SetPassword`, `EndSessions`, `Supersede`, `Store`, or neither of the last two without the
vault's key (`VaultNotOpen`); a reset, by link or
by the platform, the first two. **Membership.** A handler authorises, reads what
it decides on (`CheckChange`, `CheckRemoval`, `CheckRequest`) and writes later;
an approval is `LookForAccount`, `CreateAccount`, `RecordAccount`,
`VaultAndSend`, `Decide`. **Homes.** `LookAtTenant`, `LookAtRoom` and `House` are
`POST /api/tenancies`, with the two partial indexes as `MayHouse`; `Tick` and
what follows it are the journey route; `KeepDiary` is the diary's own routes, which
enter, tick off and delete a viewing and look at no other; `Board` is `computeJourney`.

## 3. Runs

| run | question | result |
|---|---|---|
| `JobQueueSafety` | retry counts, each job a `WorkItem` | pass |
| `JobQueueProgress` | is every processing job ended or handed back, every failed job retried? | pass |
| `JobQueueClash` | "retries until max_retries, then dead-letters", without any fault | violated |
| `AuditWrite` | links, what the check says of in-order histories, no deadlock between the two lock layers | pass |
| `AuditFork` | "so the chain never forks" | violated |
| `AuditAlarm` | "a break means history was touched" | violated |
| `StampOutbox` | each stamp a `WorkItem`, queue and chain agree, every stamp settles or is stranded | pass |
| `StampStuck` | "recover from unclean shutdowns" | violated |
| `Ledger` | one open case and reminder, every period charged, bank and card money recorded once and in the end | pass |
| `Agents` | items dealt with once, wholly and in the end; a walk over the certificates takes effect; two agents implement `LiftOnce` | pass |
| `RenewalAgain` | "quotes are gathered exactly once per renewal" | violated |
| `People` | one signed tenant per intake, leads, second factor, passwords, admins, homes; the board heals, conclusions arrive | pass |

Bounds. `JobQueueSafety` has two workers with one tick each (a second slot of
one worker adds no behaviour but the shared life cycle), two rows, two tries,
two buckets and one fault: enough for two rows of one key to be failed and
pending at once, for two runners of one job, for a claim after a release and
for a restart. One row may belong to an agent that is not registered. Workers
and rows are symmetric. `JobQueueProgress` has the same workers and rows in one
bucket, without symmetry (liveness). A full table drops an insert, as a conflict
does. `AuditWrite` (514834 states) has three calls on two records, with an
organisation, with a tenant of it or with neither, one route that fetches its own
hash, one call that locks no row, and two instants: both orders of timestamps
against commits, and two rows written in order, the first in or outside the
check's filter. `StampOutbox` has two stamps, two
passes of two workers, two overlapping retries, two tries and one fault. The
proofs of section 5 show that the safety results of all three modules do not
depend on any of these bounds; liveness is shown for these instances only.

`Ledger` (239858 states) has two ladder runs over two debts on either side of a
rung and one fault; two charging runs, four months with a February in them,
both frequencies, a start date on the 28th, on the 31st or none (0), one charge by hand and two mishaps (a lost insert and a run
that ends); two organisations and two transactions on one feed, two clerks and
a fault; two rent sessions, one subscription and two deliveries. `Agents`
(279807 states) has two runs of every agent, one fault, two tickets, notes,
laws and homes, and two certificates; one note says its first promise twice before
its other one. Three required names of which two share a
base were looked at once, for the compliance watch alone (711789 states).
`People` (1054123 states) has two pages, two commits and three saves of a draft,
forms that are read included; two leads and two tenants who share a name or a
phone, any of whom may be deleted or archived, two edits and one look at the board;
two identity checks with three refreshes and calls of both kinds; four second-factor requests over two
secrets; three requests at one account;
one admin, a newcomer and four changes by two handlers; two tenants, two
rooms, and three requests at two desks and the diary. Two looks at the board that
overlap were looked at once, for the board alone (408607 states). Each hazard takes two actors and at most
one fault; the counts leave room for a third request to find what the first two
left. Four saves of a draft were looked at once, for the intake alone
(3.2 million states): there a page can sign after another review, or put a
signature back, two ways in which `CommittedAsSigned` yields that three saves
are too few for; its theorem has no bound.

Checking deadlock is off for `AuditWrite`, `StampOutbox` and `People`, where all
calls may be over, all stamps settled, and all requests spent; `CallsEnd`,
`StampsSettle` and `PeopleSettle` say what must have happened by then.

## 4. Fairness

- *Ticks.* `setInterval` never stops while the worker is up, and an agent is a
  finite sequence of calls with timeouts: weak fairness of each tick's steps.
- *Workers.* `lifecycle.ts` bounds the wait for in-flight runs by 20 seconds and
  then exits whatever happened; the platform restarts the process: weak fairness
  of `Release`, `Exit` and `Start`.
- *Time.* Waits end: weak fairness of `Elapse` and `BackoffElapses`.
- *Transactions.* A statement that is not blocked returns: weak fairness of
  `Proceed`. `Abort` is never forced.
- *Agents.* The queue runs each agent once per interval for ever, retries it when
  it fails, and its calls have timeouts: weak fairness of `LadderStep`,
  `ChargeStep`, `FeedStep`, and of the five agents' steps.
- *Callers from outside.* Stripe and the identity provider deliver an event until
  it is answered with success: weak fairness of `HandleUnanswered` and `Webhook`.
  The board is looked at again and again: weak fairness of `Look`.
- Nothing is assumed of faults, new records, debts, people's requests or the clock
  bucket. Faults are bounded, so liveness is about what happens once they stop.

## 5. Proofs

`JobQueueProofs` proves, for any sets of workers, slots, agents and rows and any
bounds (`JobQueueAssumption` is all that is assumed):

- `TypeCorrect`: `Spec => []TypeOK`
- `RetryCountCorrect`: `Spec => []RetriesDecideDeadLetter`
- `OneRunnerCorrect`: `Spec => []OneRunner`
- `OutcomeCorrect`: `Spec => OutcomeIsFinal`, an action property
- `JobsAreWorkItemsCorrect`: `Spec => JobsAreWorkItems`, each job implements
  `WorkItem`

`TypeOK` is not inductive: `Fail` writes `retries + 1`, which is within
`0..MaxRetries` only if a run's copy is below the maximum, which holds as only
rows with a retry left are claimed. `TypeInv` adds that: a run has a row, an
insert has a task, `RetriesDecideDeadLetter`. `OneRunner` needs to know that
a row whose run is alive is `processing` unless it was handed back
(`RunHoldsRow`): the claim takes only rows that are not, so it cannot give a
second runner. The two together are `RunnerInv`. `OutcomeIsFinal` follows step
by step: every action that writes a row either writes it under a run, whose row
is processing by `RunHoldsRow` and has the run's count, or is a claim or an
insert. The refinement has one lemma per kind of step. A claim takes many rows
and is a `Take` of each; its tick has no run of them yet, since a tick claims once
(`RunsAfterClaim`). A hand-back is `PutBack` for each row it returns, and a slip
for those whose runner is alive. A process that ends lets go.

`AuditWriteProofs` proves, from `AuditWriteAssumption` alone:

- `TypeCorrect`: `Spec => []TypeOK`
- `PrevIsEarlierRowCorrect`: `Spec => []PrevIsEarlierRow`
- `InOrderBreaksAtGapsCorrect`: `Spec => []InOrderBreaksAtGaps`

`LinkInv` adds to `PrevIsEarlierRow` that a hash a call holds, its caller's or
its own reading, is that of a committed row of its record. `OrderInv` is the
argument for the check: the upsert's row lock has one holder (`RowLock`), so
what a call chained to is still the newest row when it commits
(`ChainedToNewest`); in a record written in order the newest row by timestamp is
the one committed last, so each row links to the one before (`InOrderFollows`);
that is what the check expects where it reads that row, and where it does not it
expects another (`CheckLemma`). A call that locks no row may commit over the
reading of another, which is why a history written in order excludes it. The advisory lock does not
occur in the argument: the proof shows that the row lock alone protects the
chain, whatever keys the callers choose.

`StampOutboxProofs` proves, from `StampOutboxAssumption` alone:

- `TypeCorrect`: `Spec => []TypeOK`
- `OneHolderCorrect`: `Spec => []OneHolder`
- `StatusMatchesChainCorrect`: `Spec => []StatusMatchesChain`
- `StampsAreWorkItemsCorrect`: `Spec => StampsAreWorkItems`, each stamp implements
  `WorkItem`

`TypeInv` adds to `TypeOK` that a pending stamp has a try left, so the count a
pass carries is below the maximum when it fails, and that a held stamp exists.
`HolderInv` says that a held stamp is `processing`, so that no other pass can
claim it; a late reset breaks it, which is why `OneHolder` excepts `resetLate`.
`ChainInv` extends `StatusMatchesChain` to what a pass is about to record: before
the anchor and on the way to a failure the hash is not on the chain, on the way
to `done` it is there once. It needs `HolderInv`, as a second holder would
anchor the hash again. The refinement needs one fact more, `CopyInv`: but for late
resets the retry count that a pass carries is still the row's, so the row it
writes from its copy after a failure has one try less than the row it replaces;
and a row that a manager has read exists, so a reset is never an `Add`.
`OneRunner` and `OneHolder` follow from the refinements, as does `OutcomeIsFinal`
but for the difference between `pending` and `failed`; TLC checks the refinements in their
place, and they stay theorems, being easier to read.

`MoneyProofs` proves, from the modules' assumptions alone:

- `BankPaidOnceCorrect`: `BankSpec => []BankPaidOnce`
- `ResolutionMatchesLedgerCorrect`: `BankSpec => []ResolutionMatchesLedger`
- `CardEventActsOnceCorrect`: `StripeSpec => []CardEventActsOnce`

`BankInv` has the argument in named parts. One payment per transaction
(`OnePerTx`) is what the unique index gives. What an agent is about to record is
a clean match (`AgentTakesClean`): a confidence above the threshold needs the
whole reference and an amount within one per cent (`ConfidentIsClean`). A request
that has written the payment and not yet the row has a payment to point at
(`WritingHasPaid`), and so has every confirmed row (`ConfirmedHasPaid`). A
request that has passed the check while another one resolved the row makes it
contested (`LateIsContested`), and a person's payment whose row is neither
confirmed nor contested has its request still at work (`PaidIsConfirmed`): that
is why a dismissed row without contest has no payment of a person. `StripeInv`
says of a handler with an event at hand that nothing was written since it looked,
unless two handlers were at the event; the subscription's half needs no more than
its conflict clause.

`LedgerProofs` proves, from the modules' assumptions:

- `CaseAlwaysAlone`: `ArrearsSpec => []OneOpenCase`
- `ReminderAlwaysOnce`: `ArrearsSpec => []RemindedOnce`
- `ScheduleAlwaysFull`: `ChargeSpec => []EveryPeriodCharged`
- `LedgerTypeCorrect`: `LedgerSpec => []LedgerTypeOK`

`ArrearsInv`: a run that has found no case is right about it, unless two looked at
once (`OneIsOpen`); one run at most is at a case's reminder, its event is not on
record yet, and what was sent has its event or a run that is about to record it
(`ReminderInStep`). `ChargeInv` rests on the calendar. From the assumption that
months have 28 to 31 days and that `DaysBefore` adds them up, a day has one month
(`OneMonthOf`, by the least month that begins no earlier) and `AddPeriod` never
goes back. `InSchedule` then says, of a tenancy with a start date, that every known date, and the candidate of
every run, is the first or follows a known one and, for a monthly rent that starts
by the 28th, is the due date of its month with those of all earlier months known
before it. A run that starts later in the month has no such invariant: that is
the skipped February.

`AgentProofs` proves, from the modules' assumptions:

- `PromisesAreLiftedCorrect`: `MemorySpec => []PromisesAreLifted`
- `LawsAreMappedCorrect`: `LawSpec => []LawsAreMapped`
- `MemoryLiftsOnceCorrect`, `LawsLiftedOnceCorrect`, and together
  `AgentsLiftOnceCorrect`: both agents implement `LiftOnce`
- `TicketsHandledOnce`: `TriageSpec => []TicketHandledOnce`
- `CyclesDecidedOnce`: `RenewalSpec => []CycleDecidedOnce`
- `WalksAlwaysTakeEffect`: `CertSpec => WalksTakeEffect`, an action property
- `AgentsTypeCorrect`: `AgentsSpec => []AgentsTypeOK`

`MemoryInv` adds that a run which is lifting has its note summarised and all the
promises before its counter on record, so that the run which is done with a note
leaves it whole; a refused insert ends a run only if another one is lifting the
same note, or if the note has said this before, and then what comes before the
first repeat is on record. `LawInv` says the same of what a mapping run has left to map. Each
step of an agent is then a `Mark`, a `Lift`, or leaves the mapped variables as
they are.
`TriageInv` says that two runs have a ticket in their queues only if both picked
it (`QueuesAreApart`), that what is still to be written is not triaged, and that a
ticket at hand has no job yet. `RenewalInv`: cycles are opened in order, one run
is at a cycle and then it is only detected, one request is at it and then it is
at the card, so the quotes and decisions of a cycle can be counted from its status
(`QuotesCounted`, `DecisionsCounted`) unless two were at it together.
`WalkInv` follows a walk of the compliance watch: what is done shows in the rows
(`DoneShown`), and to what is left the rows are as they were seen (`LeftAsSeen`).
Both are for walks under which no other run wrote. That a check touches rows of
its own base only needs two facts of every walk, overtaken or not: a row it has
seen may be closed under it but is never reopened for another base (`SeenKept`),
and open alerts have names of their own until two are doubled (`NamesApart`). So
a check of an undisturbed walk never meets the unique index, and the last one
completes the picture.

`AccountProofs` proves, from the modules' assumptions:

- `EnrolmentAlwaysHolds`: `MfaSpec => []EnrolmentHolds`
- `PasswordsAlwaysAgree`: `AccountSpec => []PasswordsAgree`
- `PeopleAlwaysManaged`: `MemberSpec => []PeopleAreManaged`

`MfaInv`: recovery codes are those of a confirm that is over and are either stored
or spent (`CodesAreReturned`), and what a confirm that nobody has overtaken is
about to make live was proven (`PendingIsProven`). `AccountInv`: a sign-in on its
way knows the password of now or is counted among the crossed (`SigningInKnows`);
one request issues at a time, the password is its own, and the vault is empty from
the moment it superseded what was there, or else the vault was excused
(`VaultHolds`). `MemberInv`: a change that counted the admins and that nobody has
overtaken still leaves one (`ChangeLeavesAnAdmin`); a request that is being
handled was asked, and an account created for it is followed by a handler that
approves it (`CreatedIsFollowed`).

`TenantProofs` proves, from the modules' assumptions:

- `OneTenantAlways`: `IntakeSpec => []OneTenantPerIntake`
- `AlwaysCommittedAsSigned`: `IntakeSpec => []CommittedAsSigned`
- `LeadsAlwaysNamed`: `BoardSpec => []LeadsNameTheirTenant`
- `HomesAlwaysAgree`: `HomeSpec => []HomesAgree`
- `PeopleAlwaysHoused`: `PeopleSpec => []PeopleAreHoused`
- `PeopleTypeCorrect`: `PeopleSpec => []PeopleTypeOK`

`IntakeInv`: but for the excuses, one commit at most has started, and one that is
over with its tenant has completed the draft (`OneStarted`); with them, a second
tenant has other answers than the first, since the hash is unique, and these were
reviewed meanwhile; a signature on the row
is for what the hash was taken of, so what a commit has read under both guards is
what was signed (`SignatureStands`). `BoardInv` adds that what a link is about to
close has the tenant's name (`LinksFit`): nothing else writes a tenant into a
lead. `IdInv` is types and what the provider was told (`ProviderKnows`).
`HomeInv`: the two partial indexes give one home (`OneHome`); a tenant who was
ticked as moved out has no tenancy but one that is about to be ended, was made
since, or failed to end (`LeaversLeave`, `EndsAreMade`); entries of the diary are
counted together with those that a desk is about to make (`DiaryCounted`,
`ViewingsApart`). That the board is green in order needs no invariant of the
steps: `Board` is a walk over the eight stations (`WalkExists`), and each station
keeps what is green closed under what comes before (`StepFills`, `BoardFills`).
`PeopleInv` is the seven together; every step is one part's, and the others stand
still.

**What the proofs assume.** No more than the named assumptions, all of which TLC
evaluates in the runs. Some were made explicit for the proofs: months have 28 to 31 days, a start date is
a day number from 1, and no run looks further than the calendar goes
(`RentChargesAssumption`, `CalendarAssumption`); the sentinels `Free` and `NoRow`
are no session and no conclusion; and the papers the journey asks for can be filed
(`PapersAssumption`).

**What the proofs corrected.** Two proofs failed for good reasons. In `Membership`
an account's audit row that writes the role again also overtakes a change which
has counted the admins, as other changes do; the model had not marked it, and
`People` now starts with one admin and takes four changes, so that it occurs. In
`Intake` a draft saved four times has two more ways to lose touch with its
signature than three saves show: a verify page signs after another review, or an
extract page puts an old signature back. Both are in the code
(`SignatureExcuses`), and `CommittedAsSigned` now names them.

**Only model-checked.** All liveness (`NeverStuckProcessing`,
`RetriesUnlessClash`, `CallsEnd`, `StampsSettle`, `LadderFollowsDebt`,
`LedgerCatchesUp`, `AgentsCatchUp`, `PeopleSettle`), which is outside the prover's
reach. Every invariant and every action property that a passing run checks is a
theorem.

## 6. What the checks show

The queue keeps its promises as long as no live job is handed back: one runner,
final outcomes, a right retry count. The thirty-minute rule and SIGTERM do hand
back live jobs; a job then has two runners and the last one to report decides.
Five statements of the repository do not hold:

1. **A failed job may block the queue** (`JobQueueClash`). `failed` is outside the
   partial index and outside `hasRecentJob`, so the next tick in the same bucket
   inserts another row with the same dedupe key. Once both are due, the claim
   makes two rows live with one key, and Postgres rejects the statement with
   every job in it, on each tick until one leaves the batch.
2. **The chain may fork** (`AuditFork`): routes that read `prev_hash` before the lock.
3. **The daily check may raise a false alarm** (`AuditAlarm`): the timestamp is
   taken before the lock, so commit order and timestamp order may differ.
4. **Stamps may be stuck** (`StampStuck`): `resetStaleJobs` is never called.
5. **A renewal may be quoted again** (`RenewalAgain`): the lookup leaves decided
   cycles out and no code moves the renewal date, so the run after the decision
   opens the next cycle for the same renewal.

Seven more do not hold either; here the properties name the case as an exception or
stop short of it, since the models have it as the code does:

- `scheduler.ts:3`: a job finished inside the interval "is not queued again". The
  look and the insert are two statements and the index covers live rows only, so
  a tick may insert again what another one inserted and finished in between.
- `chain-check.ts:5`, of a history written in order: the check reads the rows of one
  organisation (line 30), the link is to the last row of the record. Rows of one
  record name different organisations, or none, after the platform's change of a
  profile (`platform/profiles/[id]/route.ts:42-46` spreads the actor over the
  `org_id`) or the reading of a form into a draft (`intake/ocr/route.ts:49-60`).
  `InOrderBreaksAtGaps` says exactly where the check then reports a break.
- `rent-reconciliation.ts:109`: "every due charge up to today". The catch at line 125
  takes every error for a charge that exists, and the next run starts after the
  last one that went in. `ChargesCatchUp` and `EveryPeriodCharged` name such dates
  (`lost`).
- `webhooks/stripe/route.ts:30-32` and `66` claim a unique constraint on every write
  path; `reference_note` has none, so two deliveries handled at once record two
  payments (`handledTwice`).
- `interaction-memory.ts:4-6`: the agent lifts "any promise inside it". A note that
  says one twice has its second insert refused, which ends the run, and what
  follows is never lifted (`BeforeRepeats`).
- `compliance-watch.ts:10-12`: changing the kind in place "never collides". After two
  overlapping runs opened two alerts of one name it does, in each run from then
  on (`doubled`).
- `leads/[id]/route.ts:14-18`: "Moving in is recorded by intake commit". The generic
  `stage` of an edit takes `moved_in` as well and writes no tenant, so
  `LeadsNameTheirTenant` speaks of the leads that have one.

Met while modelling, and covered by the exceptions in the properties:

- `jobs.ts:71` speaks of a job that "belongs to a worker that died"; the rule
  also takes the job of a slow worker. `jobs.ts:79` speaks of "everything this
  process was still running"; the statement releases the rows of all workers.
- A job that crashes its worker is handed back without its retry being counted
  and never becomes a dead letter.
- The retry route "restores a dead_letter row", but resets by id alone.
- `chain.ts` passes an array of top-level keys to `JSON.stringify`, which also
  drops nested keys from the hashed text; the models take a hash as injective.

Met while modelling money, agents and the web app; where a property names an
exception, it is one of these:

- *Arrears.* Two runs that both find no case open two; `arrears-ladder.ts:9-12`
  has cases follow the debt, yet a debt that falls back below the first rung
  without being cleared leaves the case as it is (`LeaveCase`). The reminder is
  sent before its event is on record, so a run that ends in between sends it
  again.
- *Charges.* A tenancy without a start date (`start_date` is nullable) has two
  schedules if two runs on two days find no charge of it. A rent that starts after the 28th skips February. Charges added by hand carry no
  tenancy, and the agent does not see them.
- *Bank.* A payment made by a confirm whose second statement fails leaves the row
  open; a later dismissal then contradicts the ledger. Money whose charge is more
  than a fortnight old before a run gets to it reaches no one.
- *Stripe.* `async_payment_succeeded` is not handled.
- *Notes and laws.* A run that ends between the mark and what follows loses the
  rest for good: the mark is what later runs go by.
- *Triage.* The run writes the whole ticket from its copy: a ticket resolved
  meanwhile is open again.
- *Intake.* The pages keep or merge the signature of the draft, and the review page
  may save other answers under one (`intake/commit/route.ts:12-19` says it is
  bound to the record). A verify page that was opened before another review signs
  what it shows, not what the row now holds, and an extract page that was opened
  before a review puts the old signature back. A commit that is refused the room
  leaves tenant and open draft; the next one of the same answers is refused with a
  duplicate key (`011_deduplicate.sql:6`), so the draft stays open, and after a
  review of other answers it makes a second tenant. The OCR route drops signature,
  lead and room of the draft it reads a form into.
- *Leads.* `lead-link.ts:26-27` says of the stages that "nothing jumps it"; the lead
  a draft carried is closed at whatever stage it is. An edit that read a lead
  before it was closed writes its own stage over the closing.
- *Identity checks.* The route takes a call that says `pending` or `processing`
  whatever the row holds (`credas/route.ts:50`): a progress call that comes after
  the conclusion, or is repeated after it, takes the conclusion off the row.
- *Second factor.* The second of two overlapping confirms returns recovery codes
  that are never stored.
- *Passwords.* A sign-in with a hash of the older kind stores the checked password
  again, over one that was set meanwhile. Two issues at once leave the vault with
  a password that opens nothing. A session opened by a sign-in that had checked
  before a change outlives the sign-out everywhere.
- *People.* Two admins who step down at once leave none. The audit row of a new
  account writes its role again (`issue-invite.ts:37`) and undoes a change made
  in between. `platform/profiles/[id]/route.ts:15-16` speaks of the sole admin; the
  code counts all other profiles, and its `BEGIN` and `COMMIT` go through a pool,
  so they need not be one transaction. An approval that fails half way leaves an
  account whose request can only be declined.
- *Homes.* A tenancy whose end fails is passed over: the tenant is ticked as moved
  out and holds the room. Taking a viewing back reopens every past one in the
  diary. Two requests that assign a viewing at once both enter one, and so do
  the diary's own routes, which look at no other entry.

## 7. Not modelled, and why

- *Owner digest*: one query, one document, one e-mail; nothing is read back.
- *Outside services, environment, telemetry, validation*: I/O, configuration,
  schemas. They are the calls that may throw.
- *Pages, UI and CRUD routes*, the larger part of the source by far: layout, and
  handlers of one statement or of one `writeWithAudit`, which is modelled. The
  pages that keep state across requests (intake) are modelled.
- *Row level security and generated types*: declarations. The constraints that
  modelled code relies on are guards of its modules.
- *Of modelled components*: the RPC fallback of the write path and the legacy stamp
  loop, both only used without `DATABASE_URL`; the release of a held arrears
  letter, whose `SELECT` names `arrears_events.tenant_id`, a column no migration
  adds, so that every call throws; the status updates of `org_subscriptions`, a
  table nothing inserts into; the sign-in throttle, a count over a log that nothing
  else reads; the organisation and landlord a session is switched to
  (`switchActiveOrg` keeps the landlord of the former organisation); invitations
  accepted by token; the platform owner's change of an e-mail address; archived
  tenants, but for the board of leads. No route deletes a tenant: the leads'
  `ON DELETE SET NULL` (`060:23`) is not reached, since the wiping of a whole
  organisation switches the triggers off.
- *Detail*: the texts of audit payloads, letters and documents; `ORDER BY` in claims
  (any batch may be taken, a superset of what the order allows); wall-clock
  arithmetic (a wait may end at any time). Statements are atomic, so `SKIP LOCKED`
  meets no lock: of two claims one comes second, and a claim that skips the rows
  of one that is then rejected is not modelled. A record written without an id is
  one that no other call names (the lock key `table:new` is left out).

## 8. Plan

Done: the queue, the write path and the outbox; money; the agents; what people do
through the web app; the refinements of `LiftOnce` and `WorkItem`; and a theorem
for each safety invariant and action property that a passing run checks. Left, in
this order:

1. More action properties over the same inductive invariants: a ladder that never
   skips a rung, a decided cycle and a decided request that stay decided.
2. The portal's messages and the certificates' files, once they keep state across
   requests.
