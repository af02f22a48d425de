------------------------------ MODULE JobQueue ------------------------------
(***************************************************************************)
(* The agent job queue: the jobs table and its partial unique index, the   *)
(* scheduler that fills it, the drain that claims and runs jobs, and the   *)
(* worker life cycle (start, SIGTERM, crash).                              *)
(*                                                                         *)
(* A process of the model is one tick of one worker: index.ts starts a     *)
(* tick on every poll interval without waiting for the previous one, so    *)
(* ticks of the same worker overlap exactly as ticks of two workers do.    *)
(* Each database statement is one atomic step, and a statement that throws *)
(* has changed nothing. Time appears only as the field `elapsed`, which    *)
(* says that the wait attached to a row's status (backoff, the thirty      *)
(* minutes of a stuck job, the agent's interval) is over.                  *)
(***************************************************************************)
EXTENDS Naturals, FiniteSets

CONSTANTS
    Workers,     \* worker processes
    Slots,       \* ticks one worker may have open at once (a bound)
    Tasks,       \* (agent, organisation) pairs that a job can be for
    Registered,  \* the tasks whose agent this deployment registers
    NoTask,      \* no task picked
    JobIds,      \* the rows of the jobs table (a bound)
    ClaimLimit,  \* jobs claimed per tick
    MaxRetries,  \* max_retries of every job
    MaxBucket,   \* last schedule bucket (a bound)
    MaxFaults    \* how often a worker may crash, be stopped or lose a statement (a bound)

ASSUME JobQueueAssumption ==
    /\ Registered \subseteq Tasks
    /\ NoTask \notin Tasks
    /\ ClaimLimit \in Nat \ {0}
    /\ MaxRetries \in Nat \ {0}
    /\ MaxBucket \in Nat
    /\ MaxFaults \in Nat

VARIABLES
    job,        \* the jobs table
    run,        \* run[p][j]: tick p's execution of job j
    pc,         \* where each tick is
    pass,       \* the scheduling pass of each tick
    worker,     \* life cycle of each worker
    bucket,     \* Math.floor(now / scheduleMs)
    faults,     \* crashes, shutdowns and failed statements so far
    handedBack  \* jobs returned to the queue while a run of theirs was alive

vars == <<job, run, pc, pass, worker, bucket, faults, handedBack>>

-----------------------------------------------------------------------------
(* Rows, runs and ticks *)

Ticks == Workers \X Slots
Buckets == 0..MaxBucket

LiveStatus == {"pending", "processing"}
FinalStatus == {"done", "dead_letter"}
Status == LiveStatus \cup FinalStatus \cup {"failed"}

Row == [status: Status, task: Tasks, bucket: Buckets,
        retries: 0..MaxRetries, elapsed: BOOLEAN]
Unused == [status |-> "unused"]
NewRow(t, b) == [status |-> "pending", task |-> t, bucket |-> b,
                 retries |-> 0, elapsed |-> TRUE]

\* `retries` is the retry_count the claim returned: the run keeps that copy.
Run == [phase: {"running", "completing", "failing"}, retries: 0..(MaxRetries - 1)]
NoRun == [phase |-> "none"]
NoRuns == [j \in JobIds |-> NoRun]

Pass == [bucket: Buckets, todo: SUBSET Registered, picked: Registered \cup {NoTask}]
NoPass == [bucket |-> 0, todo |-> {}, picked |-> NoTask]

TickPC == {"idle", "recover", "schedule", "insert", "claim", "run"}
WorkerState == {"up", "stopping", "released", "down"}

Running(j) == {p \in Ticks : run[p][j] # NoRun}

\* No two live rows of the table have the same task and bucket.
UniqueLiveKeys(rows) ==
    \A i, j \in JobIds :
        /\ rows[i].status \in LiveStatus
        /\ rows[j].status \in LiveStatus
        /\ rows[i].task = rows[j].task
        /\ rows[i].bucket = rows[j].bucket
        => i = j

\* idx_jobs_dedupe: (org_id, dedupe_key) is unique among live rows.
DedupeIndex(rows) == UniqueLiveKeys(rows)

-----------------------------------------------------------------------------
(* Queue statements *)

\* hasRecentJob: a live job of the task, or one done within the interval.
HasRecentJob(t) ==
    \E j \in JobIds :
        /\ job[j] # Unused
        /\ job[j].task = t
        /\ \/ job[j].status \in LiveStatus
           \/ job[j].status = "done" /\ ~job[j].elapsed

\* Variants of Due: rows already processing too, and failed rows forgotten.
DueOrProcessing ==
    {j \in JobIds : job[j].status \in {"pending", "failed", "processing"}}
DueNotFailed == {j \in JobIds : job[j].status = "pending"}

\* pending or failed, scheduled by now
Due == {j \in JobIds : job[j].status \in {"pending", "failed"} /\ job[j].elapsed}

\* The rows one claim may lock: at most ClaimLimit, and all that are due if
\* they fit. Which of more is left open (ORDER BY scheduled_at is abstracted).
Batch(S) ==
    /\ S \subseteq Due
    /\ \/ S = Due /\ Cardinality(S) <= ClaimLimit
       \/ Cardinality(S) = ClaimLimit

Taken(row) == [row EXCEPT !.status = "processing", !.elapsed = FALSE]

Claimed(S) == [j \in JobIds |-> IF j \in S THEN Taken(job[j]) ELSE job[j]]

\* Variant of Failed: the last attempt is not counted as the last.
FailedOffByOne(row, retries) ==
    [row EXCEPT !.status = IF retries >= MaxRetries THEN "dead_letter" ELSE "failed",
                !.retries = retries + 1,
                !.elapsed = FALSE]

\* failJob: the new status and retry_count come from the run's copy.
Failed(row, retries) ==
    LET attempt == retries + 1
    IN  [row EXCEPT !.status = IF attempt >= MaxRetries THEN "dead_letter" ELSE "failed",
                    !.retries = attempt,
                    !.elapsed = FALSE]

\* completeJob
Completed(row) == [row EXCEPT !.status = "done", !.elapsed = FALSE]

\* A job handed back to the queue: recoverStuckJobs and releaseProcessingJobs.
Requeued(row) == [row EXCEPT !.status = "pending", !.elapsed = TRUE]

HandBack(S) ==
    /\ job' = [j \in JobIds |-> IF j \in S THEN Requeued(job[j]) ELSE job[j]]
    /\ handedBack' = handedBack \cup {j \in S : Running(j) # {}}

\* One of the bounded number of faults the environment inflicts.
Fault == faults < MaxFaults /\ faults' = faults + 1

StuckNever == {}  \* variant: nothing recovers a stuck job

StuckJobs == {j \in JobIds : job[j].status = "processing" /\ job[j].elapsed}
ProcessingJobs == {j \in JobIds : job[j].status = "processing"}

-----------------------------------------------------------------------------
(* One tick: scheduleDue, then drainOnce *)

\* The tick starts unless the worker is shutting down: the pass over the
\* registered tasks uses the bucket of this instant.
BeginTick(p) ==
    /\ pc[p] = "idle"
    /\ worker[p[1]] = "up"
    /\ pc' = [pc EXCEPT ![p] = "recover"]
    /\ pass' = [pass EXCEPT ![p] = [bucket |-> bucket, todo |-> Registered, picked |-> NoTask]]
    /\ UNCHANGED <<job, run, worker, bucket, faults, handedBack>>

\* recoverStuckJobs hands stuck rows back.
Recover(p) ==
    /\ pc[p] = "recover"
    /\ HandBack(StuckJobs)
    /\ pc' = [pc EXCEPT ![p] = "schedule"]
    /\ UNCHANGED <<run, pass, worker, bucket, faults>>

\* hasRecentJob for the next task: skip it, or go on to the insert.
Consider(p, t) ==
    /\ pc[p] = "schedule"
    /\ t \in pass[p].todo
    /\ IF HasRecentJob(t)
       THEN /\ pass' = [pass EXCEPT ![p].todo = @ \ {t}]
            /\ UNCHANGED pc
       ELSE /\ pass' = [pass EXCEPT ![p].todo = @ \ {t}, ![p].picked = t]
            /\ pc' = [pc EXCEPT ![p] = "insert"]
    /\ UNCHANGED <<job, run, worker, bucket, faults, handedBack>>

\* enqueueJob: INSERT ... ON CONFLICT DO NOTHING. A full table (the bound on
\* rows) drops the insert as a conflict does.
Enqueue(p) ==
    /\ pc[p] = "insert"
    /\ LET row == NewRow(pass[p].picked, pass[p].bucket)
           free == {j \in JobIds : job[j] = Unused /\ DedupeIndex([job EXCEPT ![j] = row])}
       IN  \/ \E j \in free : job' = [job EXCEPT ![j] = row]
           \/ free = {} /\ UNCHANGED job
    /\ pass' = [pass EXCEPT ![p].picked = NoTask]
    /\ pc' = [pc EXCEPT ![p] = "schedule"]
    /\ UNCHANGED <<run, worker, bucket, faults, handedBack>>

\* scheduleDue is over and drainOnce begins: it returns at once while the worker
\* is shutting down, and its claim is on its way otherwise.
EnterDrain(p) ==
    /\ pc' = [pc EXCEPT ![p] = IF worker[p[1]] = "up" THEN "claim" ELSE "idle"]
    /\ pass' = [pass EXCEPT ![p] = NoPass]

EndPass(p) ==
    /\ pc[p] = "schedule"
    /\ pass[p].todo = {}
    /\ EnterDrain(p)
    /\ UNCHANGED <<job, run, worker, bucket, faults, handedBack>>

\* A statement of the pass fails: "schedule.fail" is logged and the tick goes
\* on to the drain.
PassThrows(p) ==
    /\ pc[p] \in {"recover", "schedule", "insert"}
    /\ Fault
    /\ EnterDrain(p)
    /\ UNCHANGED <<job, run, worker, bucket, handedBack>>

\* claimJobs: one UPDATE takes the whole batch, and the unique index must hold
\* after it. A job whose agent is not registered goes straight to failJob.
Claim(p) ==
    /\ pc[p] = "claim"
    /\ \E S \in SUBSET JobIds :
        /\ Batch(S)
        /\ DedupeIndex(Claimed(S))
        /\ job' = Claimed(S)
        /\ run' = [run EXCEPT ![p] = [j \in JobIds |->
                     IF j \in S
                     THEN [phase |-> IF job[j].task \in Registered THEN "running" ELSE "failing",
                           retries |-> job[j].retries]
                     ELSE NoRun]]
    /\ pc' = [pc EXCEPT ![p] = "run"]
    /\ UNCHANGED <<pass, worker, bucket, faults, handedBack>>

\* The claim violates the unique index: the statement fails as a whole and the
\* tick logs "drain.fail".
ClaimRejected(p) ==
    /\ pc[p] = "claim"
    /\ \E S \in SUBSET JobIds : Batch(S) /\ ~DedupeIndex(Claimed(S))
    /\ pc' = [pc EXCEPT ![p] = "idle"]
    /\ UNCHANGED <<job, run, pass, worker, bucket, faults, handedBack>>

\* The claim fails for another reason.
ClaimThrows(p) ==
    /\ pc[p] = "claim"
    /\ Fault
    /\ pc' = [pc EXCEPT ![p] = "idle"]
    /\ UNCHANGED <<job, run, pass, worker, bucket, handedBack>>

-----------------------------------------------------------------------------
(* One execution of a claimed job *)

\* The agent returns, or throws.
AgentReturns(p, j) ==
    /\ run[p][j].phase = "running"
    /\ \E next \in {"completing", "failing"} : run' = [run EXCEPT ![p][j].phase = next]
    /\ UNCHANGED <<job, pc, pass, worker, bucket, faults, handedBack>>

\* completeJob updates by id alone.
Complete(p, j) ==
    /\ run[p][j].phase = "completing"
    /\ job' = [job EXCEPT ![j] = Completed(@)]
    /\ run' = [run EXCEPT ![p][j] = NoRun]
    /\ UNCHANGED <<pc, pass, worker, bucket, faults, handedBack>>

\* completeJob throws: the same catch that handles the agent's error runs.
CompleteThrows(p, j) ==
    /\ run[p][j].phase = "completing"
    /\ Fault
    /\ run' = [run EXCEPT ![p][j].phase = "failing"]
    /\ UNCHANGED <<job, pc, pass, worker, bucket, handedBack>>

\* failJob updates by id alone.
Fail(p, j) ==
    /\ run[p][j].phase = "failing"
    /\ job' = [job EXCEPT ![j] = Failed(@, run[p][j].retries)]
    /\ run' = [run EXCEPT ![p][j] = NoRun]
    /\ UNCHANGED <<pc, pass, worker, bucket, faults, handedBack>>

\* failJob throws: the run is over and the row stays as it is.
FailThrows(p, j) ==
    /\ run[p][j].phase = "failing"
    /\ Fault
    /\ run' = [run EXCEPT ![p][j] = NoRun]
    /\ UNCHANGED <<job, pc, pass, worker, bucket, handedBack>>

\* When a failJob throws, drainOnce rejects at once and the other runs go on
\* without it; the slot is kept until the last of them is over.
EndTick(p) ==
    /\ pc[p] = "run"
    /\ run[p] = NoRuns
    /\ pc' = [pc EXCEPT ![p] = "idle"]
    /\ UNCHANGED <<job, run, pass, worker, bucket, faults, handedBack>>

-----------------------------------------------------------------------------
(* Workers and time *)

Sigterm(w) ==
    /\ worker[w] = "up"
    /\ Fault
    /\ worker' = [worker EXCEPT ![w] = "stopping"]
    /\ UNCHANGED <<job, run, pc, pass, bucket, handedBack>>

\* All in-flight runs have settled or twenty seconds are over:
\* releaseProcessingJobs updates every row that is processing.
Release(w) ==
    /\ worker[w] = "stopping"
    /\ HandBack(ProcessingJobs)
    /\ worker' = [worker EXCEPT ![w] = "released"]
    /\ UNCHANGED <<run, pc, pass, bucket, faults>>

\* The release failed; its error is swallowed and the worker exits anyway. No
\* fault of its own is counted: every shutdown has been one.
ReleaseThrows(w) ==
    /\ worker[w] = "stopping"
    /\ worker' = [worker EXCEPT ![w] = "released"]
    /\ UNCHANGED <<job, run, pc, pass, bucket, faults, handedBack>>

\* What a process takes with it when it ends.
ProcessEnds(w) ==
    /\ worker' = [worker EXCEPT ![w] = "down"]
    /\ run' = [p \in Ticks |-> IF p[1] = w THEN NoRuns ELSE run[p]]
    /\ pc' = [p \in Ticks |-> IF p[1] = w THEN "idle" ELSE pc[p]]
    /\ pass' = [p \in Ticks |-> IF p[1] = w THEN NoPass ELSE pass[p]]

Exit(w) ==
    /\ worker[w] = "released"
    /\ ProcessEnds(w)
    /\ UNCHANGED <<job, bucket, faults, handedBack>>

Crash(w) ==
    /\ worker[w] # "down"
    /\ Fault
    /\ ProcessEnds(w)
    /\ UNCHANGED <<job, bucket, handedBack>>

Start(w) ==
    /\ worker[w] = "down"
    /\ worker' = [worker EXCEPT ![w] = "up"]
    /\ UNCHANGED <<job, run, pc, pass, bucket, faults, handedBack>>

\* The wait attached to a row is over. A done row of this bucket is still
\* inside the agent's interval, which is as long as a bucket.
Elapse(j) ==
    /\ job[j].status \in {"failed", "processing", "done"}
    /\ ~job[j].elapsed
    /\ job[j].status = "done" => job[j].bucket < bucket
    /\ job' = [job EXCEPT ![j].elapsed = TRUE]
    /\ UNCHANGED <<run, pc, pass, worker, bucket, faults, handedBack>>

NextBucket ==
    /\ bucket < MaxBucket
    /\ bucket' = bucket + 1
    /\ UNCHANGED <<job, run, pc, pass, worker, faults, handedBack>>

-----------------------------------------------------------------------------
\* The table is empty, or still holds a pending job of an agent that an
\* earlier deployment registered and this one does not.
Init ==
    /\ job \in {rows \in [JobIds -> {Unused} \cup {NewRow(t, 0) : t \in Tasks \ Registered}] :
                    DedupeIndex(rows)}
    /\ run = [p \in Ticks |-> NoRuns]
    /\ pc = [p \in Ticks |-> "idle"]
    /\ pass = [p \in Ticks |-> NoPass]
    /\ worker = [w \in Workers |-> "up"]
    /\ bucket = 0
    /\ faults = 0
    /\ handedBack = {}

TickStep(p) ==
    \/ BeginTick(p)
    \/ Recover(p)
    \/ \E t \in Registered : Consider(p, t)
    \/ Enqueue(p)
    \/ EndPass(p)
    \/ PassThrows(p)
    \/ Claim(p)
    \/ ClaimRejected(p)
    \/ ClaimThrows(p)
    \/ EndTick(p)

RunStep(p, j) ==
    \/ AgentReturns(p, j)
    \/ Complete(p, j)
    \/ CompleteThrows(p, j)
    \/ Fail(p, j)
    \/ FailThrows(p, j)

WorkerStep(w) ==
    \/ Sigterm(w)
    \/ Release(w)
    \/ ReleaseThrows(w)
    \/ Exit(w)
    \/ Crash(w)
    \/ Start(w)

Next ==
    \/ \E p \in Ticks : TickStep(p)
    \/ \E p \in Ticks, j \in JobIds : RunStep(p, j)
    \/ \E w \in Workers : WorkerStep(w)
    \/ \E j \in JobIds : Elapse(j)
    \/ NextBucket

Spec == Init /\ [][Next]_vars

\* A live worker keeps ticking, an agent is a finite sequence of calls, the
\* platform restarts a worker that ended, and time passes.
Fairness ==
    /\ \A p \in Ticks : WF_vars(TickStep(p) \/ \E j \in JobIds : RunStep(p, j))
    /\ \A w \in Workers : WF_vars(Start(w) \/ Release(w) \/ Exit(w))
    /\ \A j \in JobIds : WF_vars(Elapse(j))

FairSpec == Spec /\ Fairness

-----------------------------------------------------------------------------
(* Properties *)

TypeOK ==
    /\ job \in [JobIds -> Row \cup {Unused}]
    /\ run \in [Ticks -> [JobIds -> Run \cup {NoRun}]]
    /\ pc \in [Ticks -> TickPC]
    /\ pass \in [Ticks -> Pass]
    /\ worker \in [Workers -> WorkerState]
    /\ bucket \in Buckets
    /\ faults \in 0..MaxFaults
    /\ handedBack \subseteq JobIds

\* A job that can still be claimed has a retry left, and a dead letter has used
\* them all: the count in the row, which each run overwrites from its own copy,
\* never lets a job go round again after its last attempt was recorded there.
RetriesDecideDeadLetter ==
    \A j \in JobIds :
        /\ job[j].status \in {"pending", "processing", "failed"} => job[j].retries < MaxRetries
        /\ job[j].status = "dead_letter" => job[j].retries = MaxRetries

\* SKIP LOCKED and the status filter give every job one runner at a time, over
\* all ticks of all workers; only a job handed back to the queue while its
\* runner was alive (the thirty-minute rule, a shutdown) can have two.
OneRunner ==
    \A j \in JobIds \ handedBack : \A p, q \in Ticks :
        run[p][j] # NoRun /\ run[q][j] # NoRun => p = q

\* completeJob and failJob update by id alone, with a retry_count read at claim
\* time. As long as a job is never handed back under a live runner this is
\* safe: a finished job stays as it is, the retry count moves by one at most
\* and never back, and only a run of the job can finish or fail it.
OutcomeKept ==
    \A j \in JobIds \ handedBack' :
        job[j] # Unused =>
            /\ job[j].status \in FinalStatus =>
                 job'[j].status = job[j].status /\ job'[j].retries = job[j].retries
            /\ job'[j].retries \in {job[j].retries, job[j].retries + 1}
            /\ job'[j].status # job[j].status /\ job'[j].status \in FinalStatus \cup {"failed"} =>
                 job[j].status = "processing" /\ Running(j) # {}

OutcomeIsFinal == [][OutcomeKept]_vars

\* A job never stays "processing" for ever, whatever happens to the worker that
\* claimed it: its run ends it, or a later tick hands it back.
NeverStuckProcessing ==
    \A j \in JobIds : job[j].status = "processing" ~> job[j].status # "processing"

\* jobs.ts:52: "Retries with backoff until max_retries, then dead-letters."
\* A failed job is tried again until it is done or a dead letter.
RetriesUntilFinal ==
    \A j \in JobIds : job[j].status = "failed" ~> job[j].status \in FinalStatus

\* No two unfinished rows have the same task and bucket.
NoClash ==
    \A i, j \in JobIds :
        /\ job[i].status \in LiveStatus \cup {"failed"}
        /\ job[j].status \in LiveStatus \cup {"failed"}
        /\ job[i].task = job[j].task
        /\ job[i].bucket = job[j].bucket
        => i = j

\* What is left of that promise: unless unfinished rows of one key keep meeting
\* in the unique index, every failed job is tried until done or a dead letter,
\* also when runs are handed back alive and overwrite each other's count.
RetriesUnlessClash ==
    <>[]NoClash => \A j \in JobIds : job[j].status = "failed" ~> job[j].status \in FinalStatus
-----------------------------------------------------------------------------
(* Each row is a work item *)

ItemStatus(row) ==
    CASE row.status = "unused" -> "absent"
      [] row.status \in {"pending", "failed"} -> "waiting"
      [] row.status = "processing" -> "taken"
      [] row.status = "done" -> "done"
      [] row.status = "dead_letter" -> "dropped"
ItemTries(row) == IF row = Unused THEN 0 ELSE row.retries

Life(j) == INSTANCE WorkItem WITH
    Hands <- Ticks, MaxTries <- MaxRetries, Returns <- {"put_back"},
    status <- ItemStatus(job[j]),
    tries <- ItemTries(job[j]),
    holders <- Running(j),
    slipped <- j \in handedBack

\* Seen from one job, whatever the other jobs, batches, ticks and workers do, the
\* queue is a WorkItem that is put back by recoverStuckJobs and by the release at
\* shutdown, and never revived: the promise ends only for a job that was handed
\* back under a live run.
JobsAreWorkItems ==
    /\ \A j \in JobIds : Life(j)!Init
    /\ [][\A j \in JobIds : Life(j)!Step]_vars
=============================================================================
