--------------------------- MODULE JobQueueProofs ---------------------------
(***************************************************************************)
(* Theorems about JobQueue for any number of workers, ticks, tasks and     *)
(* rows, any claim limit, retry limit and number of faults.                *)
(***************************************************************************)
EXTENDS JobQueue, TLAPS

-----------------------------------------------------------------------------
(* Rows *)

\* A row of the table is distinct from an unused one.
LEMMA RowLemma ==
    ASSUME NEW r \in Row
    PROVE  r # Unused /\ r.status \in Status /\ r.retries \in 0..MaxRetries
BY DEF Row, Unused, Status, LiveStatus, FinalStatus

\* Only failJob writes the retry count; the other statements keep the row's
\* task, bucket and count.
LEMMA RequeuedLemma ==
    ASSUME NEW r \in Row
    PROVE  /\ Requeued(r) \in Row
           /\ Requeued(r).status = "pending"
           /\ Requeued(r).retries = r.retries
           /\ Requeued(r).task = r.task
           /\ Requeued(r).bucket = r.bucket
BY DEF Requeued, Row, Status, LiveStatus

LEMMA TakenLemma ==
    ASSUME NEW r \in Row
    PROVE  /\ Taken(r) \in Row
           /\ Taken(r).status = "processing"
           /\ Taken(r).retries = r.retries
BY DEF Taken, Row, Status, LiveStatus

LEMMA CompletedLemma ==
    ASSUME NEW r \in Row
    PROVE  /\ Completed(r) \in Row
           /\ Completed(r).status = "done"
           /\ Completed(r).retries = r.retries
BY DEF Completed, Row, Status, FinalStatus

\* failJob counts one attempt more than the copy it was given, and the last
\* attempt makes a dead letter.
LEMMA FailedLemma ==
    ASSUME NEW r \in Row, NEW n \in 0..(MaxRetries - 1)
    PROVE  /\ Failed(r, n) \in Row
           /\ Failed(r, n).retries = n + 1
           /\ Failed(r, n).status = IF n + 1 = MaxRetries THEN "dead_letter" ELSE "failed"
<1>1. MaxRetries \in Nat
  BY JobQueueAssumption
<1>2. n + 1 \in 0..MaxRetries /\ (n + 1 >= MaxRetries <=> n + 1 = MaxRetries)
  BY <1>1
<1> DEFINE st == IF n + 1 = MaxRetries THEN "dead_letter" ELSE "failed"
<1>3. Failed(r, n) = [r EXCEPT !.status = st, !.retries = n + 1, !.elapsed = FALSE]
  BY <1>2 DEF Failed
<1>4. st \in Status
  BY DEF Status, FinalStatus
<1> HIDE DEF st
<1>5. [r EXCEPT !.status = st, !.retries = n + 1, !.elapsed = FALSE] \in Row
  BY <1>2, <1>4 DEF Row
<1>6. /\ [r EXCEPT !.status = st, !.retries = n + 1, !.elapsed = FALSE].status = st
      /\ [r EXCEPT !.status = st, !.retries = n + 1, !.elapsed = FALSE].retries = n + 1
  BY DEF Row
<1> QED
  BY <1>3, <1>5, <1>6 DEF st

LEMMA NewRowLemma ==
    ASSUME NEW t \in Tasks, NEW b \in Buckets
    PROVE  NewRow(t, b) \in Row /\ NewRow(t, b).status = "pending" /\ NewRow(t, b).retries = 0
BY JobQueueAssumption DEF NewRow, Row, Status, LiveStatus

\* A run that exists is no NoRun, and moving to another phase keeps its copy.
LEMMA RunLemma ==
    ASSUME NEW r \in Run, NEW x \in {"running", "completing", "failing"}
    PROVE  /\ r # NoRun
           /\ [r EXCEPT !.phase = x] \in Run
           /\ [r EXCEPT !.phase = x].retries = r.retries
BY DEF Run, NoRun

LEMMA PassLemma ==
    ASSUME NEW d \in Pass, NEW t \in Registered
    PROVE  /\ [d EXCEPT !.todo = @ \ {t}] \in Pass
           /\ [d EXCEPT !.todo = @ \ {t}, !.picked = t] \in Pass
           /\ [d EXCEPT !.todo = @ \ {t}, !.picked = t].picked = t
           /\ [d EXCEPT !.picked = NoTask] \in Pass
           /\ NoPass \in Pass
<1>1. 0 \in Buckets
  BY JobQueueAssumption DEF Buckets
<1> QED
  BY <1>1 DEF Pass, NoPass

-----------------------------------------------------------------------------
(* Type correctness *)

\* A tick that inserts has picked a task, and every run has a row.
InsertHasTask == \A p \in Ticks : pc[p] = "insert" => pass[p].picked \in Registered
RunHasRow == \A p \in Ticks, j \in JobIds : run[p][j] # NoRun => job[j] # Unused

TypeInv == TypeOK /\ InsertHasTask /\ RunHasRow /\ RetriesDecideDeadLetter

\* A row of the table after the rows of S are handed back to the queue.
LEMMA HandBackLemma ==
    ASSUME TypeOK, NEW S \in SUBSET ProcessingJobs, HandBack(S)
    PROVE  /\ job' \in [JobIds -> Row \cup {Unused}]
           /\ handedBack' \subseteq JobIds
           /\ handedBack' = handedBack \cup {j \in S : Running(j) # {}}
           /\ \A j \in JobIds \ S : job'[j] = job[j]
           /\ \A j \in S : /\ j \in JobIds
                          /\ job[j].status = "processing"
                          /\ job[j] \in Row
                          /\ job'[j] \in Row
                          /\ job'[j].status = "pending"
                          /\ job'[j].retries = job[j].retries
                          /\ job'[j].task = job[j].task
                          /\ job'[j].bucket = job[j].bucket
<1>1. \A j \in S : j \in JobIds /\ job[j].status = "processing" /\ job[j] \in Row
  BY DEF ProcessingJobs, TypeOK, Unused
<1>2. \A j \in S : job'[j] = Requeued(job[j])
  BY <1>1 DEF HandBack
<1>3. \A j \in JobIds \ S : job'[j] = job[j]
  BY DEF HandBack
<1>4. handedBack' \subseteq JobIds /\ handedBack' = handedBack \cup {j \in S : Running(j) # {}}
  BY <1>1 DEF HandBack, TypeOK
<1>5. \A j \in S : /\ job'[j] \in Row
                  /\ job'[j].status = "pending"
                  /\ job'[j].retries = job[j].retries
                  /\ job'[j].task = job[j].task
                  /\ job'[j].bucket = job[j].bucket
  BY <1>1, <1>2, RequeuedLemma
<1>6. job' \in [JobIds -> Row \cup {Unused}]
  BY <1>3, <1>5 DEF HandBack, TypeOK
<1> QED
  BY <1>1, <1>3, <1>4, <1>5, <1>6

\* StuckJobs and ProcessingJobs are the two sets that are handed back.
LEMMA StuckAreProcessing == StuckJobs \subseteq ProcessingJobs
BY DEF StuckJobs, ProcessingJobs

\* The rows a claim may take exist, are due and become processing with their
\* retry count kept.
LEMMA ClaimLemma ==
    ASSUME TypeOK, NEW S \in SUBSET JobIds, Batch(S)
    PROVE  /\ Claimed(S) \in [JobIds -> Row \cup {Unused}]
           /\ \A j \in JobIds \ S : Claimed(S)[j] = job[j]
           /\ \A j \in S : /\ job[j] \in Row
                          /\ job[j].status \in {"pending", "failed"}
                          /\ Claimed(S)[j] \in Row
                          /\ Claimed(S)[j].status = "processing"
                          /\ Claimed(S)[j].retries = job[j].retries
<1>1. \A j \in S : job[j] \in Row /\ job[j].status \in {"pending", "failed"}
  BY DEF Batch, Due, TypeOK, Unused
<1>2. \A j \in S : Claimed(S)[j] = Taken(job[j])
  BY DEF Claimed
<1>3. \A j \in JobIds \ S : Claimed(S)[j] = job[j]
  BY DEF Claimed
<1>4. \A j \in S : /\ Claimed(S)[j] \in Row
                  /\ Claimed(S)[j].status = "processing"
                  /\ Claimed(S)[j].retries = job[j].retries
  BY <1>1, <1>2, TakenLemma
<1>5. Claimed(S) \in [JobIds -> Row \cup {Unused}]
  BY <1>3, <1>4 DEF Claimed, TypeOK
<1> QED
  BY <1>1, <1>3, <1>4, <1>5

LEMMA FaultLemma ==
    ASSUME TypeOK, Fault
    PROVE  faults' \in 0..MaxFaults
BY JobQueueAssumption DEF TypeOK, Fault

LEMMA TypeInit == Init => TypeInv
<1> SUFFICES ASSUME Init PROVE TypeInv
  OBVIOUS
<1>1. 0 \in Buckets /\ 0 \in 0..MaxFaults /\ 0 < MaxRetries
  BY JobQueueAssumption DEF Buckets
<1>2. \A t \in Tasks \ Registered :
        NewRow(t, 0) \in Row /\ NewRow(t, 0).status = "pending" /\ NewRow(t, 0).retries = 0
  BY <1>1, NewRowLemma
<1>3. job \in [JobIds -> Row \cup {Unused}]
  BY <1>2 DEF Init
<1>4. NoPass \in Pass
  BY <1>1 DEF NoPass, Pass
<1>5. pass \in [Ticks -> Pass] /\ pc \in [Ticks -> TickPC] /\ worker \in [Workers -> WorkerState]
  <2>1. pass \in [Ticks -> Pass]
    BY <1>4 DEF Init
  <2>2. pc \in [Ticks -> TickPC]
    BY DEF Init, TickPC
  <2>3. worker \in [Workers -> WorkerState]
    BY DEF Init, WorkerState
  <2> QED
    BY <2>1, <2>2, <2>3
<1>6. run \in [Ticks -> [JobIds -> Run \cup {NoRun}]]
  BY DEF Init, NoRuns
<1>7. TypeOK
  BY <1>1, <1>3, <1>5, <1>6 DEF Init, TypeOK
<1>8. InsertHasTask /\ RunHasRow
  BY DEF Init, InsertHasTask, RunHasRow, NoRuns
<1>9. \A j \in JobIds : job[j] = Unused \/ (job[j].status = "pending" /\ job[j].retries = 0)
  <2>1. job \in [JobIds -> {Unused} \cup {NewRow(t, 0) : t \in Tasks \ Registered}]
    BY DEF Init
  <2>2. \A j \in JobIds : job[j] = Unused \/ \E t \in Tasks \ Registered : job[j] = NewRow(t, 0)
    BY <2>1
  <2> QED
    BY <1>2, <2>2
<1>10. RetriesDecideDeadLetter
  BY <1>1, <1>9 DEF RetriesDecideDeadLetter, Unused
<1> QED
  BY <1>7, <1>8, <1>10 DEF TypeInv

\* The steps that change neither a row nor a run: scheduling, waiting, the life
\* cycle of a worker up to its end.
QuietTick(p) ==
    \/ BeginTick(p)
    \/ \E t \in Registered : Consider(p, t)
    \/ EndPass(p)
    \/ PassThrows(p)
    \/ ClaimRejected(p)
    \/ ClaimThrows(p)
    \/ EndTick(p)

QuietWorker(w) == Sigterm(w) \/ ReleaseThrows(w) \/ Start(w)

QuietStep ==
    \/ \E p \in Ticks : QuietTick(p)
    \/ \E w \in Workers : QuietWorker(w)
    \/ NextBucket
    \/ UNCHANGED vars

LEMMA QuietFrame == QuietStep => UNCHANGED <<job, run, handedBack>>
BY DEF QuietStep, QuietTick, QuietWorker, BeginTick, Consider, EndPass, PassThrows, ClaimRejected, ClaimThrows, EndTick,
       Sigterm, ReleaseThrows, Start, NextBucket, vars

LEMMA QuietType ==
    ASSUME TypeInv, QuietStep
    PROVE  TypeInv'
<1> USE DEF TypeInv
<1>1. UNCHANGED <<job, run, handedBack>>
  BY QuietFrame
<1>2. RunHasRow' /\ RetriesDecideDeadLetter'
  BY <1>1 DEF RunHasRow, RetriesDecideDeadLetter
<1> SUFFICES TypeOK' /\ InsertHasTask'
  BY <1>2
<1>9. CASE \E p \in Ticks : BeginTick(p)
  <2>1. PICK p \in Ticks : BeginTick(p)
    BY <1>9
  <2>2. [bucket |-> bucket, todo |-> Registered, picked |-> NoTask] \in Pass
    BY DEF Pass, TypeOK
  <2> QED
    BY <1>1, <2>1, <2>2 DEF BeginTick, TypeOK, InsertHasTask, TickPC
<1>3. CASE \E p \in Ticks, t \in Registered : Consider(p, t)
  <2>1. PICK p \in Ticks, t \in Registered : Consider(p, t)
    BY <1>3
  <2>2. /\ pass[p] \in Pass
        /\ [pass[p] EXCEPT !.todo = @ \ {t}] \in Pass
        /\ [pass[p] EXCEPT !.todo = @ \ {t}, !.picked = t] \in Pass
        /\ [pass[p] EXCEPT !.todo = @ \ {t}, !.picked = t].picked = t
    BY PassLemma DEF TypeOK
  <2>3. CASE HasRecentJob(t)
    <3>1. /\ pass' = [pass EXCEPT ![p] = [pass[p] EXCEPT !.todo = @ \ {t}]]
          /\ pc[p] = "schedule"
          /\ UNCHANGED <<pc, worker, bucket, faults>>
      BY <2>1, <2>3 DEF Consider
    <3> QED
      BY <1>1, <2>2, <3>1 DEF TypeOK, InsertHasTask
  <2>4. CASE ~HasRecentJob(t)
    <3>1. /\ pass' = [pass EXCEPT ![p] = [pass[p] EXCEPT !.todo = @ \ {t}, !.picked = t]]
          /\ pc' = [pc EXCEPT ![p] = "insert"]
          /\ UNCHANGED <<worker, bucket, faults>>
      BY <2>1, <2>4 DEF Consider
    <3> QED
      BY <1>1, <2>2, <3>1 DEF TypeOK, InsertHasTask, TickPC
  <2> QED
    BY <2>3, <2>4
<1>4. CASE \E p \in Ticks : EndPass(p) \/ PassThrows(p)
  <2>1. PICK p \in Ticks : EndPass(p) \/ PassThrows(p)
    BY <1>4
  <2>2. faults' \in 0..MaxFaults
    BY <2>1, FaultLemma DEF EndPass, PassThrows, TypeOK
  <2>3. PICK next \in {"claim", "idle"} :
          /\ pass' = [pass EXCEPT ![p] = NoPass]
          /\ pc' = [pc EXCEPT ![p] = next]
          /\ UNCHANGED <<worker, bucket>>
    BY <2>1 DEF EndPass, PassThrows, EnterDrain
  <2>4. NoPass \in Pass
    BY JobQueueAssumption DEF NoPass, Pass, Buckets
  <2> QED
    BY <1>1, <2>2, <2>3, <2>4 DEF TypeOK, InsertHasTask, TickPC
<1>5. CASE \E p \in Ticks : ClaimRejected(p) \/ ClaimThrows(p) \/ EndTick(p)
  <2>1. faults' \in 0..MaxFaults
    BY <1>5, FaultLemma DEF ClaimRejected, ClaimThrows, EndTick, TypeOK
  <2> QED
    BY <1>1, <1>5, <2>1
    DEF ClaimRejected, ClaimThrows, EndTick, TypeOK, InsertHasTask, TickPC
<1>6. CASE \E w \in Workers : Sigterm(w) \/ ReleaseThrows(w) \/ Start(w)
  <2>1. faults' \in 0..MaxFaults
    BY <1>6, FaultLemma DEF Sigterm, ReleaseThrows, Start, TypeOK
  <2>2. worker' \in [Workers -> WorkerState]
    BY <1>6 DEF Sigterm, ReleaseThrows, Start, TypeOK, WorkerState
  <2>3. UNCHANGED <<pc, pass, bucket>>
    BY <1>6 DEF Sigterm, ReleaseThrows, Start
  <2> QED
    BY <1>1, <2>1, <2>2, <2>3 DEF TypeOK, InsertHasTask
<1>7. CASE NextBucket
  <2>1. bucket' \in Buckets
    BY <1>7, JobQueueAssumption DEF NextBucket, TypeOK, Buckets
  <2> QED
    BY <1>1, <1>7, <2>1 DEF NextBucket, TypeOK, InsertHasTask
<1>8. CASE UNCHANGED vars
  BY <1>8 DEF vars, TypeOK, InsertHasTask
<1> QED
  BY <1>3, <1>4, <1>5, <1>6, <1>7, <1>8, <1>9 DEF QuietStep, QuietTick, QuietWorker

\* Rows handed back keep their retry count, which is below the limit because
\* they were processing.
LEMMA HandBackType ==
    ASSUME TypeInv, NEW S \in SUBSET ProcessingJobs, HandBack(S), UNCHANGED run
    PROVE  /\ job' \in [JobIds -> Row \cup {Unused}]
           /\ handedBack' \subseteq JobIds
           /\ RunHasRow'
           /\ RetriesDecideDeadLetter'
<1> USE DEF TypeInv
<1>1. \A j \in JobIds : \/ job'[j] = job[j]
                       \/ /\ job[j].status = "processing"
                          /\ job'[j] \in Row
                          /\ job'[j].status = "pending"
                          /\ job'[j].retries = job[j].retries
  BY HandBackLemma
<1>2. \A j \in JobIds : job[j] # Unused => job'[j] # Unused
  BY <1>1, RowLemma
<1>3. RunHasRow'
  BY <1>2 DEF RunHasRow
<1>4. RetriesDecideDeadLetter'
  BY <1>1 DEF RetriesDecideDeadLetter
<1> QED
  BY <1>3, <1>4, HandBackLemma

LEMMA RecoverType ==
    ASSUME TypeInv, NEW p \in Ticks, Recover(p)
    PROVE  TypeInv'
<1> USE DEF TypeInv
<1>1. /\ job' \in [JobIds -> Row \cup {Unused}]
      /\ handedBack' \subseteq JobIds
      /\ RunHasRow'
      /\ RetriesDecideDeadLetter'
  BY StuckAreProcessing, HandBackType DEF Recover
<1>2. TypeOK'
  BY <1>1 DEF Recover, TypeOK, TickPC
<1>3. InsertHasTask'
  BY DEF Recover, InsertHasTask, TypeOK
<1> QED
  BY <1>1, <1>2, <1>3

LEMMA ReleaseType ==
    ASSUME TypeInv, NEW w \in Workers, Release(w)
    PROVE  TypeInv'
<1> USE DEF TypeInv
<1>1. /\ job' \in [JobIds -> Row \cup {Unused}]
      /\ handedBack' \subseteq JobIds
      /\ RunHasRow'
      /\ RetriesDecideDeadLetter'
  BY HandBackType DEF Release
<1>2. TypeOK'
  BY <1>1 DEF Release, TypeOK, WorkerState
<1>3. InsertHasTask'
  BY DEF Release, InsertHasTask
<1> QED
  BY <1>1, <1>2, <1>3

LEMMA EnqueueType ==
    ASSUME TypeInv, NEW p \in Ticks, Enqueue(p)
    PROVE  TypeInv'
<1> USE DEF TypeInv
<1> DEFINE row == NewRow(pass[p].picked, pass[p].bucket)
<1>1. pass[p] \in Pass /\ pass[p].picked \in Tasks /\ pass[p].bucket \in Buckets
  BY JobQueueAssumption DEF Enqueue, InsertHasTask, TypeOK, Pass
<1>2. row \in Row /\ row.status = "pending" /\ row.retries = 0 /\ row # Unused
  BY <1>1, NewRowLemma, RowLemma
<1>3. \A j \in JobIds : job'[j] = job[j] \/ job'[j] = row
  BY DEF Enqueue, TypeOK
<1>4. job' \in [JobIds -> Row \cup {Unused}]
  BY <1>2 DEF Enqueue, TypeOK
<1> HIDE DEF row
<1>5. [pass[p] EXCEPT !.picked = NoTask] \in Pass
  BY <1>1 DEF Pass
<1>6. /\ pass' = [pass EXCEPT ![p] = [pass[p] EXCEPT !.picked = NoTask]]
      /\ pc' = [pc EXCEPT ![p] = "schedule"]
      /\ UNCHANGED <<run, worker, bucket, faults, handedBack>>
  BY DEF Enqueue
<1>7. TypeOK'
  BY <1>4, <1>5, <1>6 DEF TypeOK, TickPC
<1>8. InsertHasTask'
  BY <1>6 DEF InsertHasTask, TypeOK
<1>9. RunHasRow'
  BY <1>2, <1>3, <1>6 DEF RunHasRow
<1>10. RetriesDecideDeadLetter'
  <2>1. 0 < MaxRetries
    BY JobQueueAssumption
  <2> QED
    BY <1>2, <1>3, <2>1 DEF RetriesDecideDeadLetter
<1> QED
  BY <1>7, <1>8, <1>9, <1>10

\* A claimed row is pending or failed, so its run starts below the limit.
LEMMA ClaimType ==
    ASSUME TypeInv, NEW p \in Ticks, Claim(p)
    PROVE  TypeInv'
<1> USE DEF TypeInv
<1>1. PICK S \in SUBSET JobIds :
        /\ Batch(S)
        /\ job' = Claimed(S)
        /\ run' = [run EXCEPT ![p] = [j \in JobIds |->
                     IF j \in S
                     THEN [phase |-> IF job[j].task \in Registered THEN "running" ELSE "failing",
                           retries |-> job[j].retries]
                     ELSE NoRun]]
  BY DEF Claim
<1>2. /\ job' \in [JobIds -> Row \cup {Unused}]
      /\ \A j \in JobIds \ S : job'[j] = job[j]
      /\ \A j \in S : /\ job[j] \in Row
                     /\ job[j].status \in {"pending", "failed"}
                     /\ job'[j] \in Row
                     /\ job'[j].status = "processing"
                     /\ job'[j].retries = job[j].retries
  BY <1>1, ClaimLemma
<1>3. \A j \in S : job[j].retries \in 0..(MaxRetries - 1)
  BY <1>2, RowLemma, JobQueueAssumption DEF RetriesDecideDeadLetter
<1>4. run' \in [Ticks -> [JobIds -> Run \cup {NoRun}]]
  BY <1>1, <1>3 DEF TypeOK, Run
<1>5. TypeOK'
  BY <1>2, <1>4 DEF Claim, TypeOK, TickPC
<1>6. InsertHasTask'
  BY DEF Claim, InsertHasTask, TypeOK
<1>7. RunHasRow'
  <2>1. \A q \in Ticks, j \in JobIds : run'[q][j] # NoRun => j \in S \/ run[q][j] # NoRun
    BY <1>1 DEF TypeOK
  <2>2. \A j \in S : job'[j] # Unused
    BY <1>2, RowLemma
  <2> QED
    BY <1>2, <2>1, <2>2 DEF RunHasRow
<1>8. RetriesDecideDeadLetter'
  BY <1>2 DEF RetriesDecideDeadLetter
<1> QED
  BY <1>5, <1>6, <1>7, <1>8

LEMMA AgentReturnsType ==
    ASSUME TypeInv, NEW p \in Ticks, NEW j \in JobIds,
           AgentReturns(p, j) \/ CompleteThrows(p, j)
    PROVE  TypeInv'
<1> USE DEF TypeInv
<1>1. run[p][j] \in Run
  BY DEF AgentReturns, CompleteThrows, TypeOK, NoRun
<1>2. PICK next \in {"completing", "failing"} :
        run' = [run EXCEPT ![p][j] = [run[p][j] EXCEPT !.phase = next]]
  BY DEF AgentReturns, CompleteThrows
<1>3. [run[p][j] EXCEPT !.phase = next] \in Run
  BY <1>1, RunLemma
<1>4. run' \in [Ticks -> [JobIds -> Run \cup {NoRun}]]
  BY <1>2, <1>3 DEF TypeOK
<1>5. faults' \in 0..MaxFaults
  BY FaultLemma DEF AgentReturns, CompleteThrows, TypeOK
<1>6. UNCHANGED <<job, pc, pass, worker, bucket, handedBack>>
  BY DEF AgentReturns, CompleteThrows
<1>7. TypeOK'
  BY <1>4, <1>5, <1>6 DEF TypeOK
<1>8. InsertHasTask' /\ RetriesDecideDeadLetter'
  BY <1>6 DEF InsertHasTask, RetriesDecideDeadLetter
<1>9. RunHasRow'
  <2>1. \A q \in Ticks, i \in JobIds : run'[q][i] # NoRun => run[q][i] # NoRun
    BY <1>1, <1>2, RunLemma DEF TypeOK
  <2> QED
    BY <1>6, <2>1 DEF RunHasRow
<1> QED
  BY <1>7, <1>8, <1>9

\* The row of a run that ends with a statement is still a row: done, or failed
\* with the count of the run's copy plus one.
LEMMA RecordedLemma ==
    ASSUME TypeInv, NEW p \in Ticks, NEW j \in JobIds, Complete(p, j) \/ Fail(p, j)
    PROVE  /\ run[p][j] \in Run
           /\ job[j] \in Row
           /\ job'[j] \in Row
           /\ job' = [job EXCEPT ![j] = job'[j]]
           /\ run' = [run EXCEPT ![p][j] = NoRun]
           /\ UNCHANGED <<pc, pass, worker, bucket, faults, handedBack>>
           /\ \/ /\ job'[j].status = "done"
                 /\ job'[j].retries = job[j].retries
              \/ /\ job'[j].retries = run[p][j].retries + 1
                 /\ job'[j].status = IF run[p][j].retries + 1 = MaxRetries
                                     THEN "dead_letter" ELSE "failed"
<1> USE DEF TypeInv
<1>1. run[p][j] \in Run /\ run[p][j] # NoRun
  BY DEF Complete, Fail, TypeOK, NoRun
<1>2. job[j] \in Row
  BY <1>1 DEF RunHasRow, TypeOK
<1>3. run[p][j].retries \in 0..(MaxRetries - 1)
  BY <1>1 DEF Run
<1>4. CASE Complete(p, j)
  <2>1. job' = [job EXCEPT ![j] = Completed(job[j])]
    BY <1>4 DEF Complete
  <2>2. job'[j] = Completed(job[j])
    BY <2>1 DEF TypeOK
  <2> QED
    BY <1>1, <1>2, <1>4, <2>1, <2>2, CompletedLemma DEF Complete
<1>5. CASE Fail(p, j)
  <2>1. job' = [job EXCEPT ![j] = Failed(job[j], run[p][j].retries)]
    BY <1>5 DEF Fail
  <2>2. job'[j] = Failed(job[j], run[p][j].retries)
    BY <2>1 DEF TypeOK
  <2>3. /\ job'[j] \in Row
        /\ job'[j].retries = run[p][j].retries + 1
        /\ job'[j].status = IF run[p][j].retries + 1 = MaxRetries
                            THEN "dead_letter" ELSE "failed"
    BY <1>2, <1>3, <2>2, FailedLemma
  <2> QED
    BY <1>1, <1>2, <1>5, <2>1, <2>2, <2>3 DEF Fail
<1> QED
  BY <1>4, <1>5

LEMMA RecordType ==
    ASSUME TypeInv, NEW p \in Ticks, NEW j \in JobIds, Complete(p, j) \/ Fail(p, j)
    PROVE  TypeInv'
<1> USE DEF TypeInv
<1>1. /\ job'[j] \in Row
      /\ job' = [job EXCEPT ![j] = job'[j]]
      /\ run' = [run EXCEPT ![p][j] = NoRun]
      /\ UNCHANGED <<pc, pass, worker, bucket, faults, handedBack>>
  BY RecordedLemma
<1>2. TypeOK'
  BY <1>1 DEF TypeOK
<1>3. InsertHasTask'
  BY <1>1 DEF InsertHasTask
<1>4. RunHasRow'
  BY <1>1, RowLemma DEF RunHasRow, TypeOK
<1>5. RetriesDecideDeadLetter'
  <2>1. \A i \in JobIds \ {j} : job'[i] = job[i]
    BY <1>1 DEF TypeOK
  <2>2. /\ job'[j].status \in {"pending", "processing", "failed"} => job'[j].retries < MaxRetries
        /\ job'[j].status = "dead_letter" => job'[j].retries = MaxRetries
    <3>1. CASE job'[j].status = "done"
      BY <3>1
    <3>2. CASE /\ job'[j].retries = run[p][j].retries + 1
               /\ job'[j].status = IF run[p][j].retries + 1 = MaxRetries
                                   THEN "dead_letter" ELSE "failed"
      <4>1. run[p][j].retries \in 0..(MaxRetries - 1)
        BY RecordedLemma DEF Run
      <4> QED
        BY <3>2, <4>1, JobQueueAssumption
    <3> QED
      BY <3>1, <3>2, RecordedLemma
  <2> QED
    BY <2>1, <2>2 DEF RetriesDecideDeadLetter
<1> QED
  BY <1>2, <1>3, <1>4, <1>5

\* A run, or all runs of a worker, end without a statement.
LEMMA FailThrowsType ==
    ASSUME TypeInv, NEW p \in Ticks, NEW j \in JobIds, FailThrows(p, j)
    PROVE  TypeInv'
<1> USE DEF TypeInv
<1>1. faults' \in 0..MaxFaults
  BY FaultLemma DEF FailThrows
<1>2. TypeOK'
  BY <1>1 DEF FailThrows, TypeOK
<1>3. InsertHasTask' /\ RetriesDecideDeadLetter'
  BY DEF FailThrows, InsertHasTask, RetriesDecideDeadLetter
<1>4. RunHasRow'
  BY DEF FailThrows, RunHasRow, TypeOK
<1> QED
  BY <1>2, <1>3, <1>4

LEMMA ProcessEndsType ==
    ASSUME TypeInv, NEW w \in Workers, Exit(w) \/ Crash(w)
    PROVE  TypeInv'
<1> USE DEF TypeInv
<1>1. faults' \in 0..MaxFaults
  BY FaultLemma DEF Exit, Crash, TypeOK
<1>2. ProcessEnds(w) /\ UNCHANGED <<job, bucket, handedBack>>
  BY DEF Exit, Crash
<1>3. NoPass \in Pass
  BY JobQueueAssumption DEF NoPass, Pass, Buckets
<1>4. worker' \in [Workers -> WorkerState]
  BY <1>2 DEF ProcessEnds, TypeOK, WorkerState
<1>5. pc' \in [Ticks -> TickPC] /\ pass' \in [Ticks -> Pass]
  BY <1>2, <1>3 DEF ProcessEnds, TypeOK, TickPC
<1>6. run' \in [Ticks -> [JobIds -> Run \cup {NoRun}]]
  BY <1>2 DEF ProcessEnds, TypeOK, NoRuns
<1>7. TypeOK'
  BY <1>1, <1>2, <1>4, <1>5, <1>6 DEF TypeOK
<1>8. InsertHasTask'
  BY <1>2 DEF ProcessEnds, InsertHasTask
<1>9. RunHasRow' /\ RetriesDecideDeadLetter'
  BY <1>2 DEF ProcessEnds, NoRuns, RunHasRow, RetriesDecideDeadLetter
<1> QED
  BY <1>7, <1>8, <1>9

LEMMA ElapseLemma ==
    ASSUME TypeInv, NEW j \in JobIds, Elapse(j)
    PROVE  /\ job[j] \in Row
           /\ job' \in [JobIds -> Row \cup {Unused}]
           /\ \A i \in JobIds \ {j} : job'[i] = job[i]
           /\ job'[j] \in Row
           /\ job'[j].status = job[j].status
           /\ job'[j].retries = job[j].retries
           /\ job'[j].task = job[j].task
           /\ job'[j].bucket = job[j].bucket
<1>1. job[j] \in Row
  BY DEF TypeInv, TypeOK, Elapse, Unused
<1>2. job' = [job EXCEPT ![j] = [job[j] EXCEPT !.elapsed = TRUE]]
  BY DEF Elapse
<1>3. [job[j] EXCEPT !.elapsed = TRUE] \in Row
  BY <1>1 DEF Row
<1> QED
  BY <1>1, <1>2, <1>3 DEF TypeInv, TypeOK, Row

LEMMA ElapseType ==
    ASSUME TypeInv, NEW j \in JobIds, Elapse(j)
    PROVE  TypeInv'
<1> USE DEF TypeInv
<1>1. TypeOK'
  BY ElapseLemma DEF Elapse, TypeOK
<1>2. InsertHasTask'
  BY DEF Elapse, InsertHasTask
<1>3. RunHasRow'
  BY ElapseLemma, RowLemma DEF Elapse, RunHasRow
<1>4. RetriesDecideDeadLetter'
  BY ElapseLemma DEF RetriesDecideDeadLetter
<1> QED
  BY <1>1, <1>2, <1>3, <1>4

\* The disjuncts of the next-state relation, the quiet ones together.
LEMMA NextCases ==
    ASSUME [Next]_vars
    PROVE  \/ QuietStep
           \/ \E p \in Ticks : Recover(p) \/ Enqueue(p) \/ Claim(p)
           \/ \E p \in Ticks, j \in JobIds :
                 \/ AgentReturns(p, j) \/ CompleteThrows(p, j)
                 \/ Complete(p, j) \/ Fail(p, j)
                 \/ FailThrows(p, j)
           \/ \E w \in Workers : Release(w) \/ Exit(w) \/ Crash(w)
           \/ \E j \in JobIds : Elapse(j)
<1>1. \A p \in Ticks : TickStep(p) => QuietTick(p) \/ Recover(p) \/ Enqueue(p) \/ Claim(p)
  BY DEF TickStep, QuietTick
<1>2. \A w \in Workers : WorkerStep(w) => QuietWorker(w) \/ Release(w) \/ Exit(w) \/ Crash(w)
  BY DEF WorkerStep, QuietWorker
<1> QED
  BY <1>1, <1>2 DEF Next, RunStep, QuietStep

LEMMA TypeNext == TypeInv /\ [Next]_vars => TypeInv'
BY NextCases, QuietType, RecoverType, EnqueueType, ClaimType, AgentReturnsType, RecordType,
   FailThrowsType, ReleaseType, ProcessEndsType, ElapseType

\* The tables and the ticks keep their shape in every reachable state.
THEOREM TypeCorrect == Spec => []TypeOK
<1>1. TypeInv => TypeOK
  BY DEF TypeInv
<1> QED
  BY <1>1, TypeInit, TypeNext, PTL DEF Spec

\* Whatever interleaving of claims, failures, hand-backs and crashes, a job that
\* can be claimed again has a retry left and a dead letter has used them all.
THEOREM RetryCountCorrect == Spec => []RetriesDecideDeadLetter
<1>1. TypeInv => RetriesDecideDeadLetter
  BY DEF TypeInv
<1> QED
  BY <1>1, TypeInit, TypeNext, PTL DEF Spec

-----------------------------------------------------------------------------
(* One runner, and what it may write *)

\* OneRunner is not inductive: a second claim of a job under a live run is
\* excluded only because the row of a running job is processing, and what a run
\* writes is right only because its copy of the retry count is the row's.
RunHoldsRow ==
    \A j \in JobIds \ handedBack : \A p \in Ticks :
        run[p][j] # NoRun => job[j].status = "processing" /\ run[p][j].retries = job[j].retries

RunnerInv == OneRunner /\ RunHoldsRow

\* Steps after which every run was already there, with the same row.
LEMMA RunnerKept ==
    ASSUME RunnerInv, handedBack \subseteq handedBack',
           \A j \in JobIds \ handedBack', p \in Ticks :
               run'[p][j] # NoRun =>
                   /\ run[p][j] # NoRun
                   /\ run'[p][j].retries = run[p][j].retries
                   /\ job'[j].status = job[j].status
                   /\ job'[j].retries = job[j].retries
    PROVE  RunnerInv'
BY DEF RunnerInv, OneRunner, RunHoldsRow

LEMMA RunnerHandBack ==
    ASSUME TypeInv, RunnerInv, NEW S \in SUBSET ProcessingJobs, HandBack(S), UNCHANGED run
    PROVE  RunnerInv'
<1>1. /\ handedBack' = handedBack \cup {j \in S : Running(j) # {}}
      /\ \A j \in JobIds \ S : job'[j] = job[j]
  BY HandBackLemma DEF TypeInv
<1>2. \A j \in JobIds \ handedBack', p \in Ticks : run[p][j] # NoRun => j \notin S
  BY <1>1 DEF Running
<1> QED
  BY <1>1, <1>2, RunnerKept

LEMMA RunnerEnqueue ==
    ASSUME TypeInv, RunnerInv, NEW p \in Ticks, Enqueue(p)
    PROVE  RunnerInv'
<1>1. \A j \in JobIds : job[j] # Unused => job'[j] = job[j]
  BY DEF Enqueue, TypeInv, TypeOK
<1>2. \A j \in JobIds, q \in Ticks : run[q][j] # NoRun => job'[j] = job[j]
  BY <1>1 DEF TypeInv, RunHasRow
<1> QED
  BY <1>2, RunnerKept DEF Enqueue

LEMMA RunnerClaim ==
    ASSUME TypeInv, RunnerInv, NEW p \in Ticks, Claim(p)
    PROVE  RunnerInv'
<1>1. PICK S \in SUBSET JobIds :
        /\ Batch(S)
        /\ job' = Claimed(S)
        /\ run' = [run EXCEPT ![p] = [j \in JobIds |->
                     IF j \in S
                     THEN [phase |-> IF job[j].task \in Registered THEN "running" ELSE "failing",
                           retries |-> job[j].retries]
                     ELSE NoRun]]
  BY DEF Claim
<1>2. /\ \A j \in JobIds \ S : job'[j] = job[j]
      /\ \A j \in S : /\ job[j].status \in {"pending", "failed"}
                     /\ job'[j].status = "processing"
                     /\ job'[j].retries = job[j].retries
  BY <1>1, ClaimLemma DEF TypeInv
<1>3. \A j \in S \ handedBack, q \in Ticks : run[q][j] = NoRun
  BY <1>2 DEF RunnerInv, RunHoldsRow
<1>4. \A j \in S : run'[p][j].retries = job[j].retries
  BY <1>1 DEF TypeInv, TypeOK
<1>5. \A j \in JobIds \ S : run'[p][j] = NoRun
  BY <1>1 DEF TypeInv, TypeOK
<1>6. \A q \in Ticks \ {p} : run'[q] = run[q]
  BY <1>1 DEF TypeInv, TypeOK
<1>7. handedBack' = handedBack
  BY DEF Claim
<1>8. OneRunner'
  BY <1>3, <1>5, <1>6, <1>7 DEF RunnerInv, OneRunner
<1>9. RunHoldsRow'
  BY <1>2, <1>3, <1>4, <1>5, <1>6, <1>7 DEF RunnerInv, RunHoldsRow
<1> QED
  BY <1>8, <1>9 DEF RunnerInv

LEMMA RunnerPhase ==
    ASSUME TypeInv, RunnerInv, NEW p \in Ticks, NEW j \in JobIds,
           AgentReturns(p, j) \/ CompleteThrows(p, j)
    PROVE  RunnerInv'
<1>1. run[p][j] \in Run /\ run[p][j] # NoRun
  BY DEF AgentReturns, CompleteThrows, TypeInv, TypeOK, NoRun
<1>2. PICK next \in {"completing", "failing"} :
        run' = [run EXCEPT ![p][j] = [run[p][j] EXCEPT !.phase = next]]
  BY DEF AgentReturns, CompleteThrows
<1>3. [run[p][j] EXCEPT !.phase = next].retries = run[p][j].retries
  BY <1>1, RunLemma
<1>4. \A q \in Ticks, i \in JobIds :
        run'[q][i] # NoRun => run[q][i] # NoRun /\ run'[q][i].retries = run[q][i].retries
  BY <1>1, <1>2, <1>3 DEF TypeInv, TypeOK
<1>5. UNCHANGED <<job, handedBack>>
  BY DEF AgentReturns, CompleteThrows
<1> QED
  BY <1>4, <1>5, RunnerKept

\* The run that writes is the only one of its row, and it ends with the write.
LEMMA RunnerRecord ==
    ASSUME TypeInv, RunnerInv, NEW p \in Ticks, NEW j \in JobIds, Complete(p, j) \/ Fail(p, j)
    PROVE  RunnerInv'
<1>1. /\ run[p][j] # NoRun
      /\ run' = [run EXCEPT ![p][j] = NoRun]
      /\ job' = [job EXCEPT ![j] = job'[j]]
      /\ handedBack' = handedBack
  BY RecordedLemma, RunLemma
<1>2. \A i \in JobIds \ {j} : job'[i] = job[i]
  BY <1>1 DEF TypeInv, TypeOK
<1>3. \A q \in Ticks, i \in JobIds :
        run'[q][i] # NoRun => run'[q][i] = run[q][i] /\ (i # j \/ q # p)
  BY <1>1 DEF TypeInv, TypeOK
<1>4. \A q \in Ticks : j \notin handedBack => run'[q][j] = NoRun
  BY <1>1, <1>3 DEF RunnerInv, OneRunner
<1> QED
  BY <1>1, <1>2, <1>3, <1>4, RunnerKept

LEMMA RunnerEnds ==
    ASSUME TypeInv, RunnerInv,
           \/ \E p \in Ticks, j \in JobIds : FailThrows(p, j)
           \/ \E w \in Workers : Exit(w) \/ Crash(w)
    PROVE  RunnerInv'
<1>1. \A q \in Ticks, i \in JobIds : run'[q][i] # NoRun => run'[q][i] = run[q][i]
  BY DEF FailThrows, Exit, Crash, ProcessEnds, NoRuns, TypeInv, TypeOK
<1>2. UNCHANGED <<job, handedBack>>
  BY DEF FailThrows, Exit, Crash
<1> QED
  BY <1>1, <1>2, RunnerKept

LEMMA RunnerNext == TypeInv /\ RunnerInv /\ [Next]_vars => RunnerInv'
<1> SUFFICES ASSUME TypeInv, RunnerInv, [Next]_vars
             PROVE  RunnerInv'
  OBVIOUS
<1>1. QuietStep => RunnerInv'
  BY QuietFrame, RunnerKept
<1>2. \A p \in Ticks : Recover(p) => RunnerInv'
  BY RunnerHandBack, StuckAreProcessing DEF Recover
<1>3. \A w \in Workers : Release(w) => RunnerInv'
  BY RunnerHandBack DEF Release
<1>4. \A j \in JobIds : Elapse(j) => RunnerInv'
  <2> SUFFICES ASSUME NEW j \in JobIds, Elapse(j) PROVE RunnerInv'
    OBVIOUS
  <2>1. \A i \in JobIds : job'[i].status = job[i].status /\ job'[i].retries = job[i].retries
    BY ElapseLemma
  <2>2. UNCHANGED <<run, handedBack>>
    BY DEF Elapse
  <2> QED
    BY <2>1, <2>2, RunnerKept
<1> QED
  BY <1>1, <1>2, <1>3, <1>4, RunnerEnqueue, RunnerClaim, RunnerPhase, RunnerRecord, RunnerEnds,
     NextCases

LEMMA RunnerInit == Init => RunnerInv
BY DEF Init, RunnerInv, OneRunner, RunHoldsRow, NoRuns

\* SKIP LOCKED and the status filter give a job one runner at a time, over all
\* ticks of all workers, until it is handed back under a live run.
THEOREM OneRunnerCorrect == Spec => []OneRunner
<1>1. RunnerInv => OneRunner
  BY DEF RunnerInv
<1> QED
  BY <1>1, TypeInit, TypeNext, RunnerInit, RunnerNext, PTL DEF Spec

LEMMA OutcomeStep == TypeInv /\ RunnerInv /\ [Next]_vars => [OutcomeKept]_vars
<1> SUFFICES ASSUME TypeInv, RunnerInv, [Next]_vars
             PROVE  OutcomeKept
  OBVIOUS
<1>1. \A j \in JobIds : job[j] # Unused => job[j] \in Row /\ job[j].retries \in Nat
  BY JobQueueAssumption, RowLemma DEF TypeInv, TypeOK
<1>2. CASE \A j \in JobIds : job[j] # Unused =>
              job'[j].status = job[j].status /\ job'[j].retries = job[j].retries
  BY <1>1, <1>2 DEF OutcomeKept
<1>3. ASSUME NEW S \in SUBSET ProcessingJobs, HandBack(S)
      PROVE  OutcomeKept
  <2>1. \A j \in JobIds : \/ job'[j] = job[j]
                         \/ /\ job[j].status = "processing"
                            /\ job'[j].status = "pending"
                            /\ job'[j].retries = job[j].retries
    BY <1>3, HandBackLemma DEF TypeInv
  <2> QED
    BY <1>1, <2>1 DEF OutcomeKept, FinalStatus
<1>4. ASSUME NEW p \in Ticks, Claim(p)
      PROVE  OutcomeKept
  <2>1. \A j \in JobIds : \/ job'[j] = job[j]
                         \/ /\ job[j].status \in {"pending", "failed"}
                            /\ job'[j].status = "processing"
                            /\ job'[j].retries = job[j].retries
    BY <1>4, ClaimLemma DEF Claim, TypeInv
  <2> QED
    BY <1>1, <2>1 DEF OutcomeKept, FinalStatus
<1>5. ASSUME NEW p \in Ticks, NEW j \in JobIds, Complete(p, j) \/ Fail(p, j)
      PROVE  OutcomeKept
  <2>1. /\ run[p][j] # NoRun
        /\ job' = [job EXCEPT ![j] = job'[j]]
        /\ handedBack' = handedBack
        /\ job'[j].retries \in {job[j].retries, run[p][j].retries + 1}
    BY <1>5, RecordedLemma, RunLemma
  <2>2. \A i \in JobIds \ {j} : job'[i] = job[i]
    BY <2>1 DEF TypeInv, TypeOK
  <2>3. Running(j) # {}
    BY <2>1 DEF Running
  <2>4. j \notin handedBack =>
          job[j].status = "processing" /\ run[p][j].retries = job[j].retries
    BY <2>1 DEF RunnerInv, RunHoldsRow
  <2> QED
    BY <1>1, <2>1, <2>2, <2>3, <2>4 DEF OutcomeKept, FinalStatus
<1>6. \A p \in Ticks : Recover(p) => OutcomeKept
  BY <1>3, StuckAreProcessing DEF Recover
<1>7. \A w \in Workers : Release(w) => OutcomeKept
  BY <1>3 DEF Release
<1>8. \A p \in Ticks : Enqueue(p) => OutcomeKept
  BY <1>2 DEF Enqueue, TypeInv, TypeOK
<1>9. \A j \in JobIds : Elapse(j) => OutcomeKept
  <2> SUFFICES ASSUME NEW j \in JobIds, Elapse(j) PROVE OutcomeKept
    OBVIOUS
  <2>1. \A i \in JobIds : job'[i].status = job[i].status /\ job'[i].retries = job[i].retries
    BY ElapseLemma
  <2> QED
    BY <1>2, <2>1
<1>10. UNCHANGED job => OutcomeKept
  BY <1>2
<1>11. QuietStep => OutcomeKept
  BY <1>10, QuietFrame
<1>12. \A p \in Ticks, j \in JobIds :
         AgentReturns(p, j) \/ CompleteThrows(p, j) \/ FailThrows(p, j) => OutcomeKept
  BY <1>10 DEF AgentReturns, CompleteThrows, FailThrows
<1>13. \A w \in Workers : Exit(w) \/ Crash(w) => OutcomeKept
  BY <1>10 DEF Exit, Crash
<1> QED
  BY <1>4, <1>5, <1>6, <1>7, <1>8, <1>9, <1>11, <1>12, <1>13, NextCases

\* completeJob and failJob write by id alone; for a job never handed back under
\* a live run, a finished job stays as it is, the retry count moves by one at
\* most and never back, and only a run of the job finishes or fails it.
THEOREM OutcomeCorrect == Spec => OutcomeIsFinal
BY TypeInit, TypeNext, RunnerInit, RunnerNext, OutcomeStep, PTL DEF Spec, OutcomeIsFinal
-----------------------------------------------------------------------------
(* Each row is a work item *)

\* A tick has runs only after its claim and before its end.
RunsAfterClaim == \A p \in Ticks : pc[p] # "run" => run[p] = NoRuns

\* What a row is to its work item.
LEMMA ItemLemma ==
    /\ ItemStatus(Unused) = "absent" /\ ItemTries(Unused) = 0
    /\ \A r \in Row :
          /\ ItemTries(r) = r.retries
          /\ ItemStatus(r) = "waiting" <=> r.status \in {"pending", "failed"}
          /\ ItemStatus(r) = "taken" <=> r.status = "processing"
          /\ ItemStatus(r) = "done" <=> r.status = "done"
          /\ ItemStatus(r) = "dropped" <=> r.status = "dead_letter"
<1>1. \A r \in Row : r.status \in {"pending", "processing", "done", "dead_letter", "failed"}
  BY DEF Row, Status, LiveStatus, FinalStatus
<1>2. \A r \in Row : r # Unused
  BY RowLemma
<1> QED
  BY <1>1, <1>2 DEF ItemStatus, ItemTries, Unused

\* A step that leaves the item's four parts alone is no concern of the item.
LEMMA ItemStays ==
    ASSUME NEW j \in JobIds,
           ItemStatus(job'[j]) = ItemStatus(job[j]), ItemTries(job'[j]) = ItemTries(job[j]),
           Running(j)' = Running(j), j \in handedBack' <=> j \in handedBack
    PROVE  Life(j)!Step
BY DEF Life!Step, Life!vars

\* Every row is a row of the table or unused.
LEMMA RowOrUnused ==
    ASSUME TypeOK, NEW j \in JobIds
    PROVE  job[j] \in Row \/ job[j] = Unused
BY DEF TypeOK

LEMMA RunsInit == Init => RunsAfterClaim
BY DEF Init, RunsAfterClaim

LEMMA RunsNext == TypeOK /\ RunsAfterClaim /\ [Next]_vars => RunsAfterClaim'
<1> SUFFICES ASSUME TypeOK, RunsAfterClaim, [Next]_vars PROVE RunsAfterClaim'
  OBVIOUS
<1>t. pc \in [Ticks -> TickPC] /\ run \in [Ticks -> [JobIds -> Run \cup {NoRun}]]
  BY DEF TypeOK
<1>1. ASSUME NEW p \in Ticks, TickStep(p) PROVE RunsAfterClaim'
  <2>1. CASE Claim(p)
    <3>1. pc'[p] = "run" /\ \A q \in Ticks \ {p} : pc'[q] = pc[q] /\ run'[q] = run[q]
      BY <1>t, <2>1 DEF Claim
    <3> QED
      BY <3>1 DEF RunsAfterClaim
  <2>2. CASE ~ Claim(p)
    <3>1. /\ run' = run
          /\ \A q \in Ticks \ {p} : pc'[q] = pc[q]
          /\ pc[p] # "run" \/ run[p] = NoRuns
      BY <1>1, <1>t, <2>2 DEF TickStep, BeginTick, Recover, Consider, Enqueue, EndPass, EnterDrain,
                         PassThrows, ClaimRejected, ClaimThrows, EndTick
    <3> QED
      BY <3>1 DEF RunsAfterClaim
  <2> QED
    BY <2>1, <2>2
<1>2. ASSUME NEW p \in Ticks, NEW j \in JobIds, RunStep(p, j) PROVE RunsAfterClaim'
  <2>1. pc' = pc /\ run[p][j].phase # "none" /\ \A q \in Ticks \ {p} : run'[q] = run[q]
    BY <1>2, <1>t DEF RunStep, AgentReturns, Complete, CompleteThrows, Fail, FailThrows
  <2>2. pc[p] = "run"
    BY <2>1 DEF RunsAfterClaim, NoRuns, NoRun
  <2> QED
    BY <2>1, <2>2 DEF RunsAfterClaim
<1>3. ASSUME NEW w \in Workers, WorkerStep(w) PROVE RunsAfterClaim'
  BY <1>3, <1>t DEF WorkerStep, Sigterm, Release, ReleaseThrows, Exit, Crash, ProcessEnds, Start,
                    RunsAfterClaim
<1>4. (\E j \in JobIds : Elapse(j)) \/ NextBucket \/ UNCHANGED vars => RunsAfterClaim'
  BY DEF Elapse, NextBucket, vars, RunsAfterClaim
<1> QED
  BY <1>1, <1>2, <1>3, <1>4 DEF Next

\* A claim takes each row of its batch, and is no concern of the others.
LEMMA ClaimTakes ==
    ASSUME TypeInv, RunnerInv, RunsAfterClaim, NEW p \in Ticks, Claim(p), NEW j \in JobIds
    PROVE  Life(j)!Step
<1>1. PICK S \in SUBSET JobIds :
        /\ Batch(S)
        /\ job' = Claimed(S)
        /\ run' = [run EXCEPT ![p] = [i \in JobIds |->
                     IF i \in S
                     THEN [phase |-> IF job[i].task \in Registered THEN "running" ELSE "failing",
                           retries |-> job[i].retries]
                     ELSE NoRun]]
  BY DEF Claim
<1>2. /\ j \notin S => job'[j] = job[j]
      /\ j \in S => /\ job[j] \in Row /\ job[j].status \in {"pending", "failed"}
                    /\ job'[j] \in Row /\ job'[j].status = "processing"
                    /\ job'[j].retries = job[j].retries
  BY <1>1, ClaimLemma DEF TypeInv
<1>3. run[p][j] = NoRun /\ run \in [Ticks -> [JobIds -> Run \cup {NoRun}]]
  BY DEF RunsAfterClaim, NoRuns, Claim, TypeInv, TypeOK
<1>4. /\ \A q \in Ticks \ {p} : run'[q][j] = run[q][j]
      /\ j \notin S => run'[p][j] = NoRun
      /\ j \in S => run'[p][j].phase # "none"
  BY <1>1, <1>3
<1>5. Running(j)' = IF j \in S THEN Running(j) \cup {p} ELSE Running(j)
  BY <1>3, <1>4 DEF Running, NoRun
<1>6. handedBack' = handedBack
  BY DEF Claim
<1>7. CASE j \notin S
  BY <1>2, <1>5, <1>6, <1>7, ItemStays
<1>8. CASE j \in S
  <2>1. /\ ItemStatus(job[j]) = "waiting" /\ ItemStatus(job'[j]) = "taken"
        /\ ItemTries(job'[j]) = ItemTries(job[j])
    BY <1>2, <1>8, ItemLemma
  <2>2. j \in handedBack \/ Running(j) = {}
    BY <1>2, <1>8 DEF RunnerInv, RunHoldsRow, Running
  <2>3. Life(j)!Take(p)
    BY <1>5, <1>6, <1>8, <2>1, <2>2 DEF Life!Take
  <2> QED
    BY <2>3 DEF Life!Step, Life!Next
<1> QED
  BY <1>7, <1>8

\* Rows that are handed back are put back, and slip if a run of theirs is alive.
LEMMA HandBackPutsBack ==
    ASSUME TypeOK, NEW S \in SUBSET ProcessingJobs, HandBack(S), UNCHANGED run, NEW j \in JobIds
    PROVE  Life(j)!Step
<1>1. /\ handedBack' = handedBack \cup {i \in S : Running(i) # {}}
      /\ j \notin S => job'[j] = job[j]
      /\ j \in S => /\ job[j] \in Row /\ job[j].status = "processing"
                    /\ job'[j] \in Row /\ job'[j].status = "pending"
                    /\ job'[j].retries = job[j].retries
  BY HandBackLemma
<1>2. Running(j)' = Running(j)
  BY DEF Running
<1>3. CASE j \notin S
  BY <1>1, <1>2, <1>3, ItemStays
<1>4. CASE j \in S
  <2>1. /\ ItemStatus(job[j]) = "taken" /\ ItemStatus(job'[j]) = "waiting"
        /\ ItemTries(job'[j]) = ItemTries(job[j])
    BY <1>1, <1>4, ItemLemma
  <2>2. (j \in handedBack') = (j \in handedBack \/ Running(j) # {})
    BY <1>1, <1>4
  <2>3. Life(j)!PutBack
    BY <1>2, <2>1, <2>2 DEF Life!PutBack
  <2> QED
    BY <2>3 DEF Life!Step, Life!Next
<1> QED
  BY <1>3, <1>4

\* An insert adds the row it is given, and is no concern of the others.
LEMMA EnqueueAdds ==
    ASSUME TypeInv, NEW p \in Ticks, Enqueue(p), NEW j \in JobIds
    PROVE  Life(j)!Step
<1>1. Running(j)' = Running(j) /\ handedBack' = handedBack
  BY DEF Enqueue, Running
<1>2. CASE job'[j] = job[j]
  BY <1>1, <1>2, ItemStays
<1>3. CASE job'[j] # job[j]
  <2>1. job[j] = Unused /\ job'[j] = NewRow(pass[p].picked, pass[p].bucket)
    BY <1>3 DEF Enqueue, TypeInv, TypeOK
  <2>2. pass[p].picked \in Tasks /\ pass[p].bucket \in Buckets
    BY JobQueueAssumption DEF Enqueue, TypeInv, TypeOK, InsertHasTask, Pass
  <2>3. /\ ItemStatus(job[j]) = "absent" /\ ItemStatus(job'[j]) = "waiting"
        /\ ItemTries(job[j]) = 0 /\ ItemTries(job'[j]) = 0
    BY <2>1, <2>2, NewRowLemma, ItemLemma
  <2>4. Life(j)!Add
    BY <1>1, <2>3 DEF Life!Add
  <2> QED
    BY <2>4 DEF Life!Step, Life!Next
<1> QED
  BY <1>2, <1>3

\* The run that records an outcome holds the row; unless the row slipped it is the
\* only one, and its copy of the retry count is the row's.
LEMMA RecordSettles ==
    ASSUME TypeInv, RunnerInv, NEW p \in Ticks, NEW i \in JobIds, Complete(p, i) \/ Fail(p, i),
           NEW j \in JobIds
    PROVE  Life(j)!Step
<1>1. /\ run[p][i] \in Run /\ job[i] \in Row /\ job'[i] \in Row
      /\ job' = [job EXCEPT ![i] = job'[i]]
      /\ run' = [run EXCEPT ![p][i] = NoRun]
      /\ handedBack' = handedBack
      /\ \/ /\ job'[i].status = "done"
            /\ job'[i].retries = job[i].retries
         \/ /\ job'[i].retries = run[p][i].retries + 1
            /\ job'[i].status = IF run[p][i].retries + 1 = MaxRetries
                                THEN "dead_letter" ELSE "failed"
  BY RecordedLemma
<1>t. job \in [JobIds -> Row \cup {Unused}] /\ run \in [Ticks -> [JobIds -> Run \cup {NoRun}]]
  BY DEF TypeInv, TypeOK
<1>2. CASE i # j
  <2>1. job'[j] = job[j] /\ \A q \in Ticks : run'[q][j] = run[q][j]
    BY <1>1, <1>t, <1>2
  <2>2. Running(j)' = Running(j)
    BY <2>1 DEF Running
  <2> QED
    BY <1>1, <2>1, <2>2, ItemStays
<1>3. CASE i = j
  <2>1. run[p][j] # NoRun
    BY <1>1, <1>3, RunLemma
  <2>2. p \in Running(j) /\ Running(j)' = Running(j) \ {p}
    BY <1>1, <1>t, <1>3, <2>1 DEF Running
  <2>3. j \notin handedBack =>
          /\ Running(j) = {p} /\ job[j].status = "processing"
          /\ run[p][j].retries = job[j].retries
    BY <2>1, <2>2 DEF RunnerInv, OneRunner, RunHoldsRow, Running
  <2>4. Life(j)!Settles(p)
    BY <1>1, <1>3, <2>2, <2>3, ItemLemma DEF Life!Settles
  <2>5. CASE job'[i].status = "done" /\ job'[i].retries = job[i].retries
    <3>1. Life(j)!Finish(p)
      BY <1>1, <1>3, <2>4, <2>5, ItemLemma DEF Life!Finish
    <3> QED
      BY <3>1 DEF Life!Step, Life!Next
  <2>6. CASE /\ job'[i].retries = run[p][i].retries + 1
             /\ job'[i].status = IF run[p][i].retries + 1 = MaxRetries
                                 THEN "dead_letter" ELSE "failed"
    <3> DEFINE n == run[p][j].retries + 1
    <3>1. n \in 1..MaxRetries /\ n <= MaxRetries
      BY <1>1, <1>3, JobQueueAssumption DEF Run
    <3>2. ItemTries(job'[j]) = n
      BY <1>1, <1>3, <2>6, ItemLemma
    <3>3. ItemStatus(job'[j]) = IF n = MaxRetries THEN "dropped" ELSE "waiting"
      BY <1>1, <1>3, <2>6, ItemLemma
    <3>4. j \notin handedBack => n = ItemTries(job[j]) + 1
      BY <1>1, <1>3, <2>3, ItemLemma
    <3> HIDE DEF n
    <3>5. Life(j)!Fail(p)
      BY <2>4, <3>1, <3>2, <3>3, <3>4 DEF Life!Fail
    <3> QED
      BY <3>5 DEF Life!Step, Life!Next
  <2> QED
    BY <1>1, <2>5, <2>6
<1> QED
  BY <1>2, <1>3

\* Runs that end without a statement let go of their rows.
LEMMA EndLetsGo ==
    ASSUME TypeOK,
           \/ \E p \in Ticks, i \in JobIds : FailThrows(p, i)
           \/ \E w \in Workers : Exit(w) \/ Crash(w),
           NEW j \in JobIds
    PROVE  Life(j)!Step
<1>1. \A q \in Ticks : run'[q][j] \in {run[q][j], NoRun}
  <2>1. ASSUME NEW p \in Ticks, NEW i \in JobIds, FailThrows(p, i), NEW q \in Ticks
        PROVE  run'[q][j] \in {run[q][j], NoRun}
    BY <2>1 DEF FailThrows, TypeOK
  <2>2. ASSUME NEW w \in Workers, Exit(w) \/ Crash(w), NEW q \in Ticks
        PROVE  run'[q][j] \in {run[q][j], NoRun}
    BY <2>2 DEF Exit, Crash, ProcessEnds, NoRuns
  <2> QED
    BY <2>1, <2>2
<1>2. UNCHANGED <<job, handedBack>>
  BY DEF FailThrows, Exit, Crash
<1>3. Running(j)' \subseteq Running(j) /\ Running(j) \subseteq Ticks
  BY <1>1 DEF Running
<1>4. CASE Running(j)' = Running(j)
  BY <1>2, <1>4, ItemStays
<1>5. CASE Running(j)' # Running(j)
  <2> DEFINE H == Running(j) \ Running(j)'
  <2>1. H # {} /\ H \in SUBSET Ticks /\ Running(j)' = Running(j) \ H
    BY <1>3, <1>5
  <2> HIDE DEF H
  <2>2. Life(j)!LetGo(H)
    BY <1>2, <2>1 DEF Life!LetGo
  <2> QED
    BY <2>1, <2>2 DEF Life!Step, Life!Next
<1> QED
  BY <1>4, <1>5

\* The other steps are no concern of an item: a run that changes its phase, a wait
\* that is over, a tick that neither claims nor inserts.
LEMMA OthersStay ==
    ASSUME TypeInv, NEW j \in JobIds,
           \/ QuietStep
           \/ \E p \in Ticks, i \in JobIds : AgentReturns(p, i) \/ CompleteThrows(p, i)
           \/ \E i \in JobIds : Elapse(i)
    PROVE  Life(j)!Step
<1>1. CASE QuietStep
  <2>1. UNCHANGED <<job, run, handedBack>>
    BY <1>1, QuietFrame
  <2>2. Running(j)' = Running(j)
    BY <2>1 DEF Running
  <2> QED
    BY <2>1, <2>2, ItemStays
<1>2. ASSUME NEW p \in Ticks, NEW i \in JobIds, AgentReturns(p, i) \/ CompleteThrows(p, i)
      PROVE  Life(j)!Step
  <2>1. UNCHANGED <<job, handedBack>>
    BY <1>2 DEF AgentReturns, CompleteThrows
  <2>2. run[p][i] \in Run /\ run[p][i] # NoRun
    BY <1>2 DEF AgentReturns, CompleteThrows, TypeInv, TypeOK, NoRun
  <2>3. PICK next \in {"completing", "failing"} :
          run' = [run EXCEPT ![p][i] = [run[p][i] EXCEPT !.phase = next]]
    BY <1>2 DEF AgentReturns, CompleteThrows
  <2>4. [run[p][i] EXCEPT !.phase = next] # NoRun
    BY <2>2, RunLemma
  <2>5. \A q \in Ticks : run'[q][j] # NoRun <=> run[q][j] # NoRun
    BY <2>2, <2>3, <2>4 DEF TypeInv, TypeOK
  <2>6. Running(j)' = Running(j)
    BY <2>5 DEF Running
  <2> QED
    BY <2>1, <2>6, ItemStays
<1>3. ASSUME NEW i \in JobIds, Elapse(i)
      PROVE  Life(j)!Step
  <2>1. Running(j)' = Running(j) /\ handedBack' = handedBack
    BY <1>3 DEF Elapse, Running
  <2>2. CASE i = j
    <3>1. /\ job[j] \in Row /\ job'[j] \in Row
          /\ job'[j].status = job[j].status /\ job'[j].retries = job[j].retries
      BY <1>3, <2>2, ElapseLemma
    <3>2. ItemStatus(job'[j]) = ItemStatus(job[j])
      BY <3>1 DEF ItemStatus
    <3> QED
      BY <2>1, <3>1, <3>2, ItemStays, ItemLemma
  <2>3. CASE i # j
    <3>1. job'[j] = job[j]
      BY <1>3, <2>3, ElapseLemma
    <3> QED
      BY <2>1, <3>1, ItemStays
  <2> QED
    BY <2>2, <2>3
<1> QED
  BY <1>1, <1>2, <1>3

LEMMA ItemsInit == Init => \A j \in JobIds : Life(j)!Init
<1> SUFFICES ASSUME Init, NEW j \in JobIds PROVE Life(j)!Init
  OBVIOUS
<1>1. job[j] = Unused \/ (job[j].status = "pending" /\ job[j].retries = 0 /\ job[j] # Unused)
  BY DEF Init, NewRow, Unused
<1>2. ItemStatus(job[j]) \in {"absent", "waiting"} /\ ItemTries(job[j]) = 0
  BY <1>1 DEF ItemStatus, ItemTries, Unused
<1>3. Running(j) = {} /\ handedBack = {}
  BY DEF Init, Running, NoRuns
<1> QED
  BY <1>2, <1>3 DEF Life!Init

LEMMA ItemsStep ==
    TypeInv /\ RunnerInv /\ RunsAfterClaim /\ [Next]_vars => [\A j \in JobIds : Life(j)!Step]_vars
<1> SUFFICES ASSUME TypeInv, RunnerInv, RunsAfterClaim, [Next]_vars, NEW j \in JobIds
             PROVE  Life(j)!Step
  OBVIOUS
<1>1. \A p \in Ticks : Recover(p) => Life(j)!Step
  BY HandBackPutsBack, StuckAreProcessing DEF Recover, TypeInv
<1>2. \A w \in Workers : Release(w) => Life(j)!Step
  BY HandBackPutsBack DEF Release, TypeInv
<1>3. TypeOK
  BY DEF TypeInv
<1> QED
  BY <1>1, <1>2, <1>3, ClaimTakes, EnqueueAdds, RecordSettles, EndLetsGo, OthersStay, NextCases

\* From one job's point of view the queue is a WorkItem, whatever the other jobs,
\* ticks and workers do: one tick takes it at a time, a failure costs one retry,
\* only its runner settles it, and what is settled stays so, until the job is handed
\* back under a live run.
THEOREM JobsAreWorkItemsCorrect == Spec => JobsAreWorkItems
<1>1. TypeInv => TypeOK
  BY DEF TypeInv
<1> QED
  BY <1>1, TypeInit, TypeNext, RunnerInit, RunnerNext, RunsInit, RunsNext, ItemsInit, ItemsStep,
     PTL DEF Spec, JobsAreWorkItems

=============================================================================
