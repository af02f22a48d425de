---------------------------- MODULE StampOutbox -----------------------------
(***************************************************************************)
(* The stamp outbox: writeWithAudit queues the hash of every audit row,    *)
(* drainStamps claims due stamps and anchors them on the chain one after   *)
(* the other, and a manager may send a dead letter back to the queue.      *)
(*                                                                         *)
(* A pass is one call of drainStamps. It ends every tick of a worker, and  *)
(* ticks overlap (see JobQueue), so one worker may have several passes     *)
(* open. The shutdown of a worker waits for its jobs and not for its       *)
(* passes: SIGTERM, exit and crash are one action here. Each database      *)
(* statement is one step; a chain transaction is one step as well, at the  *)
(* moment it lands (or at the moment it fails, if it never does).          *)
(***************************************************************************)
EXTENDS Naturals, FiniteSets

CONSTANTS
    Stamps,     \* rows of stamp_queue (a bound)
    Linked,     \* the stamps that carry a tenant_id
    Workers,    \* worker processes
    Slots,      \* passes one worker may have open at once (a bound)
    Managers,   \* requests to the retry route that may overlap (a bound)
    NoStamp,    \* a manager that has no request open
    Limit,      \* stamps claimed per pass
    MaxRetry,   \* MAX_RETRY
    MaxResets,  \* how often the retry route is called (a bound)
    MaxFaults   \* how often a worker ends or a statement fails (a bound)

ASSUME StampOutboxAssumption ==
    /\ Linked \subseteq Stamps
    /\ NoStamp \notin Stamps
    /\ Limit \in Nat \ {0}
    /\ MaxRetry \in Nat \ {0}
    /\ MaxResets \in Nat
    /\ MaxFaults \in Nat

VARIABLES
    stamp,    \* the stamp_queue table
    batch,    \* batch[p][s]: what pass p knows of stamp s
    anchors,  \* anchors[s]: chain transactions that carry the hash of s
    retrying, \* the stamp each manager's request has read as a dead letter
    resets,   \* calls of the retry route so far
    faults,   \* faults so far
    unsure,   \* stamps whose hash landed while the pass was told otherwise
    resetLate \* stamps reset when they were no dead letter any more

vars == <<stamp, batch, anchors, retrying, resets, faults, unsure, resetLate>>

-----------------------------------------------------------------------------
Passes == Workers \X Slots

Row == [status: {"pending", "processing", "done", "dead_letter"},
        retries: 0..MaxRetry, due: BOOLEAN]
Unused == [status |-> "unused"]

\* `retries` is the retry_count the claim returned.
Item == [phase: {"waiting", "recording", "failing"}, retries: 0..(MaxRetry - 1)]
NotHeld == [phase |-> "none"]
NoBatch == [s \in Stamps |-> NotHeld]

Held(p) == {s \in Stamps : batch[p][s] # NotHeld}
Holders(s) == {p \in Passes : s \in Held(p)}

\* Claimed by a pass that is gone.
Stranded(s) == stamp[s].status = "processing" /\ Holders(s) = {}

Fault == faults < MaxFaults /\ faults' = faults + 1

\* Variants of Due: finished rows again, rows being processed, and the rows
\* that have been tried before forgotten.
DueUnlessDeadLetter ==
    {s \in Stamps : stamp[s].status \in {"pending", "done"} /\ stamp[s].due}
DueOrProcessing == {s \in Stamps : stamp[s].status \in {"pending", "processing"}}
DueNeverTried == {s \in Stamps : stamp[s].status = "pending" /\ stamp[s].retries = 0}

\* status = 'pending' and next_retry_at is null or over
Due == {s \in Stamps : stamp[s].status = "pending" /\ stamp[s].due}

\* Variant of Failed: the last attempt is not counted as the last.
FailedOffByOne(retries) ==
    [status |-> IF retries >= MaxRetry THEN "dead_letter" ELSE "pending",
     retries |-> retries + 1,
     due |-> FALSE]

\* The row after a failed attempt, from the copy the claim returned: a dead
\* letter, or pending with a backoff.
Failed(retries) ==
    LET attempt == retries + 1
    IN  [status |-> IF attempt >= MaxRetry THEN "dead_letter" ELSE "pending",
         retries |-> attempt,
         due |-> attempt >= MaxRetry]

-----------------------------------------------------------------------------
\* The last statement of writeWithAudit, visible when it commits.
Enqueue(s) ==
    /\ stamp[s] = Unused
    /\ stamp' = [stamp EXCEPT ![s] = [status |-> "pending", retries |-> 0, due |-> TRUE]]
    /\ UNCHANGED <<batch, anchors, retrying, resets, faults, unsure, resetLate>>

\* UPDATE ... WHERE id IN (SELECT ... LIMIT ... FOR UPDATE SKIP LOCKED). Which
\* of more rows than the limit is left open (ORDER BY created_at is abstracted).
Claim(p) ==
    /\ batch[p] = NoBatch
    /\ \E S \in (SUBSET Due) \ {{}} :
        /\ \/ S = Due /\ Cardinality(S) <= Limit
           \/ Cardinality(S) = Limit
        /\ stamp' = [s \in Stamps |-> IF s \in S
                                      THEN [stamp[s] EXCEPT !.status = "processing"]
                                      ELSE stamp[s]]
        /\ batch' = [batch EXCEPT ![p] = [s \in Stamps |->
                       IF s \in S THEN [phase |-> "waiting", retries |-> stamp[s].retries]
                       ELSE NotHeld]]
    /\ UNCHANGED <<anchors, retrying, resets, faults, unsure, resetLate>>

\* stampAuditHash for the next stamp of the batch: the transaction is
\* confirmed, or lands although the call threw (one of its two timeouts, a lost
\* answer, a null receipt), or never lands.
Anchor(p, s) ==
    /\ batch[p][s].phase = "waiting"
    /\ \A t \in Held(p) : batch[p][t].phase = "waiting"
    /\ \/ /\ batch' = [batch EXCEPT ![p][s].phase = "recording"]
          /\ anchors' = [anchors EXCEPT ![s] = @ + 1]
          /\ UNCHANGED unsure
       \/ /\ batch' = [batch EXCEPT ![p][s].phase = "failing"]
          /\ anchors' = [anchors EXCEPT ![s] = @ + 1]
          /\ unsure' = unsure \cup {s}
       \/ /\ batch' = [batch EXCEPT ![p][s].phase = "failing"]
          /\ UNCHANGED <<anchors, unsure>>
    /\ UNCHANGED <<stamp, retrying, resets, faults, resetLate>>

\* The update to 'done', by id alone.
RecordDone(p, s) ==
    /\ batch[p][s].phase = "recording"
    /\ stamp' = [stamp EXCEPT ![s].status = "done"]
    /\ batch' = [batch EXCEPT ![p][s] = NotHeld]
    /\ UNCHANGED <<anchors, retrying, resets, faults, unsure, resetLate>>

\* The update to 'done' fails inside the same try as the chain call: the catch
\* treats the stamp as not anchored.
RecordDoneThrows(p, s) ==
    /\ batch[p][s].phase = "recording"
    /\ Fault
    /\ batch' = [batch EXCEPT ![p][s].phase = "failing"]
    /\ unsure' = unsure \cup {s}
    /\ UNCHANGED <<stamp, anchors, retrying, resets, resetLate>>

\* The update to 'pending' or 'dead_letter', by id alone.
RecordFailure(p, s) ==
    /\ batch[p][s].phase = "failing"
    /\ stamp' = [stamp EXCEPT ![s] = Failed(batch[p][s].retries)]
    /\ batch' = [batch EXCEPT ![p][s] = NotHeld]
    /\ UNCHANGED <<anchors, retrying, resets, faults, unsure, resetLate>>

\* That update fails in the catch, where nothing handles it: the span rejects
\* and the pass drops the rest of its batch.
RecordFailureThrows(p, s) ==
    /\ batch[p][s].phase = "failing"
    /\ Fault
    /\ batch' = [batch EXCEPT ![p] = NoBatch]
    /\ UNCHANGED <<stamp, anchors, retrying, resets, unsure, resetLate>>

\* A worker is stopped or crashes, and starts again.
WorkerEnds(w) ==
    /\ Fault
    /\ batch' = [p \in Passes |-> IF p[1] = w THEN NoBatch ELSE batch[p]]
    /\ UNCHANGED <<stamp, anchors, retrying, resets, unsure, resetLate>>

\* POST /api/stamps/[id]/retry reads the status, joined with the tenant...
RetryCheck(m, s) ==
    /\ retrying[m] = NoStamp
    /\ resets < MaxResets
    /\ s \in Linked
    /\ stamp[s].status = "dead_letter"
    /\ retrying' = [retrying EXCEPT ![m] = s]
    /\ resets' = resets + 1
    /\ UNCHANGED <<stamp, batch, anchors, faults, unsure, resetLate>>

\* ... and updates by id alone.
RetryReset(m) ==
    /\ retrying[m] # NoStamp
    /\ LET s == retrying[m]
       IN  /\ stamp' = [stamp EXCEPT ![s] = [status |-> "pending", retries |-> 0, due |-> TRUE]]
           /\ resetLate' = IF stamp[s].status = "dead_letter" THEN resetLate
                           ELSE resetLate \cup {s}
    /\ retrying' = [retrying EXCEPT ![m] = NoStamp]
    /\ UNCHANGED <<batch, anchors, resets, faults, unsure>>

BackoffElapses(s) ==
    /\ stamp[s].status = "pending"
    /\ ~stamp[s].due
    /\ stamp' = [stamp EXCEPT ![s].due = TRUE]
    /\ UNCHANGED <<batch, anchors, retrying, resets, faults, unsure, resetLate>>

-----------------------------------------------------------------------------
Init ==
    /\ stamp = [s \in Stamps |-> Unused]
    /\ batch = [p \in Passes |-> NoBatch]
    /\ anchors = [s \in Stamps |-> 0]
    /\ retrying = [m \in Managers |-> NoStamp]
    /\ resets = 0
    /\ faults = 0
    /\ unsure = {}
    /\ resetLate = {}

PassStep(p) ==
    \/ Claim(p)
    \/ \E s \in Stamps :
        \/ Anchor(p, s)
        \/ RecordDone(p, s)
        \/ RecordDoneThrows(p, s)
        \/ RecordFailure(p, s)
        \/ RecordFailureThrows(p, s)

Next ==
    \/ \E s \in Stamps : Enqueue(s) \/ BackoffElapses(s)
    \/ \E p \in Passes : PassStep(p)
    \/ \E w \in Workers : WorkerEnds(w)
    \/ \E m \in Managers : RetryReset(m) \/ \E s \in Stamps : RetryCheck(m, s)

Spec == Init /\ [][Next]_vars

\* Every worker keeps polling, a chain call ends (its timeouts see to that) and
\* time passes. Nobody is obliged to retry a dead letter.
FairSpec ==
    /\ Spec
    /\ \A p \in Passes : WF_vars(PassStep(p))
    /\ \A s \in Stamps : WF_vars(BackoffElapses(s))

-----------------------------------------------------------------------------
(* Properties *)

TypeOK ==
    /\ stamp \in [Stamps -> Row \cup {Unused}]
    /\ batch \in [Passes -> [Stamps -> Item \cup {NotHeld}]]
    /\ anchors \in [Stamps -> Nat]
    /\ retrying \in [Managers -> Stamps \cup {NoStamp}]
    /\ resets \in 0..MaxResets
    /\ faults \in 0..MaxFaults
    /\ unsure \subseteq Stamps
    /\ resetLate \subseteq Stamps

\* A stamp is in the batch of one pass at a time, over the overlapping ticks of
\* all workers, unless the retry route reset it after it had left the dead
\* letters (its check and its update are two statements).
OneHolder ==
    \A s \in Stamps \ resetLate : \A p, q \in Holders(s) : p = q

\* What the queue says of a hash is what the chain says: done means anchored
\* exactly once, pending and dead letter mean not anchored. The two exceptions
\* are a transaction that landed although its pass was told it failed, and a
\* late reset; a crash, at whatever step, is none.
StatusMatchesChain ==
    \A s \in Stamps \ (unsure \cup resetLate) :
        /\ stamp[s].status = "done" => anchors[s] = 1
        /\ stamp[s].status \in {"unused", "pending", "dead_letter"} => anchors[s] = 0

\* Every queued stamp is anchored or becomes a dead letter, through failures,
\* backoffs and resets; the only way out is a pass that ended without recording
\* what became of its batch.
StampsSettle ==
    \A s \in Stamps :
        stamp[s].status = "pending" ~>
            stamp[s].status \in {"done", "dead_letter"} \/ Stranded(s)

\* worker.ts:33: resetStaleJobs is "Called on worker startup to recover from
\* unclean shutdowns". Nothing calls it: the stamps of a pass that ended stay
\* "processing".
NeverStuckProcessing ==
    \A s \in Stamps : stamp[s].status = "processing" ~> stamp[s].status # "processing"
-----------------------------------------------------------------------------
(* Each stamp is a work item *)

ItemStatus(row) ==
    CASE row.status = "unused" -> "absent"
      [] row.status = "pending" -> "waiting"
      [] row.status = "processing" -> "taken"
      [] row.status = "done" -> "done"
      [] row.status = "dead_letter" -> "dropped"
ItemTries(row) == IF row = Unused THEN 0 ELSE row.retries

Life(s) == INSTANCE WorkItem WITH
    Hands <- Passes, MaxTries <- MaxRetry, Returns <- {"revived"},
    status <- ItemStatus(stamp[s]),
    tries <- ItemTries(stamp[s]),
    holders <- Holders(s),
    slipped <- s \in resetLate

\* Seen from one stamp, the outbox is a WorkItem that is revived by the retry
\* route and never put back: a failure costs one try, only the pass that holds a
\* stamp settles it, and what is anchored or dead stays so, unless a reset came
\* when it was no dead letter any more.
StampsAreWorkItems ==
    /\ \A s \in Stamps : Life(s)!Init
    /\ [][\A s \in Stamps : Life(s)!Step]_vars
=============================================================================
