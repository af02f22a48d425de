------------------------- MODULE StampOutboxProofs --------------------------
(***************************************************************************)
(* Theorems about StampOutbox for any stamps, workers, overlapping passes  *)
(* and managers, any limits and any number of faults and resets.           *)
(***************************************************************************)
EXTENDS StampOutbox, TLAPS

-----------------------------------------------------------------------------
(* Rows *)

LEMMA FailedLemma ==
    ASSUME NEW n \in 0..(MaxRetry - 1)
    PROVE  /\ Failed(n) \in Row
           /\ Failed(n).status \in {"pending", "dead_letter"}
           /\ Failed(n).status = "pending" => Failed(n).retries < MaxRetry
<1>1. MaxRetry \in Nat
  BY StampOutboxAssumption
<1>2. n + 1 \in 0..MaxRetry /\ (n + 1 >= MaxRetry) \in BOOLEAN
  BY <1>1
<1>3. CASE n + 1 >= MaxRetry
  BY <1>2, <1>3 DEF Failed, Row
<1>4. CASE ~(n + 1 >= MaxRetry)
  <2>1. n + 1 < MaxRetry
    BY <1>1, <1>4
  <2> QED
    BY <1>2, <1>4, <2>1 DEF Failed, Row
<1> QED
  BY <1>3, <1>4

\* A row that is queued or reset, claimed, finished, or due again.
LEMMA NewRowLemma ==
    [status |-> "pending", retries |-> 0, due |-> TRUE] \in Row /\ 0 < MaxRetry
BY StampOutboxAssumption DEF Row

LEMMA RowLemma ==
    ASSUME NEW r \in Row
    PROVE  /\ r # Unused
           /\ [r EXCEPT !.status = "processing"] \in Row
           /\ [r EXCEPT !.status = "processing"].status = "processing"
           /\ [r EXCEPT !.status = "done"] \in Row
           /\ [r EXCEPT !.status = "done"].status = "done"
           /\ [r EXCEPT !.due = TRUE] \in Row
           /\ [r EXCEPT !.due = TRUE].status = r.status
           /\ [r EXCEPT !.due = TRUE].retries = r.retries
<1>1. r # Unused
  BY DEF Row, Unused
<1>2. /\ [r EXCEPT !.status = "processing"] \in Row
      /\ [r EXCEPT !.status = "processing"].status = "processing"
  BY DEF Row
<1>3. /\ [r EXCEPT !.status = "done"] \in Row
      /\ [r EXCEPT !.status = "done"].status = "done"
  BY DEF Row
<1>4. /\ [r EXCEPT !.due = TRUE] \in Row
      /\ [r EXCEPT !.due = TRUE].status = r.status
      /\ [r EXCEPT !.due = TRUE].retries = r.retries
  BY DEF Row
<1> QED
  BY <1>1, <1>2, <1>3, <1>4

LEMMA ItemLemma ==
    /\ \A n \in 0..(MaxRetry - 1) : [phase |-> "waiting", retries |-> n] \in Item
    /\ \A i \in Item : /\ i # NotHeld
                       /\ i.retries \in 0..(MaxRetry - 1)
                       /\ [i EXCEPT !.phase = "recording"] \in Item
                       /\ [i EXCEPT !.phase = "failing"] \in Item
                       /\ [i EXCEPT !.phase = "recording"].phase = "recording"
                       /\ [i EXCEPT !.phase = "failing"].phase = "failing"
BY DEF Item, NotHeld

-----------------------------------------------------------------------------
(* What each step does to a row and to what a pass knows of it *)

\* A row that can be claimed has a try left, and a held row exists.
TypeInv ==
    /\ TypeOK
    /\ \A s \in Stamps : stamp[s].status = "pending" => stamp[s].retries < MaxRetry
    /\ \A p \in Passes, s \in Stamps : batch[p][s] # NotHeld => stamp[s] # Unused

LEMMA FaultLemma ==
    ASSUME TypeOK, Fault
    PROVE  faults' \in 0..MaxFaults
BY StampOutboxAssumption DEF TypeOK, Fault

\* Pass p takes the stamps of S and no other.
Takes(p, S) ==
    /\ stamp' \in [Stamps -> Row \cup {Unused}]
    /\ batch' \in [Passes -> [Stamps -> Item \cup {NotHeld}]]
    /\ \A s \in S : /\ stamp[s].status = "pending"
                    /\ stamp'[s].status = "processing"
                    /\ stamp'[s] # Unused
                    /\ batch'[p][s].phase = "waiting"
                    /\ batch'[p][s] # NotHeld
    /\ \A s \in Stamps \ S : stamp'[s] = stamp[s] /\ batch'[p][s] = NotHeld
    /\ \A q \in Passes \ {p} : batch'[q] = batch[q]
    /\ batch[p] = NoBatch

LEMMA ClaimLemma ==
    ASSUME TypeInv, NEW p \in Passes, Claim(p)
    PROVE  \E S \in SUBSET Stamps : Takes(p, S)
<1>0. PICK S \in (SUBSET Due) \ {{}} :
      /\ stamp' = [s \in Stamps |-> IF s \in S
                                    THEN [stamp[s] EXCEPT !.status = "processing"]
                                    ELSE stamp[s]]
      /\ batch' = [batch EXCEPT ![p] = [s \in Stamps |->
                     IF s \in S THEN [phase |-> "waiting", retries |-> stamp[s].retries]
                     ELSE NotHeld]]
  BY DEF Claim
<1>1. \A s \in S : /\ s \in Stamps
                   /\ stamp[s].status = "pending"
                   /\ stamp[s] \in Row
                   /\ stamp[s].retries \in 0..(MaxRetry - 1)
  <2>1. \A s \in S : s \in Stamps /\ stamp[s].status = "pending"
    BY DEF Due
  <2>2. \A s \in S : stamp[s] \in Row
    BY <2>1 DEF TypeInv, TypeOK, Unused
  <2>3. \A r \in Row : r.retries \in 0..MaxRetry
    BY DEF Row
  <2> QED
    BY <2>1, <2>2, <2>3, StampOutboxAssumption DEF TypeInv
<1>2. stamp' \in [Stamps -> Row \cup {Unused}]
  BY <1>0, <1>1, RowLemma DEF TypeInv, TypeOK
<1>3. [s \in Stamps |-> IF s \in S THEN [phase |-> "waiting", retries |-> stamp[s].retries]
                        ELSE NotHeld] \in [Stamps -> Item \cup {NotHeld}]
  BY <1>1, ItemLemma
<1>4. batch' \in [Passes -> [Stamps -> Item \cup {NotHeld}]]
  BY <1>0, <1>3 DEF TypeInv, TypeOK
<1>5. \A s \in S : /\ stamp'[s] = [stamp[s] EXCEPT !.status = "processing"]
                   /\ batch'[p][s] = [phase |-> "waiting", retries |-> stamp[s].retries]
  BY <1>0, <1>1 DEF TypeInv, TypeOK
<1>6. \A s \in Stamps \ S : stamp'[s] = stamp[s] /\ batch'[p][s] = NotHeld
  BY <1>0 DEF TypeInv, TypeOK
<1>7. \A q \in Passes \ {p} : batch'[q] = batch[q]
  BY <1>0 DEF TypeInv, TypeOK
<1>8. \A s \in S : /\ stamp'[s].status = "processing"
                   /\ stamp'[s] # Unused
                   /\ batch'[p][s].phase = "waiting"
                   /\ batch'[p][s] # NotHeld
  <2> SUFFICES ASSUME NEW s \in S
               PROVE  /\ stamp'[s].status = "processing"
                      /\ stamp'[s] # Unused
                      /\ batch'[p][s].phase = "waiting"
                      /\ batch'[p][s] # NotHeld
    OBVIOUS
  <2>1. stamp'[s] = [stamp[s] EXCEPT !.status = "processing"] /\ stamp[s] \in Row
    BY <1>1, <1>5
  <2>2. stamp'[s].status = "processing" /\ stamp'[s] # Unused
    BY <2>1, RowLemma
  <2>3. batch'[p][s] = [phase |-> "waiting", retries |-> stamp[s].retries]
    BY <1>5
  <2>4. batch'[p][s].phase = "waiting" /\ batch'[p][s] # NotHeld
    BY <2>3 DEF NotHeld
  <2> QED
    BY <2>2, <2>4
<1>9. S \in SUBSET Stamps /\ batch[p] = NoBatch
  BY <1>1 DEF Claim
<1> QED
  BY <1>1, <1>2, <1>4, <1>6, <1>7, <1>8, <1>9 DEF Takes

\* A step that changes what one pass knows of one stamp.
LEMMA SetItemLemma ==
    ASSUME TypeOK, NEW p \in Passes, NEW s \in Stamps, NEW i \in Item \cup {NotHeld},
           batch' = [batch EXCEPT ![p][s] = i]
    PROVE  /\ batch' \in [Passes -> [Stamps -> Item \cup {NotHeld}]]
           /\ batch'[p][s] = i
           /\ \A q \in Passes, t \in Stamps : q # p \/ t # s => batch'[q][t] = batch[q][t]
BY DEF TypeOK

LEMMA SetPhaseLemma ==
    ASSUME TypeOK, NEW p \in Passes, NEW s \in Stamps, batch[p][s] # NotHeld,
           NEW x \in {"recording", "failing"},
           batch' = [batch EXCEPT ![p][s].phase = x]
    PROVE  /\ batch' \in [Passes -> [Stamps -> Item \cup {NotHeld}]]
           /\ batch'[p][s].phase = x
           /\ batch'[p][s] # NotHeld
           /\ \A q \in Passes, t \in Stamps : q # p \/ t # s => batch'[q][t] = batch[q][t]
<1> DEFINE i == [batch[p][s] EXCEPT !.phase = x]
<1>1. batch[p][s] \in Item
  BY DEF TypeOK
<1>2. i \in Item /\ i.phase = x /\ i # NotHeld
  BY <1>1, ItemLemma
<1>3. batch' = [batch EXCEPT ![p][s] = i]
  OBVIOUS
<1> HIDE DEF i
<1> QED
  BY <1>2, <1>3 DEF TypeOK

LEMMA AnchorLemma ==
    ASSUME TypeOK, NEW p \in Passes, NEW s \in Stamps, Anchor(p, s)
    PROVE  /\ batch' \in [Passes -> [Stamps -> Item \cup {NotHeld}]]
           /\ batch[p][s].phase = "waiting"
           /\ batch[p][s] # NotHeld
           /\ batch'[p][s] # NotHeld
           /\ \A q \in Passes, t \in Stamps : q # p \/ t # s => batch'[q][t] = batch[q][t]
           /\ anchors' \in [Stamps -> Nat]
           /\ \A t \in Stamps \ {s} : anchors'[t] = anchors[t]
           /\ unsure \subseteq unsure' /\ unsure' \subseteq Stamps
           /\ \/ batch'[p][s].phase = "recording" /\ anchors'[s] = anchors[s] + 1
              \/ batch'[p][s].phase = "failing" /\ anchors'[s] = anchors[s]
              \/ batch'[p][s].phase = "failing" /\ s \in unsure'
<1>1. batch[p][s].phase = "waiting" /\ batch[p][s] # NotHeld
  BY DEF Anchor, NotHeld
<1>2. CASE /\ batch' = [batch EXCEPT ![p][s].phase = "recording"]
           /\ anchors' = [anchors EXCEPT ![s] = @ + 1]
           /\ UNCHANGED unsure
  <2>1. /\ anchors' \in [Stamps -> Nat]
        /\ anchors'[s] = anchors[s] + 1
        /\ \A t \in Stamps \ {s} : anchors'[t] = anchors[t]
    BY <1>2 DEF TypeOK
  <2> QED
    BY <1>1, <1>2, <2>1, SetPhaseLemma DEF TypeOK
<1>3. CASE /\ batch' = [batch EXCEPT ![p][s].phase = "failing"]
           /\ anchors' = [anchors EXCEPT ![s] = @ + 1]
           /\ unsure' = unsure \cup {s}
  <2>1. /\ anchors' \in [Stamps -> Nat]
        /\ \A t \in Stamps \ {s} : anchors'[t] = anchors[t]
    BY <1>3 DEF TypeOK
  <2> QED
    BY <1>1, <1>3, <2>1, SetPhaseLemma DEF TypeOK
<1>4. CASE /\ batch' = [batch EXCEPT ![p][s].phase = "failing"]
           /\ UNCHANGED <<anchors, unsure>>
  BY <1>1, <1>4, SetPhaseLemma DEF TypeOK
<1> QED
  BY <1>2, <1>3, <1>4 DEF Anchor

LEMMA RecordDoneLemma ==
    ASSUME TypeInv, NEW p \in Passes, NEW s \in Stamps, RecordDone(p, s)
    PROVE  /\ batch' \in [Passes -> [Stamps -> Item \cup {NotHeld}]]
           /\ batch[p][s].phase = "recording"
           /\ batch[p][s] # NotHeld
           /\ batch'[p][s] = NotHeld
           /\ \A q \in Passes, t \in Stamps : q # p \/ t # s => batch'[q][t] = batch[q][t]
           /\ stamp' \in [Stamps -> Row \cup {Unused}]
           /\ stamp'[s].status = "done"
           /\ stamp'[s] # Unused
           /\ \A t \in Stamps \ {s} : stamp'[t] = stamp[t]
<1>1. batch[p][s].phase = "recording" /\ batch[p][s] # NotHeld
  BY DEF RecordDone, NotHeld
<1>2. stamp[s] \in Row
  BY <1>1 DEF TypeInv, TypeOK
<1> DEFINE r == [stamp[s] EXCEPT !.status = "done"]
<1>3. r \in Row /\ r.status = "done" /\ r # Unused
  BY <1>2, RowLemma
<1>4. stamp' = [stamp EXCEPT ![s] = r] /\ batch' = [batch EXCEPT ![p][s] = NotHeld]
  BY DEF RecordDone
<1> HIDE DEF r
<1> QED
  BY <1>1, <1>3, <1>4, SetItemLemma DEF TypeInv, TypeOK

LEMMA RecordFailureLemma ==
    ASSUME TypeInv, NEW p \in Passes, NEW s \in Stamps, RecordFailure(p, s)
    PROVE  /\ batch' \in [Passes -> [Stamps -> Item \cup {NotHeld}]]
           /\ batch[p][s].phase = "failing"
           /\ batch[p][s] # NotHeld
           /\ batch'[p][s] = NotHeld
           /\ \A q \in Passes, t \in Stamps : q # p \/ t # s => batch'[q][t] = batch[q][t]
           /\ stamp' \in [Stamps -> Row \cup {Unused}]
           /\ stamp'[s].status \in {"pending", "dead_letter"}
           /\ stamp'[s].status = "pending" => stamp'[s].retries < MaxRetry
           /\ stamp'[s] # Unused
           /\ \A t \in Stamps \ {s} : stamp'[t] = stamp[t]
<1>1. batch[p][s].phase = "failing" /\ batch[p][s] # NotHeld
  BY DEF RecordFailure, NotHeld
<1>2. batch[p][s].retries \in 0..(MaxRetry - 1)
  <2>1. batch[p][s] \in Item
    BY <1>1 DEF TypeInv, TypeOK
  <2> QED
    BY <2>1, ItemLemma
<1> DEFINE r == Failed(batch[p][s].retries)
<1>3. /\ r \in Row
      /\ r.status \in {"pending", "dead_letter"}
      /\ r.status = "pending" => r.retries < MaxRetry
  BY <1>2, FailedLemma
<1>4. stamp' = [stamp EXCEPT ![s] = r] /\ batch' = [batch EXCEPT ![p][s] = NotHeld]
  BY DEF RecordFailure
<1> HIDE DEF r
<1>5. r # Unused
  BY <1>3, RowLemma
<1> QED
  BY <1>1, <1>3, <1>4, <1>5, SetItemLemma DEF TypeInv, TypeOK

\* Steps after which passes know less, and no row has changed.
DropStep ==
    \/ \E p \in Passes, s \in Stamps : RecordFailureThrows(p, s)
    \/ \E w \in Workers : WorkerEnds(w)

LEMMA DropLemma ==
    ASSUME TypeOK, DropStep
    PROVE  /\ batch' \in [Passes -> [Stamps -> Item \cup {NotHeld}]]
           /\ \A q \in Passes, t \in Stamps : batch'[q][t] \in {batch[q][t], NotHeld}
           /\ faults' \in 0..MaxFaults
           /\ UNCHANGED <<stamp, anchors, retrying, resets, unsure, resetLate>>
<1>1. NoBatch \in [Stamps -> Item \cup {NotHeld}] /\ \A t \in Stamps : NoBatch[t] = NotHeld
  BY DEF NoBatch
<1>2. ASSUME NEW p \in Passes, NEW s \in Stamps, RecordFailureThrows(p, s)
      PROVE  /\ batch' \in [Passes -> [Stamps -> Item \cup {NotHeld}]]
             /\ \A q \in Passes, t \in Stamps : batch'[q][t] \in {batch[q][t], NotHeld}
  <2>1. batch' = [batch EXCEPT ![p] = NoBatch]
    BY <1>2 DEF RecordFailureThrows
  <2> QED
    BY <1>1, <2>1 DEF TypeOK
<1>3. ASSUME NEW w \in Workers, WorkerEnds(w)
      PROVE  /\ batch' \in [Passes -> [Stamps -> Item \cup {NotHeld}]]
             /\ \A q \in Passes, t \in Stamps : batch'[q][t] \in {batch[q][t], NotHeld}
  <2>1. batch' = [p \in Passes |-> IF p[1] = w THEN NoBatch ELSE batch[p]]
    BY <1>3 DEF WorkerEnds
  <2> QED
    BY <1>1, <2>1 DEF TypeOK
<1>4. faults' \in 0..MaxFaults /\ UNCHANGED <<stamp, anchors, retrying, resets, unsure, resetLate>>
  BY FaultLemma DEF DropStep, RecordFailureThrows, WorkerEnds
<1> QED
  BY <1>2, <1>3, <1>4 DEF DropStep

\* Steps that change one row, the retry route's reset first.
LEMMA ResetLemma ==
    ASSUME TypeOK, NEW m \in Managers, RetryReset(m)
    PROVE  \E s \in Stamps :
             /\ stamp' \in [Stamps -> Row \cup {Unused}]
             /\ stamp'[s].status = "pending"
             /\ stamp'[s].retries < MaxRetry
             /\ stamp'[s] # Unused
             /\ \A t \in Stamps \ {s} : stamp'[t] = stamp[t]
             /\ resetLate' = IF stamp[s].status = "dead_letter" THEN resetLate
                             ELSE resetLate \cup {s}
             /\ retrying' \in [Managers -> Stamps \cup {NoStamp}]
             /\ UNCHANGED <<batch, anchors, resets, faults, unsure>>
<1> DEFINE s == retrying[m]
           r == [status |-> "pending", retries |-> 0, due |-> TRUE]
<1>1. s \in Stamps
  BY DEF RetryReset, TypeOK
<1>2. r \in Row /\ r.status = "pending" /\ r.retries < MaxRetry /\ r # Unused
  BY NewRowLemma, RowLemma
<1>3. /\ stamp' = [stamp EXCEPT ![s] = r]
      /\ resetLate' = IF stamp[s].status = "dead_letter" THEN resetLate
                      ELSE resetLate \cup {s}
      /\ retrying' = [retrying EXCEPT ![m] = NoStamp]
      /\ UNCHANGED <<batch, anchors, resets, faults, unsure>>
  BY DEF RetryReset
<1> HIDE DEF r
<1> QED
  BY <1>1, <1>2, <1>3 DEF TypeOK

LEMMA EnqueueLemma ==
    ASSUME TypeOK, NEW s \in Stamps, Enqueue(s)
    PROVE  /\ stamp' \in [Stamps -> Row \cup {Unused}]
           /\ stamp[s].status = "unused"
           /\ stamp'[s].status = "pending"
           /\ stamp'[s].retries < MaxRetry
           /\ stamp'[s] # Unused
           /\ \A t \in Stamps \ {s} : stamp'[t] = stamp[t]
<1> DEFINE r == [status |-> "pending", retries |-> 0, due |-> TRUE]
<1>1. r \in Row /\ r.status = "pending" /\ r.retries < MaxRetry /\ r # Unused
  BY NewRowLemma, RowLemma
<1>2. stamp' = [stamp EXCEPT ![s] = r] /\ stamp[s].status = "unused"
  BY DEF Enqueue, Unused
<1> HIDE DEF r
<1> QED
  BY <1>1, <1>2 DEF TypeOK

LEMMA BackoffLemma ==
    ASSUME TypeOK, NEW s \in Stamps, BackoffElapses(s)
    PROVE  /\ stamp' \in [Stamps -> Row \cup {Unused}]
           /\ stamp'[s].status = stamp[s].status
           /\ stamp'[s].retries = stamp[s].retries
           /\ stamp'[s] # Unused
           /\ \A t \in Stamps \ {s} : stamp'[t] = stamp[t]
<1> DEFINE r == [stamp[s] EXCEPT !.due = TRUE]
<1>1. stamp[s] \in Row
  BY DEF BackoffElapses, TypeOK, Unused
<1>2. r \in Row /\ r.status = stamp[s].status /\ r.retries = stamp[s].retries
  BY <1>1, RowLemma
<1>3. stamp' = [stamp EXCEPT ![s] = r]
  BY DEF BackoffElapses
<1> HIDE DEF r
<1>4. r # Unused
  BY <1>2, RowLemma
<1> QED
  BY <1>2, <1>3, <1>4 DEF TypeOK

\* Every step.
LEMMA NextCases ==
    [Next]_vars <=>
        \/ \E s \in Stamps : Enqueue(s) \/ BackoffElapses(s)
        \/ \E p \in Passes : Claim(p)
        \/ \E p \in Passes, s \in Stamps :
              Anchor(p, s) \/ RecordDone(p, s) \/ RecordDoneThrows(p, s) \/ RecordFailure(p, s)
        \/ DropStep
        \/ \E m \in Managers : RetryReset(m)
        \/ \E m \in Managers, s \in Stamps : RetryCheck(m, s)
        \/ UNCHANGED vars
BY DEF Next, PassStep, DropStep

-----------------------------------------------------------------------------
(* Type correctness *)

LEMMA TypeInit == Init => TypeInv
<1> SUFFICES ASSUME Init PROVE TypeInv
  OBVIOUS
<1>1. /\ \A s \in Stamps : stamp[s].status = "unused"
      /\ \A p \in Passes, s \in Stamps : batch[p][s] = NotHeld
  BY DEF Init, Unused, NoBatch
<1>2. TypeOK
  BY StampOutboxAssumption DEF Init, TypeOK, NoBatch
<1> QED
  BY <1>1, <1>2 DEF TypeInv

LEMMA TypeNext == TypeInv /\ [Next]_vars => TypeInv'
<1> SUFFICES ASSUME TypeInv, [Next]_vars PROVE TypeInv'
  OBVIOUS
<1>1. ASSUME NEW s \in Stamps, Enqueue(s) PROVE TypeInv'
  BY <1>1, EnqueueLemma DEF Enqueue, TypeInv, TypeOK
<1>2. ASSUME NEW s \in Stamps, BackoffElapses(s) PROVE TypeInv'
  BY <1>2, BackoffLemma DEF BackoffElapses, TypeInv, TypeOK
<1>3. ASSUME NEW p \in Passes, Claim(p) PROVE TypeInv'
  <2>1. UNCHANGED <<anchors, retrying, resets, faults, unsure, resetLate>>
    BY <1>3 DEF Claim
  <2> PICK S \in SUBSET Stamps : Takes(p, S)
    BY <1>3, ClaimLemma
  <2> QED
    BY <2>1 DEF Takes, TypeInv, TypeOK
<1>4. ASSUME NEW p \in Passes, NEW s \in Stamps, Anchor(p, s) PROVE TypeInv'
  <2>1. UNCHANGED <<stamp, retrying, resets, faults, resetLate>>
    BY <1>4 DEF Anchor
  <2> QED
    BY <1>4, <2>1, AnchorLemma DEF TypeInv, TypeOK
<1>5. ASSUME NEW p \in Passes, NEW s \in Stamps, RecordDone(p, s) PROVE TypeInv'
  <2>1. UNCHANGED <<anchors, retrying, resets, faults, unsure, resetLate>>
    BY <1>5 DEF RecordDone
  <2>2. TypeOK'
    BY <1>5, <2>1, RecordDoneLemma DEF TypeInv, TypeOK
  <2>3. \A t \in Stamps : stamp'[t].status = "pending" => stamp'[t].retries < MaxRetry
    BY <1>5, RecordDoneLemma DEF TypeInv
  <2>4. \A q \in Passes, t \in Stamps : batch'[q][t] # NotHeld => stamp'[t] # Unused
    BY <1>5, RecordDoneLemma DEF TypeInv
  <2> QED
    BY <2>2, <2>3, <2>4 DEF TypeInv
<1>6. ASSUME NEW p \in Passes, NEW s \in Stamps, RecordFailure(p, s) PROVE TypeInv'
  <2>1. UNCHANGED <<anchors, retrying, resets, faults, unsure, resetLate>>
    BY <1>6 DEF RecordFailure
  <2>2. TypeOK'
    BY <1>6, <2>1, RecordFailureLemma DEF TypeInv, TypeOK
  <2>3. \A t \in Stamps : stamp'[t].status = "pending" => stamp'[t].retries < MaxRetry
    BY <1>6, RecordFailureLemma DEF TypeInv
  <2>4. \A q \in Passes, t \in Stamps : batch'[q][t] # NotHeld => stamp'[t] # Unused
    BY <1>6, RecordFailureLemma DEF TypeInv
  <2> QED
    BY <2>2, <2>3, <2>4 DEF TypeInv
<1>7. ASSUME NEW p \in Passes, NEW s \in Stamps, RecordDoneThrows(p, s) PROVE TypeInv'
  <2>1. /\ batch[p][s] # NotHeld
        /\ batch' = [batch EXCEPT ![p][s].phase = "failing"]
        /\ unsure' = unsure \cup {s}
        /\ UNCHANGED <<stamp, anchors, retrying, resets, resetLate>>
        /\ faults' \in 0..MaxFaults
    BY <1>7, FaultLemma DEF RecordDoneThrows, NotHeld, TypeInv
  <2>2. batch[p][s] \in Item
    BY <2>1 DEF TypeInv, TypeOK
  <2>3. [batch[p][s] EXCEPT !.phase = "failing"] \in Item
    BY <2>2, ItemLemma
  <2>4. /\ batch' \in [Passes -> [Stamps -> Item \cup {NotHeld}]]
        /\ \A q \in Passes, t \in Stamps : q # p \/ t # s => batch'[q][t] = batch[q][t]
    BY <2>1, <2>3 DEF TypeInv, TypeOK
  <2> QED
    BY <2>1, <2>4 DEF TypeInv, TypeOK
<1>8. CASE DropStep
  BY <1>8, DropLemma DEF TypeInv, TypeOK
<1>9. ASSUME NEW m \in Managers, RetryReset(m) PROVE TypeInv'
  BY <1>9, ResetLemma DEF TypeInv, TypeOK
<1>10. ASSUME NEW m \in Managers, NEW s \in Stamps, RetryCheck(m, s) PROVE TypeInv'
  BY <1>10, StampOutboxAssumption DEF RetryCheck, TypeInv, TypeOK
<1>11. CASE UNCHANGED vars
  BY <1>11 DEF vars, TypeInv, TypeOK
<1> QED
  BY <1>1, <1>2, <1>3, <1>4, <1>5, <1>6, <1>7, <1>8, <1>9, <1>10, <1>11, NextCases

\* The queue, the passes and the retry route keep their state well typed: no
\* retry count passes MAX_RETRY, although each is written from a pass's copy.
THEOREM TypeCorrect == Spec => []TypeOK
<1>1. TypeInv => TypeOK
  BY DEF TypeInv
<1> QED
  BY TypeInit, TypeNext, <1>1, PTL DEF Spec

-----------------------------------------------------------------------------
(* One holder, and a queue that agrees with the chain *)

\* A stamp never reset late is held by one pass, while it is processing.
HolderInv ==
    \A s \in Stamps \ resetLate :
        /\ \A p, q \in Passes : batch[p][s] # NotHeld /\ batch[q][s] # NotHeld => p = q
        /\ \A p \in Passes : batch[p][s] # NotHeld => stamp[s].status = "processing"

\* What the row says of a hash, and what its holder is about to record, is what
\* the chain holds.
Agrees(s) ==
    /\ stamp[s].status = "done" => anchors[s] = 1
    /\ stamp[s].status \in {"unused", "pending", "dead_letter"} => anchors[s] = 0
    /\ \A p \in Passes :
         /\ batch[p][s].phase \in {"waiting", "failing"} => anchors[s] = 0
         /\ batch[p][s].phase = "recording" => anchors[s] = 1

ChainInv == \A s \in Stamps \ (unsure \cup resetLate) : Agrees(s)

LEMMA OutboxInit == Init => HolderInv /\ ChainInv
<1> SUFFICES ASSUME Init PROVE HolderInv /\ ChainInv
  OBVIOUS
<1>1. \A p \in Passes, s \in Stamps : batch[p][s] = NotHeld /\ batch[p][s].phase = "none"
  BY DEF Init, NoBatch, NotHeld
<1>2. \A s \in Stamps : stamp[s].status = "unused" /\ anchors[s] = 0
  BY DEF Init, Unused
<1> QED
  BY <1>1, <1>2 DEF HolderInv, ChainInv, Agrees

LEMMA OutboxNext == TypeInv /\ HolderInv /\ ChainInv /\ [Next]_vars => HolderInv' /\ ChainInv'
<1> SUFFICES ASSUME TypeInv, HolderInv, ChainInv, [Next]_vars PROVE HolderInv' /\ ChainInv'
  OBVIOUS
<1>0. NotHeld.phase = "none"
  BY DEF NotHeld
<1>1. ASSUME NEW s \in Stamps, Enqueue(s) PROVE HolderInv' /\ ChainInv'
  <2>1. UNCHANGED <<batch, anchors, unsure, resetLate>>
    BY <1>1 DEF Enqueue
  <2> QED
    BY <1>1, <2>1, EnqueueLemma DEF TypeInv, HolderInv, ChainInv, Agrees
<1>2. ASSUME NEW s \in Stamps, BackoffElapses(s) PROVE HolderInv' /\ ChainInv'
  <2>1. UNCHANGED <<batch, anchors, unsure, resetLate>>
    BY <1>2 DEF BackoffElapses
  <2> QED
    BY <1>2, <2>1, BackoffLemma DEF TypeInv, HolderInv, ChainInv, Agrees
<1>3. ASSUME NEW p \in Passes, Claim(p) PROVE HolderInv' /\ ChainInv'
  <2>1. UNCHANGED <<anchors, unsure, resetLate>>
    BY <1>3 DEF Claim
  <2> PICK S \in SUBSET Stamps : Takes(p, S)
    BY <1>3, ClaimLemma
  <2>2. HolderInv'
    BY <2>1 DEF Takes, HolderInv
  <2>3. ASSUME NEW s \in Stamps \ (unsure \cup resetLate)'
        PROVE  Agrees(s)'
    <3>1. s \in Stamps \ (unsure \cup resetLate)
      BY <2>1
    <3>2. CASE s \in S
      <4>1. anchors'[s] = 0 /\ stamp'[s].status = "processing"
        BY <2>1, <3>1, <3>2 DEF Takes, ChainInv, Agrees
      <4>2. \A q \in Passes \ {p} : batch[q][s] = NotHeld
        BY <3>1, <3>2 DEF Takes, HolderInv
      <4> QED
        BY <1>0, <3>2, <4>1, <4>2 DEF Takes, Agrees
    <3>3. CASE s \notin S
      BY <1>0, <2>1, <3>1, <3>3 DEF Takes, ChainInv, Agrees
    <3> QED
      BY <3>2, <3>3
  <2> QED
    BY <2>2, <2>3 DEF ChainInv
<1>4. ASSUME NEW p \in Passes, NEW s \in Stamps, Anchor(p, s) PROVE HolderInv' /\ ChainInv'
  <2>1. UNCHANGED <<stamp, resetLate>>
    BY <1>4 DEF Anchor
  <2>2. HolderInv'
    BY <1>4, <2>1, AnchorLemma DEF TypeInv, HolderInv
  <2>3. s \notin resetLate => stamp[s].status = "processing"
                             /\ \A q \in Passes \ {p} : batch[q][s] = NotHeld
    BY <1>4, AnchorLemma DEF TypeInv, HolderInv
  <2>4. s \notin unsure \cup resetLate => anchors[s] = 0
    BY <1>4, AnchorLemma DEF TypeInv, ChainInv, Agrees
  <2>5. \A t \in Stamps \ {s} : Agrees(t)' <=> Agrees(t)
    BY <1>4, <2>1, AnchorLemma DEF TypeInv, Agrees
  <2>6. s \notin (unsure \cup resetLate)' => Agrees(s)'
    <3> SUFFICES ASSUME s \notin (unsure \cup resetLate)' PROVE Agrees(s)'
      OBVIOUS
    <3>1. s \notin unsure \cup resetLate
      BY <1>4, <2>1, AnchorLemma DEF TypeInv
    <3>2. \/ batch'[p][s].phase = "recording" /\ anchors'[s] = 1
          \/ batch'[p][s].phase = "failing" /\ anchors'[s] = 0
      BY <1>4, <2>4, <3>1, AnchorLemma DEF TypeInv
    <3>3. \A q \in Passes \ {p} : batch'[q][s].phase = "none"
      BY <1>0, <1>4, <2>3, <3>1, AnchorLemma DEF TypeInv
    <3> QED
      BY <2>1, <2>3, <3>1, <3>2, <3>3 DEF Agrees
  <2>7. unsure \subseteq unsure'
    BY <1>4, AnchorLemma DEF TypeInv
  <2> QED
    BY <2>1, <2>2, <2>5, <2>6, <2>7 DEF ChainInv
<1>5. ASSUME NEW p \in Passes, NEW s \in Stamps, RecordDone(p, s) PROVE HolderInv' /\ ChainInv'
  <2>1. UNCHANGED <<anchors, unsure, resetLate>>
    BY <1>5 DEF RecordDone
  <2>2. s \notin resetLate => \A q \in Passes \ {p} : batch[q][s] = NotHeld
    BY <1>5, RecordDoneLemma DEF HolderInv
  <2>3. HolderInv'
    BY <1>5, <2>1, <2>2, RecordDoneLemma DEF HolderInv
  <2>4. \A t \in Stamps \ {s} : Agrees(t)' <=> Agrees(t)
    BY <1>5, <2>1, RecordDoneLemma DEF Agrees
  <2>5. s \notin unsure \cup resetLate => Agrees(s)'
    <3> SUFFICES ASSUME s \notin unsure \cup resetLate PROVE Agrees(s)'
      OBVIOUS
    <3>1. anchors[s] = 1
      BY <1>5, RecordDoneLemma DEF ChainInv, Agrees
    <3>2. \A q \in Passes : batch'[q][s] = NotHeld
      BY <1>5, <2>2, RecordDoneLemma
    <3> QED
      BY <1>0, <1>5, <2>1, <3>1, <3>2, RecordDoneLemma DEF Agrees
  <2> QED
    BY <2>1, <2>3, <2>4, <2>5 DEF ChainInv
<1>6. ASSUME NEW p \in Passes, NEW s \in Stamps, RecordFailure(p, s) PROVE HolderInv' /\ ChainInv'
  <2>1. UNCHANGED <<anchors, unsure, resetLate>>
    BY <1>6 DEF RecordFailure
  <2>2. s \notin resetLate => \A q \in Passes \ {p} : batch[q][s] = NotHeld
    BY <1>6, RecordFailureLemma DEF HolderInv
  <2>3. HolderInv'
    BY <1>6, <2>1, <2>2, RecordFailureLemma DEF HolderInv
  <2>4. \A t \in Stamps \ {s} : Agrees(t)' <=> Agrees(t)
    BY <1>6, <2>1, RecordFailureLemma DEF Agrees
  <2>5. s \notin unsure \cup resetLate => Agrees(s)'
    <3> SUFFICES ASSUME s \notin unsure \cup resetLate PROVE Agrees(s)'
      OBVIOUS
    <3>1. anchors[s] = 0
      BY <1>6, RecordFailureLemma DEF ChainInv, Agrees
    <3>2. \A q \in Passes : batch'[q][s] = NotHeld
      BY <1>6, <2>2, RecordFailureLemma
    <3> QED
      BY <1>0, <1>6, <2>1, <3>1, <3>2, RecordFailureLemma DEF Agrees
  <2> QED
    BY <2>1, <2>3, <2>4, <2>5 DEF ChainInv
<1>7. ASSUME NEW p \in Passes, NEW s \in Stamps, RecordDoneThrows(p, s)
      PROVE  HolderInv' /\ ChainInv'
  <2>1. /\ batch[p][s] # NotHeld
        /\ batch' = [batch EXCEPT ![p][s].phase = "failing"]
        /\ unsure' = unsure \cup {s}
        /\ UNCHANGED <<stamp, anchors, resetLate>>
    BY <1>7 DEF RecordDoneThrows, NotHeld
  <2>2. /\ batch'[p][s] # NotHeld
        /\ \A q \in Passes, t \in Stamps : q # p \/ t # s => batch'[q][t] = batch[q][t]
    <3>1. batch[p][s] \in Item
      BY <2>1 DEF TypeInv, TypeOK
    <3>2. batch'[p][s] = [batch[p][s] EXCEPT !.phase = "failing"]
      BY <2>1 DEF TypeInv, TypeOK
    <3>3. batch'[p][s] # NotHeld
      BY <3>1, <3>2, ItemLemma
    <3> QED
      BY <2>1, <3>3 DEF TypeInv, TypeOK
  <2> QED
    BY <2>1, <2>2 DEF HolderInv, ChainInv, Agrees
<1>8. CASE DropStep
  BY <1>0, <1>8, DropLemma DEF TypeInv, HolderInv, ChainInv, Agrees
<1>9. ASSUME NEW m \in Managers, RetryReset(m) PROVE HolderInv' /\ ChainInv'
  <2> PICK s \in Stamps :
             /\ stamp'[s].status = "pending"
             /\ \A t \in Stamps \ {s} : stamp'[t] = stamp[t]
             /\ resetLate' = IF stamp[s].status = "dead_letter" THEN resetLate
                             ELSE resetLate \cup {s}
             /\ UNCHANGED <<batch, anchors, unsure>>
    BY <1>9, ResetLemma DEF TypeInv
  <2> QED
    BY DEF HolderInv, ChainInv, Agrees
<1>10. ASSUME NEW m \in Managers, NEW s \in Stamps, RetryCheck(m, s)
       PROVE  HolderInv' /\ ChainInv'
  BY <1>10 DEF RetryCheck, HolderInv, ChainInv, Agrees
<1>11. CASE UNCHANGED vars
  BY <1>11 DEF vars, HolderInv, ChainInv, Agrees
<1> QED
  BY <1>1, <1>2, <1>3, <1>4, <1>5, <1>6, <1>7, <1>8, <1>9, <1>10, <1>11, NextCases

\* SKIP LOCKED and the status filter give every stamp one holder over all
\* overlapping passes, but for a stamp that the retry route reset too late.
THEOREM OneHolderCorrect == Spec => []OneHolder
<1>1. HolderInv => OneHolder
  BY DEF HolderInv, OneHolder, Holders, Held
<1> QED
  BY TypeInit, TypeNext, OutboxInit, OutboxNext, <1>1, PTL DEF Spec

\* What the queue says of a hash is what the chain holds, through crashes at any
\* step; the only exceptions are a landed transaction reported as failed and a
\* late reset.
THEOREM StatusMatchesChainCorrect == Spec => []StatusMatchesChain
<1>1. ChainInv => StatusMatchesChain
  BY DEF ChainInv, Agrees, StatusMatchesChain
<1> QED
  BY TypeInit, TypeNext, OutboxInit, OutboxNext, <1>1, PTL DEF Spec
-----------------------------------------------------------------------------
(* Each stamp is a work item *)

\* But for late resets a pass's copy of the retry count is the row's; and a stamp
\* that a manager's request has read is a row.
CopyInv ==
    /\ \A s \in Stamps \ resetLate, p \in Passes :
          batch[p][s] # NotHeld => batch[p][s].retries = stamp[s].retries
    /\ \A m \in Managers : retrying[m] # NoStamp => stamp[retrying[m]] # Unused

\* What a row is to its work item.
LEMMA WorkItemLemma ==
    /\ ItemStatus(Unused) = "absent" /\ ItemTries(Unused) = 0
    /\ \A r \in Row :
          /\ ItemTries(r) = r.retries
          /\ ItemStatus(r) # "absent"
          /\ ItemStatus(r) = "waiting" <=> r.status = "pending"
          /\ ItemStatus(r) = "taken" <=> r.status = "processing"
          /\ ItemStatus(r) = "done" <=> r.status = "done"
          /\ ItemStatus(r) = "dropped" <=> r.status = "dead_letter"
<1>1. \A r \in Row : r.status \in {"pending", "processing", "done", "dead_letter"} /\ r # Unused
  BY RowLemma DEF Row
<1> QED
  BY <1>1 DEF ItemStatus, ItemTries, Unused

\* A step that leaves the item's four parts alone is no concern of the item.
LEMMA ItemStays ==
    ASSUME NEW s \in Stamps,
           ItemStatus(stamp'[s]) = ItemStatus(stamp[s]), ItemTries(stamp'[s]) = ItemTries(stamp[s]),
           Holders(s)' = Holders(s), s \in resetLate' <=> s \in resetLate
    PROVE  Life(s)!Step
BY DEF Life!Step, Life!vars

\* Who holds a stamp, pass by pass.
LEMMA HoldersAre ==
    ASSUME NEW s \in Stamps
    PROVE  /\ Holders(s) = {p \in Passes : batch[p][s] # NotHeld}
           /\ Holders(s)' = {p \in Passes : batch'[p][s] # NotHeld}
BY DEF Holders, Held

LEMMA HoldersStay ==
    ASSUME NEW s \in Stamps,
           \A q \in Passes : batch'[q][s] # NotHeld <=> batch[q][s] # NotHeld
    PROVE  Holders(s)' = Holders(s)
<1>1. {q \in Passes : batch'[q][s] # NotHeld} = {q \in Passes : batch[q][s] # NotHeld}
  OBVIOUS
<1> QED
  BY <1>1, HoldersAre

LEMMA EnqueueAdds ==
    ASSUME TypeInv, CopyInv, NEW u \in Stamps, Enqueue(u)
    PROVE  CopyInv' /\ \A s \in Stamps : Life(s)!Step
<1> DEFINE r == [status |-> "pending", retries |-> 0, due |-> TRUE]
<1>1. /\ stamp[u] = Unused /\ stamp' = [stamp EXCEPT ![u] = r]
      /\ UNCHANGED <<batch, retrying, resetLate>>
  BY DEF Enqueue
<1>2. r \in Row /\ r.status = "pending" /\ r.retries = 0 /\ r # Unused
  BY NewRowLemma, RowLemma
<1> HIDE DEF r
<1>3. stamp'[u] = r /\ \A s \in Stamps \ {u} : stamp'[s] = stamp[s]
  BY <1>1 DEF TypeInv, TypeOK
<1>4. CopyInv'
  <2>1. \A p \in Passes : batch[p][u] = NotHeld
    BY <1>1 DEF TypeInv
  <2>2. \A m \in Managers : retrying[m] # NoStamp => retrying[m] \in Stamps
    BY DEF TypeInv, TypeOK
  <2> QED
    BY <1>1, <1>2, <1>3, <2>1, <2>2 DEF CopyInv
<1>5. ASSUME NEW s \in Stamps PROVE Life(s)!Step
  <2>1. Holders(s)' = Holders(s)
    BY <1>1 DEF Holders, Held
  <2>2. CASE s # u
    BY <1>1, <1>3, <2>1, <2>2, ItemStays
  <2>3. CASE s = u
    <3>1. /\ ItemStatus(stamp[s]) = "absent" /\ ItemStatus(stamp'[s]) = "waiting"
          /\ ItemTries(stamp[s]) = 0 /\ ItemTries(stamp'[s]) = 0
      BY <1>1, <1>2, <1>3, <2>3, WorkItemLemma
    <3>2. Life(s)!Add
      BY <1>1, <2>1, <3>1 DEF Life!Add
    <3> QED
      BY <3>2 DEF Life!Step, Life!Next
  <2> QED
    BY <2>2, <2>3
<1> QED
  BY <1>4, <1>5

LEMMA ClaimTakes ==
    ASSUME TypeInv, HolderInv, CopyInv, NEW p \in Passes, Claim(p)
    PROVE  CopyInv' /\ \A s \in Stamps : Life(s)!Step
<1>1. PICK S \in SUBSET Due :
        /\ stamp' = [s \in Stamps |-> IF s \in S
                                      THEN [stamp[s] EXCEPT !.status = "processing"]
                                      ELSE stamp[s]]
        /\ batch' = [batch EXCEPT ![p] = [s \in Stamps |->
                       IF s \in S THEN [phase |-> "waiting", retries |-> stamp[s].retries]
                       ELSE NotHeld]]
  BY DEF Claim
<1>2. batch[p] = NoBatch /\ UNCHANGED <<retrying, resetLate>>
  BY DEF Claim
<1>t. batch \in [Passes -> [Stamps -> Item \cup {NotHeld}]]
  BY DEF TypeInv, TypeOK
<1>3. /\ \A s \in Stamps : batch[p][s] = NotHeld
      /\ \A s \in Stamps, q \in Passes \ {p} : batch'[q][s] = batch[q][s]
      /\ \A s \in Stamps \ S : stamp'[s] = stamp[s] /\ batch'[p][s] = NotHeld
      /\ \A s \in S : batch'[p][s] = [phase |-> "waiting", retries |-> stamp[s].retries]
  BY <1>1, <1>2, <1>t DEF NoBatch, Due
<1>4. \A s \in S : /\ s \in Stamps /\ stamp[s] \in Row /\ stamp[s].status = "pending"
                   /\ stamp'[s] \in Row /\ stamp'[s].status = "processing"
                   /\ stamp'[s].retries = stamp[s].retries
                   /\ batch'[p][s] # NotHeld /\ batch'[p][s].retries = stamp[s].retries
  <2> SUFFICES ASSUME NEW s \in S
               PROVE  /\ s \in Stamps /\ stamp[s] \in Row /\ stamp[s].status = "pending"
                      /\ stamp'[s] \in Row /\ stamp'[s].status = "processing"
                      /\ stamp'[s].retries = stamp[s].retries
                      /\ batch'[p][s] # NotHeld /\ batch'[p][s].retries = stamp[s].retries
    OBVIOUS
  <2>1. s \in Stamps /\ stamp[s].status = "pending" /\ stamp[s] \in Row
    BY DEF Due, TypeInv, TypeOK, Unused
  <2>2. stamp'[s] = [stamp[s] EXCEPT !.status = "processing"]
    BY <1>1, <2>1
  <2>3. stamp'[s] \in Row /\ stamp'[s].status = "processing" /\ stamp'[s].retries = stamp[s].retries
    BY <2>1, <2>2 DEF Row
  <2>a. batch'[p][s] = [phase |-> "waiting", retries |-> stamp[s].retries]
    BY <1>3
  <2>4. batch'[p][s].phase = "waiting" /\ batch'[p][s].retries = stamp[s].retries
    BY <2>a
  <2>5. batch'[p][s] # NotHeld
    BY <2>4 DEF NotHeld
  <2> QED
    BY <2>1, <2>3, <2>4, <2>5
<1>5. CopyInv'
  <2>1. ASSUME NEW s \in Stamps \ resetLate', NEW q \in Passes, batch'[q][s] # NotHeld
        PROVE  batch'[q][s].retries = stamp'[s].retries
    <3>1. CASE q = p
      BY <1>3, <1>4, <2>1, <3>1
    <3>2. CASE q # p
      <4>1. batch[q][s] # NotHeld /\ batch'[q][s] = batch[q][s] /\ s \notin resetLate
        BY <1>2, <1>3, <2>1, <3>2
      <4>2. s \notin S
        BY <1>4, <4>1 DEF HolderInv
      <4> QED
        BY <1>3, <4>1, <4>2 DEF CopyInv
    <3> QED
      BY <3>1, <3>2
  <2>2. ASSUME NEW m \in Managers, retrying'[m] # NoStamp PROVE stamp'[retrying'[m]] # Unused
    <3>1. retrying[m] \in Stamps /\ retrying'[m] = retrying[m] /\ stamp[retrying[m]] # Unused
      BY <1>2, <2>2 DEF CopyInv, TypeInv, TypeOK
    <3>2. CASE retrying[m] \in S
      BY <1>4, <3>1, <3>2, RowLemma
    <3>3. CASE retrying[m] \notin S
      BY <1>3, <3>1, <3>3
    <3> QED
      BY <3>2, <3>3
  <2> QED
    BY <2>1, <2>2 DEF CopyInv
<1>6. ASSUME NEW s \in Stamps PROVE Life(s)!Step
  <2>1. Holders(s)' = IF s \in S THEN Holders(s) \cup {p} ELSE Holders(s)
    <3>1. \A q \in Passes \ {p} : batch'[q][s] = batch[q][s]
      BY <1>3
    <3>2. batch[p][s] = NotHeld /\ (batch'[p][s] # NotHeld <=> s \in S)
      BY <1>3, <1>4
    <3> QED
      BY <3>1, <3>2, HoldersAre
  <2>2. CASE s \notin S
    BY <1>2, <1>3, <2>1, <2>2, ItemStays
  <2>3. CASE s \in S
    <3>1. /\ ItemStatus(stamp[s]) = "waiting" /\ ItemStatus(stamp'[s]) = "taken"
          /\ ItemTries(stamp'[s]) = ItemTries(stamp[s])
      BY <1>4, <2>3, WorkItemLemma
    <3>2. s \in resetLate \/ Holders(s) = {}
      BY <1>4, <2>3, HoldersAre DEF HolderInv
    <3>3. Life(s)!Take(p)
      BY <1>2, <2>1, <2>3, <3>1, <3>2 DEF Life!Take
    <3> QED
      BY <3>3 DEF Life!Step, Life!Next
  <2> QED
    BY <2>2, <2>3
<1> QED
  BY <1>5, <1>6

\* The pass that holds a stamp goes one phase on: no concern of the item.
LEMMA PhaseStays ==
    ASSUME TypeInv, CopyInv, NEW p \in Passes, NEW u \in Stamps, batch[p][u] # NotHeld,
           NEW x \in {"recording", "failing"},
           batch' = [batch EXCEPT ![p][u].phase = x],
           UNCHANGED <<stamp, retrying, resetLate>>
    PROVE  CopyInv' /\ \A s \in Stamps : Life(s)!Step
<1>1. batch[p][u] \in Item
  BY DEF TypeInv, TypeOK
<1>2. /\ batch'[p][u] = [batch[p][u] EXCEPT !.phase = x]
      /\ \A q \in Passes, s \in Stamps : q # p \/ s # u => batch'[q][s] = batch[q][s]
  BY DEF TypeInv, TypeOK
<1>3. batch'[p][u] # NotHeld /\ batch'[p][u].retries = batch[p][u].retries
  BY <1>1, <1>2 DEF Item, NotHeld
<1>4. \A q \in Passes, s \in Stamps :
        /\ batch'[q][s] # NotHeld <=> batch[q][s] # NotHeld
        /\ batch[q][s] # NotHeld => batch'[q][s].retries = batch[q][s].retries
  BY <1>2, <1>3
<1>5. CopyInv'
  BY <1>4 DEF CopyInv
<1>6. ASSUME NEW s \in Stamps PROVE Life(s)!Step
  <2>1. Holders(s)' = Holders(s)
    BY <1>4, HoldersStay
  <2> QED
    BY <2>1, ItemStays
<1> QED
  BY <1>5, <1>6

\* The pass that holds a stamp records what became of it.
LEMMA RecordSettles ==
    ASSUME HolderInv, CopyInv, TypeInv, NEW p \in Passes, NEW u \in Stamps,
           batch[p][u] # NotHeld, batch'[p][u] = NotHeld,
           \A q \in Passes, s \in Stamps : q # p \/ s # u => batch'[q][s] = batch[q][s],
           stamp'[u] # Unused,
           \A s \in Stamps \ {u} : stamp'[s] = stamp[s],
           UNCHANGED <<retrying, resetLate>>
    PROVE  /\ CopyInv'
           /\ \A s \in Stamps \ {u} : Life(s)!Step
           /\ Life(u)!Settles(p)
           /\ stamp[u] \in Row
           /\ u \notin resetLate => batch[p][u].retries = stamp[u].retries
<1>1. u \notin resetLate => /\ stamp[u].status = "processing"
                            /\ \A q \in Passes \ {p} : batch[q][u] = NotHeld
  BY DEF HolderInv
<1>2. CopyInv'
  <2>1. ASSUME NEW s \in Stamps \ resetLate', NEW q \in Passes, batch'[q][s] # NotHeld
        PROVE  batch'[q][s].retries = stamp'[s].retries
    <3>1. s # u
      BY <1>1, <2>1
    <3> QED
      BY <2>1, <3>1 DEF CopyInv
  <2>2. ASSUME NEW m \in Managers, retrying'[m] # NoStamp PROVE stamp'[retrying'[m]] # Unused
    <3>1. retrying[m] \in Stamps /\ stamp[retrying[m]] # Unused
      BY <2>2 DEF CopyInv, TypeInv, TypeOK
    <3> QED
      BY <3>1
  <2> QED
    BY <2>1, <2>2 DEF CopyInv
<1>3. ASSUME NEW s \in Stamps \ {u} PROVE Life(s)!Step
  <2>1. Holders(s)' = Holders(s)
    <3>1. \A q \in Passes : batch'[q][s] = batch[q][s]
      OBVIOUS
    <3> QED
      BY <3>1, HoldersStay
  <2> QED
    BY <2>1, ItemStays
<1>4. stamp[u] \in Row
  BY DEF TypeInv, TypeOK
<1>5. Life(u)!Settles(p)
  <2>1. p \in Holders(u) /\ Holders(u)' = Holders(u) \ {p}
    BY HoldersAre
  <2>2. u \notin resetLate => ItemStatus(stamp[u]) = "taken" /\ Holders(u) = {p}
    <3>1. u \notin resetLate => Holders(u) = {p}
      BY <1>1, HoldersAre
    <3> QED
      BY <1>1, <1>4, <3>1, WorkItemLemma
  <2> QED
    BY <2>1, <2>2 DEF Life!Settles
<1> QED
  BY <1>2, <1>3, <1>4, <1>5 DEF CopyInv

LEMMA DoneFinishes ==
    ASSUME TypeInv, HolderInv, CopyInv, NEW p \in Passes, NEW u \in Stamps, RecordDone(p, u)
    PROVE  CopyInv' /\ \A s \in Stamps : Life(s)!Step
<1>1. UNCHANGED <<retrying, resetLate>>
  BY DEF RecordDone
<1>2. /\ CopyInv'
      /\ \A s \in Stamps \ {u} : Life(s)!Step
      /\ Life(u)!Settles(p)
      /\ stamp[u] \in Row
  BY <1>1, RecordDoneLemma, RecordSettles
<1>3. stamp'[u] = [stamp[u] EXCEPT !.status = "done"]
  BY DEF RecordDone, TypeInv, TypeOK
<1>4. stamp'[u] \in Row /\ stamp'[u].status = "done" /\ stamp'[u].retries = stamp[u].retries
  BY <1>2, <1>3 DEF Row
<1>5. ItemStatus(stamp'[u]) = "done" /\ ItemTries(stamp'[u]) = ItemTries(stamp[u])
  BY <1>2, <1>4, WorkItemLemma
<1>6. Life(u)!Finish(p)
  BY <1>2, <1>5 DEF Life!Finish
<1>7. Life(u)!Step
  BY <1>6 DEF Life!Step, Life!Next
<1> QED
  BY <1>2, <1>7

LEMMA FailureFails ==
    ASSUME TypeInv, HolderInv, CopyInv, NEW p \in Passes, NEW u \in Stamps, RecordFailure(p, u)
    PROVE  CopyInv' /\ \A s \in Stamps : Life(s)!Step
<1> DEFINE n == batch[p][u].retries
<1>1. UNCHANGED <<retrying, resetLate>>
  BY DEF RecordFailure
<1>2. /\ CopyInv'
      /\ \A s \in Stamps \ {u} : Life(s)!Step
      /\ Life(u)!Settles(p)
      /\ stamp[u] \in Row
      /\ u \notin resetLate => n = stamp[u].retries
  BY <1>1, RecordFailureLemma, RecordSettles
<1>3. n \in 0..(MaxRetry - 1)
  <2>1. batch[p][u] \in Item
    BY RecordFailureLemma DEF TypeInv, TypeOK
  <2> QED
    BY <2>1, ItemLemma
<1>4. stamp'[u] = Failed(n)
  BY DEF RecordFailure, TypeInv, TypeOK
<1> HIDE DEF n
<1>5. /\ stamp'[u] \in Row
      /\ stamp'[u].retries = n + 1
      /\ stamp'[u].status = IF n + 1 >= MaxRetry THEN "dead_letter" ELSE "pending"
  <2>1. /\ Failed(n).retries = n + 1
        /\ Failed(n).status = IF n + 1 >= MaxRetry THEN "dead_letter" ELSE "pending"
    BY DEF Failed
  <2> QED
    BY <1>3, <1>4, <2>1, FailedLemma
<1>6. n + 1 \in 1..MaxRetry /\ (n + 1 >= MaxRetry <=> n + 1 = MaxRetry)
  BY <1>3, StampOutboxAssumption
<1>7. /\ ItemTries(stamp'[u]) = n + 1
      /\ ItemStatus(stamp'[u]) = IF n + 1 = MaxRetry THEN "dropped" ELSE "waiting"
      /\ u \notin resetLate => n = ItemTries(stamp[u])
  BY <1>2, <1>5, <1>6, WorkItemLemma
<1>8. Life(u)!Fail(p)
  <2>1. ItemTries(stamp'[u]) \in IF u \in resetLate THEN 1..MaxRetry
                                 ELSE {ItemTries(stamp[u]) + 1}
    <3>1. CASE u \in resetLate
      BY <1>6, <1>7, <3>1
    <3>2. CASE u \notin resetLate
      BY <1>7, <3>2
    <3> QED
      BY <3>1, <3>2
  <2>2. ItemTries(stamp'[u]) <= MaxRetry
    BY <1>6, <1>7
  <2>3. ItemStatus(stamp'[u]) = IF ItemTries(stamp'[u]) = MaxRetry THEN "dropped" ELSE "waiting"
    BY <1>7
  <2> QED
    BY <1>2, <2>1, <2>2, <2>3 DEF Life!Fail
<1>9. Life(u)!Step
  BY <1>8 DEF Life!Step, Life!Next
<1> QED
  BY <1>2, <1>9

LEMMA DropLetsGo ==
    ASSUME TypeInv, CopyInv, DropStep
    PROVE  CopyInv' /\ \A s \in Stamps : Life(s)!Step
<1>1. /\ \A q \in Passes, s \in Stamps : batch'[q][s] \in {batch[q][s], NotHeld}
      /\ UNCHANGED <<stamp, retrying, resetLate>>
  BY DropLemma DEF TypeInv
<1>2. CopyInv'
  BY <1>1 DEF CopyInv
<1>3. ASSUME NEW s \in Stamps PROVE Life(s)!Step
  <2> DEFINE H == {q \in Passes : batch'[q][s] # batch[q][s]}
  <2>1. Holders(s)' = Holders(s) \ H
    BY <1>1, HoldersAre
  <2>2. CASE H = {}
    BY <1>1, <2>1, <2>2, ItemStays
  <2>3. CASE H # {}
    <3>1. Life(s)!LetGo(H)
      BY <1>1, <2>1, <2>3 DEF Life!LetGo
    <3>2. H \in SUBSET Passes
      OBVIOUS
    <3> QED
      BY <3>1, <3>2 DEF Life!Step, Life!Next
  <2> QED
    BY <2>2, <2>3
<1> QED
  BY <1>2, <1>3

\* The reset revives a dead letter; of any other row it is a slip.
LEMMA ResetRevives ==
    ASSUME TypeInv, HolderInv, CopyInv, NEW m \in Managers, RetryReset(m)
    PROVE  CopyInv' /\ \A s \in Stamps : Life(s)!Step
<1> DEFINE u == retrying[m]
           r == [status |-> "pending", retries |-> 0, due |-> TRUE]
<1>1. u \in Stamps /\ stamp[u] # Unused
  BY DEF RetryReset, CopyInv, TypeInv, TypeOK
<1>2. /\ stamp' = [stamp EXCEPT ![u] = r]
      /\ resetLate' = IF stamp[u].status = "dead_letter" THEN resetLate
                      ELSE resetLate \cup {u}
      /\ retrying' = [retrying EXCEPT ![m] = NoStamp]
      /\ UNCHANGED batch
  BY DEF RetryReset
<1>3. r \in Row /\ r.status = "pending" /\ r.retries = 0 /\ r # Unused
  BY NewRowLemma, RowLemma
<1>4. stamp[u] \in Row
  BY <1>1 DEF TypeInv, TypeOK
<1> HIDE DEF r
<1>5. stamp'[u] = r /\ \A s \in Stamps \ {u} : stamp'[s] = stamp[s]
  BY <1>1, <1>2 DEF TypeInv, TypeOK
<1>6. CopyInv'
  <2>1. ASSUME NEW s \in Stamps \ resetLate', NEW q \in Passes, batch'[q][s] # NotHeld
        PROVE  batch'[q][s].retries = stamp'[s].retries
    <3>1. s \notin resetLate /\ batch[q][s] # NotHeld
      BY <1>2, <2>1
    <3>2. s # u
      BY <1>2, <2>1, <3>1 DEF HolderInv
    <3> QED
      BY <1>2, <1>5, <3>1, <3>2 DEF CopyInv
  <2>2. ASSUME NEW k \in Managers, retrying'[k] # NoStamp PROVE stamp'[retrying'[k]] # Unused
    <3>1. retrying'[k] = retrying[k] /\ retrying[k] \in Stamps /\ stamp[retrying[k]] # Unused
      BY <1>2, <2>2 DEF CopyInv, TypeInv, TypeOK
    <3> QED
      BY <1>3, <1>5, <3>1
  <2> QED
    BY <2>1, <2>2 DEF CopyInv
<1>7. ASSUME NEW s \in Stamps PROVE Life(s)!Step
  <2>1. Holders(s)' = Holders(s)
    BY <1>2 DEF Holders, Held
  <2>2. CASE s # u
    BY <1>2, <1>5, <2>1, <2>2, ItemStays
  <2>3. CASE s = u
    <3>1. /\ ItemStatus(stamp'[s]) = "waiting" /\ ItemTries(stamp'[s]) = 0
          /\ ItemStatus(stamp[s]) # "absent"
          /\ ItemStatus(stamp[s]) = "dropped" <=> stamp[s].status = "dead_letter"
      BY <1>3, <1>4, <1>5, <2>3, WorkItemLemma
    <3>2. (s \in resetLate') = (s \in resetLate \/ ItemStatus(stamp[s]) # "dropped")
      BY <1>2, <2>3, <3>1
    <3>3. Life(s)!Revive
      BY <2>1, <3>1, <3>2 DEF Life!Revive
    <3> QED
      BY <3>3 DEF Life!Step, Life!Next
  <2> QED
    BY <2>2, <2>3
<1> QED
  BY <1>6, <1>7

\* A manager's read, and a backoff that is over, are no concern of the item.
LEMMA CheckStays ==
    ASSUME TypeInv, CopyInv, NEW m \in Managers, NEW u \in Stamps, RetryCheck(m, u)
    PROVE  CopyInv' /\ \A s \in Stamps : Life(s)!Step
<1>1. /\ stamp[u].status = "dead_letter"
      /\ retrying' = [retrying EXCEPT ![m] = u]
      /\ UNCHANGED <<stamp, batch, resetLate>>
  BY DEF RetryCheck
<1>2. stamp[u] # Unused
  BY <1>1 DEF Unused
<1>3. CopyInv'
  BY <1>1, <1>2 DEF CopyInv, TypeInv, TypeOK
<1>4. ASSUME NEW s \in Stamps PROVE Life(s)!Step
  <2>1. Holders(s)' = Holders(s)
    BY <1>1 DEF Holders, Held
  <2> QED
    BY <1>1, <2>1, ItemStays
<1> QED
  BY <1>3, <1>4

LEMMA BackoffStays ==
    ASSUME TypeInv, CopyInv, NEW u \in Stamps, BackoffElapses(u)
    PROVE  CopyInv' /\ \A s \in Stamps : Life(s)!Step
<1>1. UNCHANGED <<batch, retrying, resetLate>>
  BY DEF BackoffElapses
<1>2. /\ stamp' \in [Stamps -> Row \cup {Unused}]
      /\ stamp'[u].status = stamp[u].status
      /\ stamp'[u].retries = stamp[u].retries
      /\ stamp'[u] # Unused
      /\ \A s \in Stamps \ {u} : stamp'[s] = stamp[s]
  BY BackoffLemma DEF TypeInv
<1>3. stamp[u] \in Row /\ stamp'[u] \in Row
  BY <1>2 DEF BackoffElapses, TypeInv, TypeOK, Unused
<1>4. CopyInv'
  <2>1. \A m \in Managers : retrying[m] # NoStamp => retrying[m] \in Stamps
    BY DEF TypeInv, TypeOK
  <2> QED
    BY <1>1, <1>2, <2>1 DEF CopyInv
<1>5. ASSUME NEW s \in Stamps PROVE Life(s)!Step
  <2>1. Holders(s)' = Holders(s)
    BY <1>1 DEF Holders, Held
  <2>2. ItemStatus(stamp'[u]) = ItemStatus(stamp[u]) /\ ItemTries(stamp'[u]) = ItemTries(stamp[u])
    <3>1. stamp[u] # Unused /\ stamp'[u] # Unused
      BY <1>3, RowLemma
    <3> QED
      BY <1>2, <3>1 DEF ItemStatus, ItemTries
  <2> QED
    BY <1>1, <1>2, <2>1, <2>2, ItemStays
<1> QED
  BY <1>4, <1>5

LEMMA ItemsInit == Init => CopyInv /\ \A s \in Stamps : Life(s)!Init
<1> SUFFICES ASSUME Init PROVE CopyInv /\ \A s \in Stamps : Life(s)!Init
  OBVIOUS
<1>1. /\ \A p \in Passes, s \in Stamps : batch[p][s] = NotHeld
      /\ \A s \in Stamps : stamp[s] = Unused
      /\ \A m \in Managers : retrying[m] = NoStamp
      /\ resetLate = {}
  BY DEF Init, NoBatch
<1>2. CopyInv
  BY <1>1 DEF CopyInv
<1>3. ASSUME NEW s \in Stamps PROVE Life(s)!Init
  <2>1. ItemStatus(stamp[s]) = "absent" /\ ItemTries(stamp[s]) = 0
    BY <1>1, WorkItemLemma
  <2>2. Holders(s) = {} /\ (s \in resetLate) = FALSE
    BY <1>1, HoldersAre
  <2> QED
    BY <2>1, <2>2 DEF Life!Init
<1> QED
  BY <1>2, <1>3

LEMMA ItemsNext ==
    TypeInv /\ HolderInv /\ CopyInv /\ [Next]_vars => CopyInv' /\ \A s \in Stamps : Life(s)!Step
<1> SUFFICES ASSUME TypeInv, HolderInv, CopyInv, [Next]_vars
             PROVE  CopyInv' /\ \A s \in Stamps : Life(s)!Step
  OBVIOUS
<1>1. ASSUME NEW p \in Passes, NEW u \in Stamps, Anchor(p, u)
      PROVE  CopyInv' /\ \A s \in Stamps : Life(s)!Step
  <2>1. UNCHANGED <<stamp, retrying, resetLate>> /\ batch[p][u] # NotHeld
    BY <1>1, AnchorLemma DEF Anchor, TypeInv
  <2>2. \E x \in {"recording", "failing"} : batch' = [batch EXCEPT ![p][u].phase = x]
    BY <1>1 DEF Anchor
  <2> QED
    BY <2>1, <2>2, PhaseStays
<1>2. ASSUME NEW p \in Passes, NEW u \in Stamps, RecordDoneThrows(p, u)
      PROVE  CopyInv' /\ \A s \in Stamps : Life(s)!Step
  <2>1. /\ UNCHANGED <<stamp, retrying, resetLate>> /\ batch[p][u] # NotHeld
        /\ batch' = [batch EXCEPT ![p][u].phase = "failing"]
    BY <1>2 DEF RecordDoneThrows, NotHeld
  <2> QED
    BY <2>1, PhaseStays
<1>3. CASE UNCHANGED vars
  <2>1. CopyInv'
    BY <1>3 DEF vars, CopyInv
  <2>2. ASSUME NEW s \in Stamps PROVE Life(s)!Step
    BY <1>3, ItemStays DEF vars, Holders, Held
  <2> QED
    BY <2>1, <2>2
<1> QED
  BY <1>1, <1>2, <1>3, NextCases, EnqueueAdds, ClaimTakes, DoneFinishes, FailureFails, DropLetsGo,
     ResetRevives, CheckStays, BackoffStays

\* Every stamp implements the abstract work item, over the overlapping passes of
\* all workers: one pass at a time takes it, that pass settles it, a failure
\* costs one try and the last one drops it, only the retry route revives it; of
\* a stamp reset too late only less is promised.
THEOREM StampsAreWorkItemsCorrect == Spec => StampsAreWorkItems
<1>1. Init => \A s \in Stamps : Life(s)!Init
  BY ItemsInit
<1>2. TypeInv /\ HolderInv /\ CopyInv /\ [Next]_vars => [\A s \in Stamps : Life(s)!Step]_vars
  BY ItemsNext
<1> QED
  BY <1>1, <1>2, TypeInit, TypeNext, OutboxInit, OutboxNext, ItemsInit, ItemsNext, PTL
     DEF Spec, StampsAreWorkItems
=============================================================================
