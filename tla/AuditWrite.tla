----------------------------- MODULE AuditWrite -----------------------------
(***************************************************************************)
(* writeWithAudit, the single write path: one transaction upserts a        *)
(* record, appends a hash-chained audit row and queues the row's hash for  *)
(* stamping; and verifyChain, which recomputes the chain every day.        *)
(*                                                                         *)
(* Each call runs once. A step is one database statement under READ        *)
(* COMMITTED: a read sees what is committed, the advisory lock and the     *)
(* lock on the record's row are held until the transaction ends, and       *)
(* nothing of a transaction is visible before its commit. A hash is        *)
(* injective, so the hash of a call's audit row is the call itself.        *)
(***************************************************************************)
EXTENDS Naturals, Sequences

CONSTANTS
    Calls,      \* calls of writeWithAudit (a bound)
    Records,    \* ids of records
    NoCall,     \* no call: a row that does not exist
    Genesis,    \* GENESIS_HASH
    Orgs,       \* organisations
    NoOrg,      \* no organisation: org_id undefined, or no tenant named
    Fetchers,   \* the calls whose route looks prev_hash up itself
    Bare,       \* the calls whose update would have no column to set
    MaxClock    \* last instant of the clock (a bound)

ASSUME AuditWriteAssumption ==
    /\ Records # {}
    /\ NoCall \notin Calls
    /\ Genesis \notin Calls
    /\ Orgs \cap Records = {}
    /\ NoOrg \notin Orgs
    /\ Fetchers \subseteq Calls
    /\ Bare \subseteq Calls
    /\ MaxClock \in Nat \ {0}

VARIABLES
    clock,   \* the wall clock, in the resolution of a timestamp
    call,    \* local state of each call
    stored,  \* stored[r]: the call whose write the record holds, or NoCall
    log,     \* audit_logs in commit order
    outbox   \* hashes in stamp_queue

vars == <<clock, call, stored, log, outbox>>

-----------------------------------------------------------------------------
Clock == 1..MaxClock
Hashes == Calls \cup {Genesis}
OrgOrNone == Orgs \cup {NoOrg}

\* Where a call is: before the transaction, holding the advisory lock, holding
\* the record's row as well, or over.
LockedPC == {"locked", "looked", "written", "chained"}
EndedPC == {"committed", "aborted"}
CallPC == {"idle", "fetched", "called"} \cup LockedPC \cup EndedPC

\* `org` is the caller's org_id, `tenant` the organisation of the tenant it
\* names, which only matters without an org_id. `given` is the caller's
\* prev_hash; NoCall stands for undefined.
Call == [pc: CallPC, rec: Records, org: OrgOrNone, tenant: OrgOrNone,
         given: Calls \cup {NoCall}, ts: 0..MaxClock, exists: BOOLEAN, prev: Hashes]

\* `rowlock`: the transaction that wrote the row held the record's row.
AuditRow == [hash: Calls, rec: Records, org: OrgOrNone, tenant: OrgOrNone,
             prev: Hashes, ts: Clock, given: BOOLEAN, rowlock: BOOLEAN]

RowsOf(r) == {i \in DOMAIN log : log[i].rec = r}

\* Variants of Newest: the filter on the record forgotten, and the wrong column
\* returned.
NewestOfAnyRecord(r) ==
    {log[i].hash : i \in {k \in DOMAIN log : \A m \in DOMAIN log : log[m].ts <= log[k].ts}}
NewestTime(r) == {log[i].ts : i \in RowsOf(r)}

\* SELECT blockchain_hash ... ORDER BY created_at DESC LIMIT 1: the committed
\* row of r with the greatest timestamp; any of them if there are several.
Newest(r) ==
    {log[i].hash : i \in {k \in RowsOf(r) : \A m \in RowsOf(r) : log[m].ts <= log[k].ts}}

\* Variant of HoldsLock: a session lock, which outlives a rollback.
KeepsLockOnAbort(c) == call[c].pc \in LockedPC \cup {"aborted"}

\* pg_advisory_xact_lock: held from its statement to the end of the transaction.
HoldsLock(c) == call[c].pc \in LockedPC

\* The key of the advisory lock: the organisation, or the record without one.
Key(c) == IF call[c].org # NoOrg THEN call[c].org ELSE call[c].rec

\* The INSERT and the UPDATE lock the record's row. An update with no column to
\* set is a plain SELECT, which neither locks nor waits.
LocksRow(c) == ~(c \in Bare /\ call[c].exists)

\* Variant of HoldsRow: the upsert runs outside the transaction, and its row
\* lock ends with the statement.
RowLockOfStatement(c) == call[c].pc = "written" /\ LocksRow(c)

\* The row lock is held to the end of the transaction.
HoldsRow(c) == call[c].pc \in {"written", "chained"} /\ LocksRow(c)

Move(c, pc) == call' = [call EXCEPT ![c].pc = pc]

\* The call is over and its local variables with it.
End(c, outcome) ==
    call' = [call EXCEPT ![c].pc = outcome, ![c].given = NoCall, ![c].ts = 0,
                         ![c].exists = FALSE, ![c].prev = Genesis]

-----------------------------------------------------------------------------
\* A route reads the last hash of the record before it calls writeWithAudit
\* (latestAuditHash in the tenant and eviction routes).
Fetch(c) ==
    /\ call[c].pc = "idle"
    /\ c \in Fetchers
    /\ \E r \in Records :
        \E h \in IF Newest(r) = {} THEN {NoCall} ELSE Newest(r) :
            call' = [call EXCEPT ![c].pc = "fetched", ![c].rec = r, ![c].given = h]
    /\ UNCHANGED <<clock, stored, log, outbox>>

\* Entry of writeWithAudit: the timestamp is taken here, before the
\* transaction. The caller names an organisation, or a tenant, or neither.
Begin(c) ==
    /\ \/ call[c].pc = "idle" /\ c \notin Fetchers
       \/ call[c].pc = "fetched"
    /\ \E r \in Records, o, t \in OrgOrNone :
        /\ call[c].pc = "fetched" => r = call[c].rec
        /\ o = NoOrg \/ t = NoOrg
        /\ call' = [call EXCEPT ![c].pc = "called", ![c].rec = r, ![c].org = o,
                                ![c].tenant = t, ![c].ts = clock]
    /\ UNCHANGED <<clock, stored, log, outbox>>

\* BEGIN and pg_advisory_xact_lock.
Lock(c) ==
    /\ call[c].pc = "called"
    /\ \A d \in Calls : HoldsLock(d) => Key(d) # Key(c)
    /\ Move(c, "locked")
    /\ UNCHANGED <<clock, stored, log, outbox>>

\* SELECT 1: does the record exist?
Look(c) ==
    /\ call[c].pc = "locked"
    /\ call' = [call EXCEPT ![c].pc = "looked", ![c].exists = stored[call[c].rec] # NoCall]
    /\ UNCHANGED <<clock, stored, log, outbox>>

\* UPDATE or INSERT: waits for a transaction that holds the row. The INSERT of
\* a row committed meanwhile is a unique violation and rolls back. The SELECT
\* of a bare update waits for nobody.
Upsert(c) ==
    /\ call[c].pc = "looked"
    /\ LocksRow(c) => \A d \in Calls \ {c} : HoldsRow(d) => call[d].rec # call[c].rec
    /\ IF call[c].exists = (stored[call[c].rec] # NoCall)
       THEN Move(c, "written")
       ELSE End(c, "aborted")
    /\ UNCHANGED <<clock, stored, log, outbox>>

\* The previous hash, unless the caller gave one; then the hash, the audit row
\* and the stamp, which stay private to the transaction.
Chain(c) ==
    /\ call[c].pc = "written"
    /\ \E h \in IF call[c].given # NoCall THEN {call[c].given}
                ELSE IF Newest(call[c].rec) = {} THEN {Genesis}
                ELSE Newest(call[c].rec) :
        call' = [call EXCEPT ![c].pc = "chained", ![c].prev = h]
    /\ UNCHANGED <<clock, stored, log, outbox>>

Commit(c) ==
    /\ call[c].pc = "chained"
    /\ stored' = [stored EXCEPT ![call[c].rec] = c]
    /\ log' = Append(log, [hash |-> c, rec |-> call[c].rec, org |-> call[c].org,
                           tenant |-> call[c].tenant, prev |-> call[c].prev, ts |-> call[c].ts,
                           given |-> call[c].given # NoCall, rowlock |-> LocksRow(c)])
    /\ outbox' = outbox \cup {c}
    /\ End(c, "committed")
    /\ UNCHANGED clock

\* A statement fails, times out or loses its connection: ROLLBACK.
Abort(c) ==
    /\ call[c].pc \in {"called"} \cup LockedPC
    /\ End(c, "aborted")
    /\ UNCHANGED <<clock, stored, log, outbox>>

Tick ==
    /\ clock < MaxClock
    /\ clock' = clock + 1
    /\ UNCHANGED <<call, stored, log, outbox>>

-----------------------------------------------------------------------------
Init ==
    /\ clock = 1
    /\ LET r == CHOOSE r \in Records : TRUE  \* no record is chosen yet
       IN  call = [c \in Calls |-> [pc |-> "idle", rec |-> r, org |-> NoOrg, tenant |-> NoOrg,
                                    given |-> NoCall, ts |-> 0, exists |-> FALSE,
                                    prev |-> Genesis]]
    /\ stored = [r \in Records |-> NoCall]
    /\ log = <<>>
    /\ outbox = {}

\* What the transaction of a call does next by itself.
Proceed(c) ==
    \/ Lock(c)
    \/ Look(c)
    \/ Upsert(c)
    \/ Chain(c)
    \/ Commit(c)

Next ==
    \/ \E c \in Calls : Fetch(c) \/ Begin(c) \/ Proceed(c) \/ Abort(c)
    \/ Tick

Spec == Init /\ [][Next]_vars

\* A transaction that can take its next statement takes it.
FairSpec == Spec /\ \A c \in Calls : WF_vars(Proceed(c))

-----------------------------------------------------------------------------
(* verifyChain, the daily check of one organisation *)

\* WHERE a.org_id = $1 OR (a.org_id IS NULL AND the tenant is one of $1's): the
\* rows the check of organisation o reads.
ReadBy(o) ==
    {i \in DOMAIN log : log[i].org = o \/ (log[i].org = NoOrg /\ log[i].tenant = o)}

\* The rows of the same record that the check of o reads before row i. It
\* orders by created_at and then by a random id; the model breaks ties in
\* commit order, the order most favourable to the check.
ReadBefore(o, i) ==
    {k \in RowsOf(log[i].rec) \cap ReadBy(o) :
        log[k].ts < log[i].ts \/ (log[k].ts = log[i].ts /\ k < i)}

ExpectedPrev(o, i) ==
    IF ReadBefore(o, i) = {}
    THEN Genesis
    ELSE LET last == CHOOSE k \in ReadBefore(o, i) :
                        \A m \in ReadBefore(o, i) : m = k \/ k \notin ReadBefore(o, m)
         IN  log[last].hash

BrokenLinks(o, r) == {i \in RowsOf(r) \cap ReadBy(o) : log[i].prev # ExpectedPrev(o, i)}

-----------------------------------------------------------------------------
(* Properties *)

TypeOK ==
    /\ clock \in Clock
    /\ call \in [Calls -> Call]
    /\ stored \in [Records -> Calls \cup {NoCall}]
    /\ log \in Seq(AuditRow)
    /\ outbox \subseteq Calls

\* Every audit row's prev_hash is GENESIS or the hash of a row of the same
\* record that was committed earlier: whatever the timestamps and whoever
\* supplied the hash, the links of a record form a tree and never a cycle.
PrevIsEarlierRow ==
    \A i \in DOMAIN log :
        \/ log[i].prev = Genesis
        \/ \E k \in 1..(i - 1) : log[k].rec = log[i].rec /\ log[k].hash = log[i].prev

\* The rows of r were stamped with strictly increasing times in commit order,
\* none was linked to a hash read outside the lock, and each transaction held
\* the record's row.
WrittenInOrder(r) ==
    /\ \A i, k \in RowsOf(r) : i < k => log[i].ts < log[k].ts
    /\ \A i \in RowsOf(r) : ~log[i].given /\ log[i].rowlock

\* Row i of record r was committed right after a row that the check of o does
\* not read.
AfterGap(o, r, i) ==
    \E k \in RowsOf(r) \ ReadBy(o) : k < i /\ \A m \in RowsOf(r) : m < i => m <= k

\* What the daily check says of a history written in order, however the
\* transactions interleaved and whichever keys they locked: a link is reported
\* broken exactly where the row before it is one this organisation's check does
\* not read. A record all of whose rows it reads passes.
InOrderBreaksAtGaps ==
    \A o \in Orgs, r \in Records :
        WrittenInOrder(r) =>
            BrokenLinks(o, r) = {i \in RowsOf(r) \cap ReadBy(o) : AfterGap(o, r, i)}

\* The two layers of locks never wait for each other: every call that entered
\* the write path commits or rolls back.
CallsEnd ==
    \A c \in Calls : call[c].pc = "called" ~> call[c].pc \in EndedPC

\* write-with-audit.ts:67: "Serialise writes per organisation (or per record)
\* so the chain never forks." No two rows of a record share a prev_hash.
NeverForks ==
    \A i, k \in DOMAIN log :
        log[i].rec = log[k].rec /\ log[i].prev = log[k].prev => i = k

\* chain-check.ts:5: "A break means history was touched". Nothing here touches
\* history, so a check that reads every row of the record finds no broken link.
NoFalseAlarm ==
    \A o \in Orgs, r \in Records : RowsOf(r) \subseteq ReadBy(o) => BrokenLinks(o, r) = {}
=============================================================================
