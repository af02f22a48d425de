-------------------------- MODULE AuditWriteProofs --------------------------
(***************************************************************************)
(* Theorems about AuditWrite for any calls, records, fetching routes and   *)
(* any clock: what the two layers of locks guarantee of the hash chain.    *)
(***************************************************************************)
EXTENDS AuditWrite, TLAPS

-----------------------------------------------------------------------------
(* The log *)

\* The log after a commit: one row more, the others as they were.
LEMMA AppendLemma ==
    ASSUME NEW row \in AuditRow, log \in Seq(AuditRow), log' = Append(log, row)
    PROVE  /\ log' \in Seq(AuditRow)
           /\ Len(log) \in Nat
           /\ DOMAIN log = 1..Len(log)
           /\ DOMAIN log' = 1..(Len(log) + 1)
           /\ log'[Len(log) + 1] = row
           /\ \A i \in DOMAIN log : i \in DOMAIN log' /\ log'[i] = log[i]
OBVIOUS

\* A row of the log, and the rows that Newest returns.
LEMMA LogLemma ==
    ASSUME log \in Seq(AuditRow)
    PROVE  /\ \A i \in DOMAIN log : i \in Nat /\ log[i] \in AuditRow /\ log[i].ts \in Nat
           /\ \A r \in Records : RowsOf(r) \subseteq DOMAIN log /\ Newest(r) \subseteq Calls
<1>1. \A i \in DOMAIN log : i \in Nat /\ log[i] \in AuditRow
  OBVIOUS
<1>2. \A x \in AuditRow : x.ts \in Nat /\ x.hash \in Calls
  BY AuditWriteAssumption DEF AuditRow, Clock
<1> QED
  BY <1>1, <1>2 DEF RowsOf, Newest

-----------------------------------------------------------------------------
(* Type correctness *)

\* A call inside the write path has taken its timestamp.
Stamped == \A c \in Calls : call[c].pc \in {"called"} \cup LockedPC => call[c].ts \in Clock

TypeInv == TypeOK /\ Stamped

LEMMA TypeInit == Init => TypeInv
<1> SUFFICES ASSUME Init PROVE TypeInv
  OBVIOUS
<1>1. \E r \in Records : r = CHOOSE x \in Records : TRUE
  BY AuditWriteAssumption
<1>2. call \in [Calls -> Call]
  BY <1>1, AuditWriteAssumption DEF Init, Call, CallPC, OrgOrNone, Hashes
<1>3. \A c \in Calls : call[c].pc = "idle"
  BY DEF Init
<1>4. clock \in Clock /\ log \in Seq(AuditRow)
  BY AuditWriteAssumption DEF Init, Clock
<1> QED
  BY <1>2, <1>3, <1>4 DEF Init, TypeInv, TypeOK, Stamped, LockedPC

\* What it means that a step replaces the local state of one call.
LEMMA ReplaceLemma ==
    ASSUME call \in [Calls -> Call], NEW c \in Calls, NEW x \in Call,
           call' = [call EXCEPT ![c] = x]
    PROVE  /\ call' \in [Calls -> Call]
           /\ call'[c] = x
           /\ \A d \in Calls \ {c} : call'[d] = call[d]
OBVIOUS

LEMMA EndedLemma ==
    ASSUME NEW y \in Call, NEW x \in EndedPC
    PROVE  [y EXCEPT !.pc = x, !.given = NoCall, !.ts = 0, !.exists = FALSE, !.prev = Genesis]
              \in Call
<1>1. 0 \in 0..MaxClock /\ FALSE \in BOOLEAN /\ x \in CallPC /\ Genesis \in Hashes
  BY AuditWriteAssumption DEF EndedPC, CallPC, Hashes
<1> QED
  BY <1>1 DEF Call

LEMMA FetchedLemma ==
    ASSUME NEW y \in Call, NEW r \in Records, NEW h \in Calls \cup {NoCall}
    PROVE  [y EXCEPT !.pc = "fetched", !.rec = r, !.given = h] \in Call
BY DEF Call, CallPC

\* A step that only moves a call keeps the rest of it; one that ends it keeps
\* its record.
LEMMA MoveLemma ==
    ASSUME TypeOK, NEW c \in Calls, NEW x \in CallPC, Move(c, x)
    PROVE  /\ call' \in [Calls -> Call]
           /\ \A d \in Calls \ {c} : call'[d] = call[d]
           /\ call'[c].pc = x
           /\ call'[c].rec = call[c].rec
           /\ call'[c].given = call[c].given
           /\ call'[c].prev = call[c].prev
           /\ call'[c].ts = call[c].ts
           /\ call'[c].exists = call[c].exists
BY DEF TypeOK, Call, Move

LEMMA EndLemma ==
    ASSUME TypeOK, NEW c \in Calls, NEW x \in EndedPC, End(c, x)
    PROVE  /\ call' \in [Calls -> Call]
           /\ \A d \in Calls \ {c} : call'[d] = call[d]
           /\ call'[c].pc = x
           /\ call'[c].rec = call[c].rec
           /\ call'[c].given = NoCall
<1> DEFINE new == [call[c] EXCEPT !.pc = x, !.given = NoCall, !.ts = 0,
                                  !.exists = FALSE, !.prev = Genesis]
<1>0. call \in [Calls -> Call]
  BY DEF TypeOK
<1>1. call' = [call EXCEPT ![c] = new]
  BY <1>0, Zenon DEF End
<1>3. new \in Call
  BY <1>0, EndedLemma
<1>4. new.pc = x /\ new.rec = call[c].rec /\ new.given = NoCall
  BY DEF TypeOK, Call
<1> HIDE DEF new
<1> QED
  BY <1>1, <1>3, <1>4, ReplaceLemma DEF TypeOK

\* The four steps that set more of a call than its pc.
LEMMA LookLemma ==
    ASSUME TypeOK, NEW c \in Calls, Look(c)
    PROVE  /\ call' \in [Calls -> Call]
           /\ \A d \in Calls \ {c} : call'[d] = call[d]
           /\ call'[c].pc = "looked"
           /\ call'[c].rec = call[c].rec
           /\ call'[c].given = call[c].given
           /\ call'[c].ts = call[c].ts
<1> DEFINE found == stored[call[c].rec] # NoCall
           new == [call[c] EXCEPT !.pc = "looked", !.exists = found]
<1>1. call' = [call EXCEPT ![c] = new]
  BY DEF Look, TypeOK
<1>2. found \in BOOLEAN
  OBVIOUS
<1> HIDE DEF found
<1>3. new \in Call
  BY <1>2 DEF TypeOK, Call, CallPC, LockedPC
<1>4. /\ new.pc = "looked" /\ new.rec = call[c].rec
      /\ new.given = call[c].given /\ new.ts = call[c].ts
  BY DEF TypeOK, Call
<1> HIDE DEF new
<1> QED
  BY <1>1, <1>3, <1>4, ReplaceLemma DEF TypeOK

LEMMA FetchLemma ==
    ASSUME TypeOK, NEW c \in Calls, Fetch(c)
    PROVE  /\ call' \in [Calls -> Call]
           /\ \A d \in Calls \ {c} : call'[d] = call[d]
           /\ call'[c].pc = "fetched"
           /\ call'[c].rec \in Records
           /\ call'[c].given # NoCall => call'[c].given \in Newest(call'[c].rec)
<1> PICK r \in Records : \E h \in IF Newest(r) = {} THEN {NoCall} ELSE Newest(r) :
        call' = [call EXCEPT ![c].pc = "fetched", ![c].rec = r, ![c].given = h]
  BY DEF Fetch
<1> PICK h \in IF Newest(r) = {} THEN {NoCall} ELSE Newest(r) :
        call' = [call EXCEPT ![c].pc = "fetched", ![c].rec = r, ![c].given = h]
  OBVIOUS
<1> DEFINE new == [call[c] EXCEPT !.pc = "fetched", !.rec = r, !.given = h]
<1>0. call \in [Calls -> Call]
  BY DEF TypeOK
<1>1. h \in Calls \cup {NoCall} /\ (h # NoCall => h \in Newest(r))
  BY LogLemma DEF TypeOK
<1>2. call' = [call EXCEPT ![c] = new]
  BY <1>0, Zenon
<1>3. new \in Call
  BY <1>0, <1>1, FetchedLemma
<1>4. new.pc = "fetched" /\ new.rec = r /\ new.given = h
  BY DEF TypeOK, Call
<1> HIDE DEF new
<1> QED
  BY <1>1, <1>2, <1>3, <1>4, ReplaceLemma DEF TypeOK

LEMMA BeginLemma ==
    ASSUME TypeOK, NEW c \in Calls, Begin(c)
    PROVE  /\ call' \in [Calls -> Call]
           /\ \A d \in Calls \ {c} : call'[d] = call[d]
           /\ call'[c].pc = "called"
           /\ call'[c].ts = clock
           /\ call'[c].given = call[c].given
           /\ call[c].pc = "idle" \/ call'[c].rec = call[c].rec
<1> PICK r \in Records, o, t \in OrgOrNone :
        /\ call[c].pc = "fetched" => r = call[c].rec
        /\ o = NoOrg \/ t = NoOrg
        /\ call' = [call EXCEPT ![c].pc = "called", ![c].rec = r, ![c].org = o,
                                ![c].tenant = t, ![c].ts = clock]
  BY Zenon DEF Begin
<1> DEFINE new == [call[c] EXCEPT !.pc = "called", !.rec = r, !.org = o,
                                  !.tenant = t, !.ts = clock]
<1>1. clock \in 0..MaxClock
  BY AuditWriteAssumption DEF TypeOK, Clock
<1>2. call' = [call EXCEPT ![c] = new]
  BY DEF TypeOK
<1>3. new \in Call
  BY <1>1 DEF TypeOK, Call, CallPC
<1>4. new.pc = "called" /\ new.rec = r /\ new.ts = clock /\ new.given = call[c].given
  BY DEF TypeOK, Call
<1> HIDE DEF new
<1> QED
  BY <1>2, <1>3, <1>4, ReplaceLemma DEF TypeOK, Begin

LEMMA ChainLemma ==
    ASSUME TypeOK, NEW c \in Calls, Chain(c)
    PROVE  /\ call' \in [Calls -> Call]
           /\ \A d \in Calls \ {c} : call'[d] = call[d]
           /\ call'[c].pc = "chained"
           /\ call'[c].rec = call[c].rec
           /\ call'[c].given = call[c].given
           /\ call'[c].ts = call[c].ts
           /\ call'[c].exists = call[c].exists
           /\ IF call[c].given # NoCall THEN call'[c].prev = call[c].given
              ELSE IF Newest(call[c].rec) = {} THEN call'[c].prev = Genesis
              ELSE call'[c].prev \in Newest(call[c].rec)
<1> PICK h \in IF call[c].given # NoCall THEN {call[c].given}
               ELSE IF Newest(call[c].rec) = {} THEN {Genesis}
               ELSE Newest(call[c].rec) :
        call' = [call EXCEPT ![c].pc = "chained", ![c].prev = h]
  BY DEF Chain
<1> DEFINE new == [call[c] EXCEPT !.pc = "chained", !.prev = h]
<1>1. call[c].rec \in Records /\ call[c].given \in Calls \cup {NoCall}
  BY DEF TypeOK, Call
<1>2. h \in Hashes
  BY <1>1, LogLemma DEF TypeOK, Hashes
<1>3. call' = [call EXCEPT ![c] = new]
  BY DEF TypeOK
<1>4. new \in Call
  BY <1>2 DEF TypeOK, Call, CallPC, LockedPC
<1>5. /\ new.pc = "chained" /\ new.prev = h /\ new.rec = call[c].rec
      /\ new.given = call[c].given /\ new.ts = call[c].ts /\ new.exists = call[c].exists
  BY DEF TypeOK, Call
<1> HIDE DEF new
<1> QED
  BY <1>3, <1>4, <1>5, ReplaceLemma DEF TypeOK

\* The steps that touch neither the log nor the chain position of a call.
PlainStep(c) == Lock(c) \/ Look(c) \/ Upsert(c) \/ Abort(c)

LEMMA PlainLemma ==
    ASSUME TypeOK, NEW c \in Calls, PlainStep(c)
    PROVE  /\ call' \in [Calls -> Call]
           /\ \A d \in Calls \ {c} : call'[d] = call[d]
           /\ call'[c].pc \in {"locked", "looked", "written", "aborted"}
           /\ call'[c].pc # "aborted" =>
                call[c].pc \in {"called"} \cup LockedPC /\ call'[c].ts = call[c].ts
           /\ call'[c].rec = call[c].rec
           /\ call'[c].given \in {call[c].given, NoCall}
           /\ call'[c].pc = "written" /\ LocksRow(c)' =>
                \A d \in Calls \ {c} : HoldsRow(d) => call[d].rec # call[c].rec
           /\ call[c].pc # "committed"
           /\ UNCHANGED <<clock, stored, log, outbox>>
<1>1. CASE Lock(c)
  <2>1. "locked" \in CallPC /\ Move(c, "locked")
    BY <1>1 DEF Lock, CallPC, LockedPC
  <2> QED
    BY <1>1, <2>1, MoveLemma DEF Lock
<1>2. CASE Look(c)
  BY <1>2, LookLemma DEF Look, LockedPC
<1>3. CASE Upsert(c)
  <2>1. CASE Move(c, "written")
    <3>1. "written" \in CallPC
      BY DEF CallPC, LockedPC
    <3> QED
      BY <1>3, <2>1, <3>1, MoveLemma DEF Upsert, LockedPC, LocksRow
  <2>2. CASE End(c, "aborted")
    <3>1. "aborted" \in EndedPC
      BY DEF EndedPC
    <3> QED
      BY <1>3, <2>2, <3>1, EndLemma DEF Upsert
  <2> QED
    BY <1>3, <2>1, <2>2 DEF Upsert
<1>4. CASE Abort(c)
  <2>1. "aborted" \in EndedPC
    BY DEF EndedPC
  <2> QED
    BY <1>4, <2>1, EndLemma DEF Abort, LockedPC
<1> QED
  BY <1>1, <1>2, <1>3, <1>4 DEF PlainStep

\* Every step, by what it does to the calls.
LEMMA NextCases ==
    [Next]_vars <=> \/ \E c \in Calls :
                        Fetch(c) \/ Begin(c) \/ PlainStep(c) \/ Chain(c) \/ Commit(c)
                    \/ Tick
                    \/ UNCHANGED vars
BY DEF Next, Proceed, PlainStep

\* The row that a commit appends.
RowOf(c) == [hash |-> c, rec |-> call[c].rec, org |-> call[c].org,
             tenant |-> call[c].tenant, prev |-> call[c].prev, ts |-> call[c].ts,
             given |-> call[c].given # NoCall, rowlock |-> LocksRow(c)]

LEMMA CommitLemma ==
    ASSUME TypeInv, NEW c \in Calls, Commit(c)
    PROVE  /\ call[c].pc = "chained"
           /\ call[c].rec \in Records
           /\ End(c, "committed")
           /\ RowOf(c) \in AuditRow
           /\ log \in Seq(AuditRow)
           /\ log' = Append(log, RowOf(c))
           /\ stored' \in [Records -> Calls \cup {NoCall}]
           /\ outbox' \subseteq Calls
           /\ clock' = clock
<1>1. call[c] \in Call /\ call[c].pc = "chained" /\ call[c].ts \in Clock
  BY DEF TypeInv, TypeOK, Stamped, LockedPC, Commit
<1>2. (call[c].given # NoCall) \in BOOLEAN /\ LocksRow(c) \in BOOLEAN
  BY DEF LocksRow
<1>3. RowOf(c) \in AuditRow
  BY <1>1, <1>2 DEF RowOf, AuditRow, Call
<1> QED
  BY <1>1, <1>3 DEF Commit, RowOf, TypeInv, TypeOK, Call

LEMMA TypeNext == TypeInv /\ [Next]_vars => TypeInv'
<1> SUFFICES ASSUME TypeInv, [Next]_vars PROVE TypeInv'
  OBVIOUS
<1> USE DEF TypeInv
<1>1. ASSUME NEW c \in Calls, PlainStep(c) PROVE TypeInv'
  BY <1>1, PlainLemma DEF TypeOK, Stamped, LockedPC
<1>2. ASSUME NEW c \in Calls, Chain(c) PROVE TypeInv'
  BY <1>2, ChainLemma DEF Chain, TypeOK, Stamped, LockedPC
<1>3. ASSUME NEW c \in Calls, Commit(c) PROVE TypeInv'
  <2>1. "committed" \in EndedPC
    BY DEF EndedPC
  <2>2. TypeOK'
    BY <1>3, <2>1, CommitLemma, EndLemma, AppendLemma DEF TypeOK
  <2> QED
    BY <1>3, <2>1, <2>2, CommitLemma, EndLemma DEF Stamped, LockedPC
<1>4. ASSUME NEW c \in Calls, Fetch(c) PROVE TypeInv'
  BY <1>4, FetchLemma DEF Fetch, TypeOK, Stamped, LockedPC
<1>5. ASSUME NEW c \in Calls, Begin(c) PROVE TypeInv'
  <2>1. UNCHANGED <<clock, stored, log, outbox>>
    BY <1>5 DEF Begin
  <2>2. /\ call' \in [Calls -> Call] /\ call'[c].ts \in Clock
        /\ \A d \in Calls \ {c} : call'[d] = call[d]
    BY <1>5, BeginLemma DEF TypeOK
  <2> QED
    BY <2>1, <2>2 DEF TypeOK, Stamped
<1>6. ASSUME Tick PROVE TypeInv'
  <2>1. clock' \in Clock
    BY <1>6, AuditWriteAssumption DEF Tick, TypeOK, Clock
  <2> QED
    BY <1>6, <2>1 DEF Tick, TypeOK, Stamped
<1>7. CASE UNCHANGED vars
  BY <1>7 DEF vars, TypeOK, Stamped
<1> QED
  BY <1>1, <1>2, <1>3, <1>4, <1>5, <1>6, <1>7, NextCases

\* The write path keeps its state well typed, whoever calls it and when.
THEOREM TypeCorrect == Spec => []TypeOK
<1>1. TypeInv => TypeOK
  BY DEF TypeInv
<1> QED
  BY TypeInit, TypeNext, <1>1, PTL DEF Spec

-----------------------------------------------------------------------------
(* Links go back in time *)

\* Some committed row of record r has hash h.
IsRow(r, h) == \E k \in DOMAIN log : log[k].rec = r /\ log[k].hash = h

\* A hash that a call holds, its caller's or the one it chained to, is that of
\* a committed row of its record: reads see what is committed, and rows stay.
LinkInv ==
    /\ \A c \in Calls :
        /\ call[c].pc = "idle" => call[c].given = NoCall
        /\ call[c].given # NoCall => IsRow(call[c].rec, call[c].given)
        /\ call[c].pc = "chained" =>
             call[c].prev = Genesis \/ IsRow(call[c].rec, call[c].prev)
    /\ PrevIsEarlierRow

LEMMA NewestIsRow ==
    ASSUME NEW r \in Records, NEW h \in Newest(r)
    PROVE  IsRow(r, h)
BY DEF Newest, RowsOf, IsRow

LEMMA LinkInit == Init => LinkInv
<1> SUFFICES ASSUME Init PROVE LinkInv
  OBVIOUS
<1>1. \A c \in Calls : call[c].pc = "idle" /\ call[c].given = NoCall
  BY DEF Init
<1>2. DOMAIN log = {}
  BY DEF Init
<1> QED
  BY <1>1, <1>2 DEF LinkInv, PrevIsEarlierRow

LEMMA LinkNext == TypeInv /\ LinkInv /\ [Next]_vars => LinkInv'
<1> SUFFICES ASSUME TypeInv, LinkInv, [Next]_vars PROVE LinkInv'
  OBVIOUS
<1> USE DEF TypeInv
<1>1. ASSUME UNCHANGED log
      PROVE  /\ PrevIsEarlierRow'
             /\ \A r, h : IsRow(r, h)' <=> IsRow(r, h)
  BY <1>1 DEF LinkInv, PrevIsEarlierRow, IsRow
<1>2. ASSUME NEW c \in Calls, PlainStep(c) PROVE LinkInv'
  BY <1>1, <1>2, PlainLemma DEF LinkInv
<1>3. ASSUME NEW c \in Calls, Chain(c) PROVE LinkInv'
  <2>1. call[c].rec \in Records /\ UNCHANGED log
    BY <1>3 DEF TypeOK, Call, Chain
  <2>2. call'[c].prev = Genesis \/ IsRow(call[c].rec, call'[c].prev)
    BY <1>3, <2>1, ChainLemma, NewestIsRow DEF LinkInv
  <2> QED
    BY <1>1, <1>3, <2>1, <2>2, ChainLemma DEF LinkInv
<1>4. ASSUME NEW c \in Calls, Commit(c) PROVE LinkInv'
  <2>1. /\ call[c].pc = "chained"
        /\ RowOf(c) \in AuditRow
        /\ log \in Seq(AuditRow)
        /\ log' = Append(log, RowOf(c))
        /\ End(c, "committed")
        /\ "committed" \in EndedPC
    BY <1>4, CommitLemma DEF EndedPC
  <2>2. ASSUME NEW r, NEW h, IsRow(r, h) PROVE IsRow(r, h)'
    BY <2>1, <2>2, AppendLemma DEF IsRow
  <2>3. PrevIsEarlierRow'
    <3> SUFFICES ASSUME NEW i \in DOMAIN log'
                 PROVE  \/ log'[i].prev = Genesis
                        \/ \E k \in 1..(i - 1) : /\ log'[k].rec = log'[i].rec
                                               /\ log'[k].hash = log'[i].prev
      BY DEF PrevIsEarlierRow
    <3>1. CASE i \in DOMAIN log
      <4>1. \A k \in 1..(i - 1) : log'[k] = log[k]
        BY <2>1, <3>1, AppendLemma
      <4>2. log'[i] = log[i]
        BY <2>1, <3>1, AppendLemma
      <4> QED
        BY <3>1, <4>1, <4>2 DEF LinkInv, PrevIsEarlierRow
    <3>2. CASE i = Len(log) + 1
      <4>1. /\ log'[i] = RowOf(c)
            /\ 1..(i - 1) = DOMAIN log
            /\ \A k \in DOMAIN log : log'[k] = log[k]
        BY <2>1, <3>2, AppendLemma
      <4>2. call[c].prev = Genesis \/ IsRow(call[c].rec, call[c].prev)
        BY <2>1 DEF LinkInv
      <4>3. RowOf(c).prev = call[c].prev /\ RowOf(c).rec = call[c].rec
        BY DEF RowOf
      <4> QED
        BY <4>1, <4>2, <4>3 DEF IsRow
    <3> QED
      BY <2>1, <3>1, <3>2, AppendLemma
  <2>4. /\ call'[c].pc = "committed"
        /\ call'[c].given = NoCall
        /\ \A d \in Calls \ {c} : call'[d] = call[d]
    BY <2>1, EndLemma
  <2> QED
    BY <2>2, <2>3, <2>4 DEF LinkInv
<1>5. ASSUME NEW c \in Calls, Fetch(c) PROVE LinkInv'
  <2>1. UNCHANGED log
    BY <1>5 DEF Fetch
  <2>2. call'[c].given # NoCall => IsRow(call'[c].rec, call'[c].given)
    BY <1>5, FetchLemma, NewestIsRow
  <2> QED
    BY <1>1, <1>5, <2>1, <2>2, FetchLemma DEF LinkInv
<1>6. ASSUME NEW c \in Calls, Begin(c) PROVE LinkInv'
  <2>1. UNCHANGED log
    BY <1>6 DEF Begin
  <2> QED
    BY <1>1, <1>6, <2>1, BeginLemma DEF LinkInv
<1>7. CASE Tick
  BY <1>1, <1>7 DEF LinkInv, Tick
<1>8. CASE UNCHANGED vars
  BY <1>1, <1>8 DEF LinkInv, vars
<1> QED
  BY <1>2, <1>3, <1>4, <1>5, <1>6, <1>7, <1>8, NextCases

\* Every prev_hash is GENESIS or the hash of an earlier row of the same record,
\* whatever the timestamps and whoever supplied it: the links form a tree.
THEOREM PrevIsEarlierRowCorrect == Spec => []PrevIsEarlierRow
<1>1. LinkInv => PrevIsEarlierRow
  BY DEF LinkInv
<1> QED
  BY TypeInit, TypeNext, LinkInit, LinkNext, <1>1, PTL DEF Spec

-----------------------------------------------------------------------------
(* A history written in order passes the daily check *)

\* The upsert's row lock has one holder.
RowLock ==
    \A c, d \in Calls :
        HoldsRow(c) /\ HoldsRow(d) /\ call[c].rec = call[d].rec => c = d

\* The query for the last hash finds one as soon as there is a row.
NewestExists == \A r \in Records : RowsOf(r) # {} => Newest(r) # {}

\* What a call chained to under the row lock is still the newest row when it
\* commits, unless its caller gave the hash or a bare update slipped in: nobody
\* else can commit to the record meanwhile.
ChainedToNewest ==
    \A c \in Calls :
        /\ call[c].pc = "chained" /\ call[c].given = NoCall /\ LocksRow(c)
        /\ \A i \in RowsOf(call[c].rec) : log[i].rowlock
        => IF RowsOf(call[c].rec) = {}
           THEN call[c].prev = Genesis
           ELSE call[c].prev \in Newest(call[c].rec)

\* A call writes one row, when it commits: the rows have distinct hashes.
HashInv ==
    /\ \A i, k \in DOMAIN log : log[i].hash = log[k].hash => i = k
    /\ \A i \in DOMAIN log : call[log[i].hash].pc = "committed"

\* Row i of record r links to the row of r committed last before it.
FollowsLast(r, i) ==
    LET earlier == {k \in RowsOf(r) : k < i}
    IN  IF earlier = {}
        THEN log[i].prev = Genesis
        ELSE \E k \in earlier : (\A m \in earlier : m <= k) /\ log[i].prev = log[k].hash

InOrderFollows ==
    \A r \in Records : WrittenInOrder(r) => \A i \in RowsOf(r) : FollowsLast(r, i)

\* Of the rows that a check reads before place i, one was committed last.
ReadUpTo(o, r, i) == {k \in RowsOf(r) \cap ReadBy(o) : k < i}
HasLast(o, r, i) ==
    ReadUpTo(o, r, i) # {} => \E x \in ReadUpTo(o, r, i) : \A m \in ReadUpTo(o, r, i) : m <= x
LastExists == \A o \in Orgs, r \in Records : \A i \in 1..(Len(log) + 1) : HasLast(o, r, i)

OrderInv ==
    RowLock /\ NewestExists /\ ChainedToNewest /\ HashInv /\ LastExists /\ InOrderFollows

\* For a record written in order, the order of timestamps that the check reads
\* the rows in is the order of commits.
LEMMA CheckLemma == TypeInv /\ OrderInv => InOrderBreaksAtGaps
<1> SUFFICES ASSUME TypeInv, HashInv, LastExists, InOrderFollows,
                    NEW o \in Orgs, NEW r \in Records, WrittenInOrder(r),
                    NEW i \in RowsOf(r) \cap ReadBy(o)
             PROVE  log[i].prev # ExpectedPrev(o, i) <=> AfterGap(o, r, i)
  BY DEF InOrderBreaksAtGaps, BrokenLinks, OrderInv
<1> DEFINE earlier == {k \in RowsOf(r) : k < i}
           read == {k \in RowsOf(r) \cap ReadBy(o) : k < i}
<1>1. \A k \in RowsOf(r) :
        k \in DOMAIN log /\ k \in Nat /\ log[k].rec = r /\ log[k].ts \in Nat /\ log[k].hash \in Calls
  BY LogLemma DEF TypeInv, TypeOK, RowsOf, AuditRow
<1>2. \A k, m \in RowsOf(r) : k < m <=> log[k].ts < log[m].ts
  BY <1>1 DEF WrittenInOrder
<1>3. \A m \in RowsOf(r) : ReadBefore(o, m) = {k \in RowsOf(r) \cap ReadBy(o) : k < m}
  BY <1>1, <1>2 DEF ReadBefore
<1>4. ReadBefore(o, i) = read
  BY <1>3
<1>5. FollowsLast(r, i)
  BY DEF InOrderFollows
<1>6. CASE earlier = {}
  <2>1. log[i].prev = Genesis /\ ReadBefore(o, i) = {}
    BY <1>4, <1>5, <1>6 DEF FollowsLast
  <2> QED
    BY <1>6, <2>1 DEF ExpectedPrev, AfterGap
<1>7. CASE earlier # {}
  <2>1. PICK k \in earlier : (\A m \in earlier : m <= k) /\ log[i].prev = log[k].hash
    BY <1>5, <1>7 DEF FollowsLast
  <2>2. AfterGap(o, r, i) <=> k \notin ReadBy(o)
    <3>1. k \in Nat /\ k \in RowsOf(r) /\ k < i
      BY <1>1
    <3>2. ASSUME NEW x \in RowsOf(r), x < i, \A m \in RowsOf(r) : m < i => m <= x PROVE x = k
      BY <1>1, <2>1, <3>1, <3>2
    <3> QED
      BY <2>1, <3>1, <3>2 DEF AfterGap
  <2> DEFINE Last(x) == \A m \in ReadBefore(o, i) : m = x \/ x \notin ReadBefore(o, m)
             last == CHOOSE x \in ReadBefore(o, i) : Last(x)
  <2>3. CASE k \in ReadBy(o)
    <3>1. k \in ReadBefore(o, i) /\ Last(k)
      BY <1>1, <1>3, <1>4, <2>1, <2>3
    <3>2. last \in ReadBefore(o, i) /\ Last(last)
      BY <3>1
    <3>3. last = k
      BY <1>1, <1>3, <1>4, <2>1, <3>1, <3>2
    <3>4. ExpectedPrev(o, i) = log[last].hash
      BY <3>1 DEF ExpectedPrev
    <3> QED
      BY <2>1, <2>2, <2>3, <3>3, <3>4
  <2>4. CASE k \notin ReadBy(o)
    <3>1. log[k].hash \in Calls /\ k \in DOMAIN log
      BY <1>1
    <3>2. CASE ReadBefore(o, i) = {}
      BY <2>1, <2>2, <2>4, <3>1, <3>2, AuditWriteAssumption DEF ExpectedPrev
    <3>3. CASE ReadBefore(o, i) # {}
      <4>1. \A m \in ReadBefore(o, i) : m \in DOMAIN log /\ m # k
        BY <1>1, <1>4, <2>4
      <4>2. \E x \in ReadBefore(o, i) : ExpectedPrev(o, i) = log[x].hash
        <5>1. \E x \in ReadBefore(o, i) : Last(x)
          <6>1. i \in 1..(Len(log) + 1)
            BY <1>1 DEF TypeInv, TypeOK
          <6>2. read = ReadUpTo(o, r, i)
            BY DEF ReadUpTo
          <6>3. \E x \in read : \A m \in read : m <= x
            BY <1>4, <3>3, <6>1, <6>2 DEF LastExists, HasLast
          <6> QED
            BY <1>1, <1>3, <1>4, <6>3
        <5>2. last \in ReadBefore(o, i)
          BY <5>1
        <5> QED
          BY <3>3, <5>2 DEF ExpectedPrev
      <4> QED
        BY <2>1, <2>2, <2>4, <3>1, <4>1, <4>2 DEF HashInv
    <3> QED
      BY <3>2, <3>3
  <2> QED
    BY <2>3, <2>4
<1> QED
  BY <1>6, <1>7

LEMMA OrderInit == Init => OrderInv
<1> SUFFICES ASSUME Init PROVE OrderInv
  OBVIOUS
<1>1. \A c \in Calls : call[c].pc = "idle"
  BY DEF Init
<1>2. \A r \in Records : RowsOf(r) = {}
  BY DEF Init, RowsOf
<1>3. DOMAIN log = {}
  BY DEF Init
<1> QED
  BY <1>1, <1>2, <1>3 DEF OrderInv, RowLock, HoldsRow, NewestExists, ChainedToNewest, HashInv,
    LastExists, HasLast, ReadUpTo, InOrderFollows

\* The rows of each record after a commit.
LEMMA RowsLemma ==
    ASSUME NEW row \in AuditRow, log \in Seq(AuditRow), log' = Append(log, row)
    PROVE  /\ RowsOf(row.rec)' = RowsOf(row.rec) \cup {Len(log) + 1}
           /\ \A r \in Records \ {row.rec} : RowsOf(r)' = RowsOf(r) /\ Newest(r)' = Newest(r)
           /\ \A r \in Records : \A i \in RowsOf(r) :
                 i \in Nat /\ i < Len(log) + 1 /\ log'[i] = log[i] /\ log[i].ts \in Nat
           /\ log'[Len(log) + 1] = row
           /\ row.ts \in Nat
<1>1. /\ Len(log) \in Nat
      /\ DOMAIN log = 1..Len(log)
      /\ DOMAIN log' = 1..(Len(log) + 1)
      /\ log'[Len(log) + 1] = row
      /\ \A i \in DOMAIN log : i \in DOMAIN log' /\ log'[i] = log[i]
  BY AppendLemma
<1>2. RowsOf(row.rec)' = RowsOf(row.rec) \cup {Len(log) + 1}
  BY <1>1 DEF RowsOf
<1>3. \A r \in Records \ {row.rec} : RowsOf(r)' = RowsOf(r)
  BY <1>1 DEF RowsOf
<1>4. \A r \in Records : \A i \in RowsOf(r) : i \in DOMAIN log
  BY DEF RowsOf
<1>5. \A r \in Records \ {row.rec} : Newest(r)' = Newest(r)
  BY <1>1, <1>3, <1>4 DEF Newest
<1>6. row.ts \in Nat
  BY AuditWriteAssumption DEF AuditRow, Clock
<1> QED
  BY <1>1, <1>2, <1>3, <1>4, <1>5, <1>6, LogLemma

\* What the commit of call c does to the order of its record.
LEMMA OrderCommit ==
    ASSUME TypeInv, OrderInv, NEW c \in Calls, Commit(c)
    PROVE  OrderInv'
<1>1. /\ call[c].pc = "chained"
      /\ call[c].rec \in Records
      /\ RowOf(c) \in AuditRow
      /\ log \in Seq(AuditRow)
      /\ log' = Append(log, RowOf(c))
      /\ End(c, "committed")
      /\ "committed" \in EndedPC
      /\ Len(log) + 1 \in Nat
  BY CommitLemma, AppendLemma DEF EndedPC
<1> PICK r0 \in Records, row \in AuditRow, n \in Nat :
        r0 = call[c].rec /\ row = RowOf(c) /\ n = Len(log) + 1
  BY <1>1
<1>2. /\ row.rec = r0
      /\ row.prev = call[c].prev
      /\ row.ts = call[c].ts
      /\ row.given = (call[c].given # NoCall)
      /\ row.rowlock = LocksRow(c)
      /\ row.hash = c
  BY DEF RowOf
<1>3. /\ RowsOf(r0)' = RowsOf(r0) \cup {n}
      /\ \A r \in Records \ {r0} : RowsOf(r)' = RowsOf(r) /\ Newest(r)' = Newest(r)
      /\ \A r \in Records : \A i \in RowsOf(r) :
            i \in Nat /\ i < n /\ log'[i] = log[i] /\ log[i].ts \in Nat
      /\ log'[n] = row
      /\ row.ts \in Nat
  BY <1>1, <1>2, RowsLemma
<1>4. /\ call'[c].pc = "committed"
      /\ \A d \in Calls \ {c} : call'[d] = call[d]
  BY <1>1, EndLemma DEF TypeInv
<1>5. RowLock'
  BY <1>4 DEF OrderInv, RowLock, HoldsRow, LocksRow
<1>6. NewestExists'
  <2>1. Newest(r0)' # {}
    <3>1. CASE \E k \in RowsOf(r0) : /\ \A m \in RowsOf(r0) : log[m].ts <= log[k].ts
                                   /\ row.ts <= log[k].ts
      <4>1. PICK k \in RowsOf(r0)' : \A m \in RowsOf(r0)' : log'[m].ts <= log'[k].ts
        BY <1>1, <1>3, <3>1
      <4>2. log'[k].hash \in Newest(r0)'
        BY <4>1 DEF Newest
      <4> QED
        BY <4>2
    <3>2. CASE \A m \in RowsOf(r0) : log[m].ts <= row.ts
      <4>1. n \in RowsOf(r0)' /\ \A m \in RowsOf(r0)' : log'[m].ts <= log'[n].ts
        BY <1>3, <3>2
      <4>2. log'[n].hash \in Newest(r0)'
        BY <4>1 DEF Newest
      <4> QED
        BY <4>2
    <3>3. RowsOf(r0) # {} => \E k \in RowsOf(r0) : \A m \in RowsOf(r0) : log[m].ts <= log[k].ts
      BY <1>1 DEF OrderInv, NewestExists, Newest
    <3> QED
      BY <1>1, <1>3, <3>1, <3>2, <3>3
  <2> QED
    BY <1>3, <2>1 DEF OrderInv, NewestExists
<1>7. ChainedToNewest'
  <2> SUFFICES ASSUME NEW d \in Calls, call'[d].pc = "chained", call'[d].given = NoCall,
                      LocksRow(d)', NEW r, r = call'[d].rec,
                      \A i \in RowsOf(r)' : log'[i].rowlock
               PROVE  IF RowsOf(r)' = {}
                      THEN call'[d].prev = Genesis
                      ELSE call'[d].prev \in Newest(r)'
    BY DEF ChainedToNewest
  <2>1. d # c /\ call'[d] = call[d]
    BY <1>4
  <2>2. r \in Records /\ r = call[d].rec /\ LocksRow(d)
    BY <2>1 DEF TypeInv, TypeOK, Call, LocksRow
  <2>3. r = r0 => LocksRow(c)
    BY <1>2, <1>3
  <2>4. r # r0
    BY <1>1, <2>1, <2>2, <2>3 DEF OrderInv, RowLock, HoldsRow
  <2>5. \A i \in RowsOf(r) : log[i].rowlock
    BY <1>3, <2>2, <2>4
  <2>6. /\ call[d].pc = "chained" /\ call[d].given = NoCall
        /\ \A i \in RowsOf(call[d].rec) : log[i].rowlock
    BY <2>1, <2>2, <2>5
  <2>7. IF RowsOf(r) = {} THEN call[d].prev = Genesis ELSE call[d].prev \in Newest(r)
    BY <2>2, <2>6 DEF OrderInv, ChainedToNewest
  <2>8. RowsOf(r)' = RowsOf(r) /\ Newest(r)' = Newest(r)
    BY <1>3, <2>2, <2>4
  <2> QED
    BY <2>1, <2>7, <2>8
<1>8. InOrderFollows'
  <2> SUFFICES ASSUME NEW r \in Records, WrittenInOrder(r)', NEW i \in RowsOf(r)'
               PROVE  FollowsLast(r, i)'
    BY DEF InOrderFollows
  <2>1. RowsOf(r) \subseteq RowsOf(r)'
    BY <1>3
  <2>2. \A k \in RowsOf(r) : k \in Nat /\ k < n /\ log'[k] = log[k]
    BY <1>3
  <2>3. WrittenInOrder(r)
    BY <2>1, <2>2 DEF WrittenInOrder
  <2>4. CASE i \in RowsOf(r)
    <3>1. {k \in RowsOf(r)' : k < i} = {k \in RowsOf(r) : k < i}
      BY <1>1, <1>3, <2>2, <2>4
    <3>2. FollowsLast(r, i)
      BY <2>3, <2>4 DEF OrderInv, InOrderFollows
    <3> QED
      BY <2>2, <2>4, <3>1, <3>2 DEF FollowsLast
  <2>5. CASE i \notin RowsOf(r)
    <3>1. r = r0 /\ i = n /\ log'[i].prev = call[c].prev
      BY <1>2, <1>3, <2>5
    <3>2. {k \in RowsOf(r)' : k < i} = RowsOf(r)
      BY <1>1, <1>3, <2>2, <3>1
    <3>3. /\ call[c].given = NoCall /\ LocksRow(c)
          /\ \A m \in RowsOf(r) : log[m].rowlock
      BY <1>2, <1>3, <2>3, <3>1 DEF WrittenInOrder
    <3>4. CASE RowsOf(r) = {}
      BY <1>1, <3>1, <3>2, <3>3, <3>4 DEF OrderInv, ChainedToNewest, FollowsLast
    <3>5. CASE RowsOf(r) # {}
      <4>1. call[c].prev \in Newest(r)
        BY <1>1, <3>1, <3>3, <3>5 DEF OrderInv, ChainedToNewest
      <4>2. PICK k \in RowsOf(r) : /\ \A m \in RowsOf(r) : log[m].ts <= log[k].ts
                                  /\ call[c].prev = log[k].hash
        BY <4>1 DEF Newest
      <4>3. \A m \in RowsOf(r) : m <= k
        BY <1>3, <2>2, <2>3, <4>2 DEF WrittenInOrder
      <4> QED
        BY <2>2, <3>1, <3>2, <3>5, <4>2, <4>3 DEF FollowsLast
    <3> QED
      BY <3>4, <3>5
  <2> QED
    BY <2>4, <2>5
<1>9. HashInv'
  <2>1. /\ DOMAIN log = 1..Len(log) /\ DOMAIN log' = 1..(Len(log) + 1) /\ Len(log) \in Nat
        /\ \A i \in DOMAIN log : log'[i] = log[i]
    BY <1>1, AppendLemma
  <2>2. \A i \in DOMAIN log' : i \in DOMAIN log \/ i = n
    BY <2>1
  <2>3. \A i \in DOMAIN log : log[i].hash # c /\ log[i].hash \in Calls
    BY <1>1, LogLemma DEF OrderInv, HashInv, AuditRow
  <2> QED
    BY <1>2, <1>3, <1>4, <2>1, <2>2, <2>3 DEF OrderInv, HashInv
<1>10. LastExists'
  <2> SUFFICES ASSUME NEW o \in Orgs, NEW r \in Records, NEW i \in 1..(Len(log') + 1)
               PROVE  HasLast(o, r, i)'
    BY DEF LastExists
  <2>1. /\ DOMAIN log = 1..Len(log) /\ DOMAIN log' = 1..n /\ Len(log') = n /\ Len(log) \in Nat
        /\ \A k \in DOMAIN log : log'[k] = log[k]
    BY <1>1, AppendLemma
  <2>2. /\ RowsOf(r)' \ {n} = RowsOf(r) /\ ReadBy(o)' \ {n} = ReadBy(o)
        /\ n \notin RowsOf(r)
    BY <2>1 DEF RowsOf, ReadBy
  <2>3. CASE i <= n
    <3>1. ReadUpTo(o, r, i)' = ReadUpTo(o, r, i)
      BY <2>1, <2>2, <2>3 DEF ReadUpTo
    <3> QED
      BY <2>3, <3>1 DEF OrderInv, LastExists, HasLast
  <2>4. CASE i = n + 1
    <3>1. ReadUpTo(o, r, i)' \in {ReadUpTo(o, r, n), ReadUpTo(o, r, n) \cup {n}}
      <4>1. \A k \in RowsOf(r) : k \in Nat /\ k < n
        BY <1>3
      <4> QED
        BY <2>2, <2>4, <4>1 DEF ReadUpTo
    <3>2. HasLast(o, r, n)
      BY <1>1 DEF OrderInv, LastExists
    <3>3. \A k \in ReadUpTo(o, r, n) : k \in Nat /\ k < n
      BY <1>3 DEF ReadUpTo
    <3> QED
      BY <3>1, <3>2, <3>3 DEF HasLast
  <2> QED
    BY <2>1, <2>3, <2>4
<1> QED
  BY <1>5, <1>6, <1>7, <1>8, <1>9, <1>10 DEF OrderInv

LEMMA OrderNext == TypeInv /\ OrderInv /\ [Next]_vars => OrderInv'
<1> SUFFICES ASSUME TypeInv, OrderInv, [Next]_vars PROVE OrderInv'
  OBVIOUS
<1>1. ASSUME UNCHANGED log
      PROVE  /\ \A r \in Records : RowsOf(r)' = RowsOf(r) /\ Newest(r)' = Newest(r)
             /\ NewestExists'
             /\ LastExists'
             /\ InOrderFollows'
  <2>1. \A r : RowsOf(r)' = RowsOf(r)
    BY <1>1 DEF RowsOf
  <2>2. \A r : Newest(r)' = Newest(r)
    BY <1>1, <2>1 DEF Newest
  <2>3. \A r, i : FollowsLast(r, i)' <=> FollowsLast(r, i)
    BY <1>1, <2>1 DEF FollowsLast
  <2>4. \A r : WrittenInOrder(r)' <=> WrittenInOrder(r)
    BY <1>1, <2>1 DEF WrittenInOrder
  <2>5. \A o, r, i : HasLast(o, r, i)' <=> HasLast(o, r, i)
    BY <1>1, <2>1 DEF HasLast, ReadUpTo, ReadBy
  <2> QED
    BY <1>1, <2>1, <2>2, <2>3, <2>4, <2>5 DEF OrderInv, NewestExists, LastExists, InOrderFollows
<1>2. \A d \in Calls : call[d].rec \in Records
  BY DEF TypeInv, TypeOK, Call
<1>9. ASSUME UNCHANGED log,
             \A d \in Calls : call[d].pc = "committed" => call'[d].pc = "committed"
      PROVE  HashInv'
  BY <1>9, LogLemma DEF TypeInv, TypeOK, OrderInv, HashInv, AuditRow
<1>3. ASSUME NEW c \in Calls, PlainStep(c) PROVE OrderInv'
  <2>1. UNCHANGED log
    BY <1>3, PlainLemma DEF TypeInv
  <2>2. RowLock'
    BY <1>3, PlainLemma DEF TypeInv, OrderInv, RowLock, HoldsRow, LocksRow
  <2>3. ChainedToNewest'
    <3>1. /\ call'[c].pc # "chained"
          /\ \A d \in Calls \ {c} : call'[d] = call[d]
      BY <1>3, PlainLemma DEF TypeInv
    <3> QED
      BY <1>1, <1>2, <2>1, <3>1 DEF OrderInv, ChainedToNewest, LocksRow
  <2>4. HashInv'
    BY <1>3, <1>9, <2>1, PlainLemma DEF TypeInv
  <2> QED
    BY <1>1, <2>1, <2>2, <2>3, <2>4 DEF OrderInv
<1>4. ASSUME NEW c \in Calls, Chain(c) PROVE OrderInv'
  <2>1. UNCHANGED log /\ call[c].pc = "written"
    BY <1>4 DEF Chain
  <2>2. RowLock'
    BY <1>4, <2>1, ChainLemma DEF TypeInv, OrderInv, RowLock, HoldsRow, LocksRow
  <2>3. Newest(call[c].rec) = {} => RowsOf(call[c].rec) = {}
    BY <1>2 DEF OrderInv, NewestExists
  <2>4. RowsOf(call[c].rec) = {} => Newest(call[c].rec) = {}
    BY DEF Newest
  <2>5. ChainedToNewest'
    <3> SUFFICES ASSUME NEW d \in Calls, call'[d].pc = "chained", call'[d].given = NoCall,
                        LocksRow(d)', NEW r, r = call'[d].rec,
                        \A i \in RowsOf(r)' : log'[i].rowlock
                 PROVE  IF RowsOf(r)' = {}
                        THEN call'[d].prev = Genesis
                        ELSE call'[d].prev \in Newest(r)'
      BY DEF ChainedToNewest
    <3>0. /\ call'[d].rec = call[d].rec /\ call'[d].given = call[d].given
          /\ r \in Records /\ RowsOf(r)' = RowsOf(r) /\ Newest(r)' = Newest(r)
      BY <1>1, <1>2, <1>4, <2>1, ChainLemma DEF TypeInv
    <3>1. CASE d = c
      BY <1>4, <2>3, <2>4, <3>0, <3>1, ChainLemma DEF TypeInv
    <3>2. CASE d # c
      <4>1. call'[d] = call[d] /\ LocksRow(d)
        BY <1>4, <3>2, ChainLemma DEF TypeInv, LocksRow
      <4> QED
        BY <2>1, <3>0, <4>1 DEF OrderInv, ChainedToNewest
    <3> QED
      BY <3>1, <3>2
  <2>6. HashInv'
    BY <1>4, <1>9, <2>1, ChainLemma DEF TypeInv
  <2> QED
    BY <1>1, <2>1, <2>2, <2>5, <2>6 DEF OrderInv
<1>5. ASSUME NEW c \in Calls, Fetch(c) \/ Begin(c) PROVE OrderInv'
  <2>1. UNCHANGED log /\ call[c].pc \in {"idle", "fetched"}
    BY <1>5 DEF Fetch, Begin
  <2>2. /\ call'[c].pc \in {"fetched", "called"}
        /\ \A d \in Calls \ {c} : call'[d] = call[d]
    BY <1>5, FetchLemma, BeginLemma DEF TypeInv
  <2>3. RowLock'
    BY <2>2 DEF OrderInv, RowLock, HoldsRow, LocksRow
  <2>4. ChainedToNewest'
    BY <1>1, <1>2, <2>1, <2>2 DEF OrderInv, ChainedToNewest, LocksRow
  <2>5. HashInv'
    BY <1>9, <2>1, <2>2
  <2> QED
    BY <1>1, <2>1, <2>3, <2>4, <2>5 DEF OrderInv
<1>6. ASSUME UNCHANGED <<call, log>> PROVE OrderInv'
  <2>1. RowLock'
    BY <1>6 DEF OrderInv, RowLock, HoldsRow, LocksRow
  <2>2. ChainedToNewest'
    BY <1>1, <1>2, <1>6 DEF OrderInv, ChainedToNewest, LocksRow
  <2>3. HashInv'
    BY <1>6, <1>9
  <2> QED
    BY <1>1, <1>6, <2>1, <2>2, <2>3 DEF OrderInv
<1>7. Tick \/ UNCHANGED vars => UNCHANGED <<call, log>>
  BY DEF Tick, vars
<1> QED
  BY <1>3, <1>4, <1>5, <1>6, <1>7, OrderCommit, NextCases

\* What the daily check of any organisation says of a record whose rows carry
\* increasing timestamps in commit order, each written under the row lock and
\* none linked to a hash read before it: it reports exactly the links to rows
\* that it does not read. The row lock of the upsert alone sees to it, whichever
\* advisory keys the calls locked and whichever organisations they named.
THEOREM InOrderBreaksAtGapsCorrect == Spec => []InOrderBreaksAtGaps
<1> QED
  BY TypeInit, TypeNext, OrderInit, OrderNext, CheckLemma, PTL DEF Spec
=============================================================================
