------------------------------- MODULE Homes -------------------------------
(***************************************************************************)
(* Who lives where, and the eight stations of a tenant's journey: the       *)
(* route that houses a tenant in a room, the route that ticks a station     *)
(* (and, for the last one, ends the tenancy), and the board, which colours   *)
(* the stations from what is on record. Requests overlap, statement by      *)
(* statement, and may end between two of them. Every tenant counts as active.*)
(***************************************************************************)
EXTENDS Naturals, Sequences

CONSTANTS
    Tenants, Rooms,
    WithPortal,      \* rooms of landlords who have a portal of their own
    Walkers,         \* tenants whose stations are ticked (a bound)
    Papers,          \* stations whose document is on file before the first request
    Tenancies,       \* rows of tenancies (a bound)
    Desks,           \* requests at work at once (a bound)
    MaxDeskRequests  \* requests in all (a bound)

ASSUME HomesAssumption ==
    WithPortal \subseteq Rooms /\ Walkers \subseteq Tenants /\ MaxDeskRequests \in Nat

VARIABLES
    tenancy,   \* tenancy[i]: tenant, room, status
    rows,      \* rows[p]: the stations that have a row in tenant_stations
    ticked,    \* ticked[p]: those whose row has done_at
    dated,     \* tenants whose record has a moved_in date
    referred,  \* tenants whose record says how they came
    filed,     \* filed[p]: the stations whose document, or signature, is on file
    desk,      \* desk[q]: what a request is at and what it has read
    asks,      \* requests so far
    lost,      \* tenancies whose end failed
    after,     \* tenancies made for someone who had moved out
    viewings,  \* viewings[p]: entries of the diary, open and done
    muddled    \* whose viewing was assigned twice at once, taken back, or entered by
               \* hand, and not assigned again since

homeVars == <<tenancy, rows, ticked, dated, referred, filed, desk, asks, lost, after,
              viewings, muddled>>
diaryVars == <<viewings, muddled>>

Stations == <<"lead_received", "viewing", "signed_up", "moved_in", "claim_done",
              "email_sent", "onboarded", "moved_out">>
StationSet == {Stations[n] : n \in DOMAIN Stations}
\* "lead_received", the first station, is on the tenant's record: Refer.
Tickable == {"viewing", "moved_in", "onboarded", "moved_out"}
Filable == {"signed_up", "claim_done", "email_sent", "onboarded"}
ASSUME PapersAssumption == Papers \subseteq Filable
NotMadeYet == [status |-> "none"]
Free == [at |-> "free"]
Marks == {"done", "undone", "kept"}  \* what a tick says of done, "kept" being nothing

ActiveTenancies == {i \in Tenancies : tenancy[i].status = "active"}
ActiveOf(p) == {i \in ActiveTenancies : tenancy[i].tenant = p}
ActiveIn(r) == {i \in ActiveTenancies : tenancy[i].room = r}

-----------------------------------------------------------------------------
\* computeRaw: the stations whose thing exists, and those that are not needed.
OnRecord(p) ==
    (ticked[p] \cap {"viewing", "onboarded", "moved_out"}) \cup filed[p]
    \cup {s \in {"lead_received"} : p \in referred}
    \cup {s \in {"moved_in"} : p \in dated \/ ActiveOf(p) # {}}

\* With no landlord known the portal is needed.
NotNeeded(p) ==
    IF \E i \in ActiveOf(p) : tenancy[i].room \notin WithPortal THEN {"onboarded"} ELSE {}

\* Variant of Passes: the end is held like any other station.
PassesNotNeeded(p, s) == s \in NotNeeded(p)
Passes(p, s) == s \in NotNeeded(p) \/ s = "moved_out"

\* computeJourney: from the left, until the first station that is open.
Board(p) ==
    LET on == OnRecord(p)
        walk[n \in 0..Len(Stations)] ==
            IF n = 0 THEN [green |-> {}, held |-> {}, open |-> "none"]
            ELSE LET b == walk[n - 1]
                     s == Stations[n]
                 IN  IF Passes(p, s)
                     THEN [b EXCEPT !.green = @ \cup ((on \ NotNeeded(p)) \cap {s})]
                     ELSE IF s \notin on
                     THEN [b EXCEPT !.open = IF @ = "none" THEN s ELSE @]
                     ELSE IF b.open = "none" THEN [b EXCEPT !.green = @ \cup {s}]
                     ELSE [b EXCEPT !.held = @ \cup {s}]
    IN  walk[Len(Stations)]

-----------------------------------------------------------------------------
\* A request arrives at a desk, and leaves it.
Arrives(q, what) ==
    /\ desk[q] = Free /\ asks < MaxDeskRequests
    /\ asks' = asks + 1
    /\ desk' = [desk EXCEPT ![q] = what]
Leaves(q) == desk' = [desk EXCEPT ![q] = Free]

\* POST /api/tenants/[id]/journey looks the row of the station up, then writes it;
\* a viewing that is assigned goes into the diary before.
Tick(q, p, s, mark, assigned) ==
    /\ assigned => s = "viewing"
    /\ Arrives(q, [at |-> IF assigned THEN "clear" ELSE "tick",
                   tenant |-> p, station |-> s, mark |-> mark,
                   exists |-> ~assigned /\ s \in rows[p]])
    /\ UNCHANGED <<tenancy, rows, ticked, dated, referred, filed, lost, after, diaryVars>>

ClearDiary(q) ==
    /\ desk[q].at = "clear"
    /\ LET p == desk[q].tenant
       IN  /\ viewings' = [viewings EXCEPT ![p].open = 0]
           /\ muddled' = IF \E d \in Desks : desk[d].at = "enter" /\ desk[d].tenant = p
                         THEN muddled \cup {p} ELSE muddled \ {p}
    /\ desk' = [desk EXCEPT ![q].at = "enter"]
    /\ UNCHANGED <<tenancy, rows, ticked, dated, referred, filed, asks, lost, after>>

EnterDiary(q) ==
    /\ desk[q].at = "enter"
    /\ viewings' = [viewings EXCEPT ![desk[q].tenant].open = @ + 1]
    /\ desk' = [desk EXCEPT ![q].at = "look"]
    /\ UNCHANGED <<tenancy, rows, ticked, dated, referred, filed, asks, lost, after, muddled>>

LookUpRow(q) ==
    /\ desk[q].at = "look"
    /\ desk' = [desk EXCEPT ![q].at = "tick",
                            ![q].exists = desk[q].station \in rows[desk[q].tenant]]
    /\ UNCHANGED <<tenancy, rows, ticked, dated, referred, filed, asks, lost, after, diaryVars>>

\* A second row of one station is refused.
WriteRow(q) ==
    /\ desk[q].at = "tick"
    /\ LET p == desk[q].tenant
           s == desk[q].station
           mark == desk[q].mark
       IN  IF ~desk[q].exists /\ s \in rows[p]
           THEN Leaves(q) /\ UNCHANGED <<rows, ticked>>
           ELSE /\ rows' = [rows EXCEPT ![p] = @ \cup {s}]
                /\ ticked' = [ticked EXCEPT ![p] =
                      IF mark = "done" THEN @ \cup {s} ELSE IF mark = "undone" THEN @ \ {s} ELSE @]
                /\ IF s \in {"viewing", "moved_in"} /\ mark # "kept"
                   THEN desk' = [desk EXCEPT ![q].at = "follow"]
                   ELSE IF s = "moved_out" /\ mark = "done"
                   THEN desk' = [desk EXCEPT ![q] = [at |-> "find", tenant |-> p]]
                   ELSE Leaves(q)
    /\ UNCHANGED <<tenancy, dated, referred, filed, asks, lost, after, diaryVars>>

\* A viewing done or not done marks every viewing of the tenant in the diary.
MarkDiary(q) ==
    /\ desk[q].at = "follow" /\ desk[q].station = "viewing"
    /\ LET p == desk[q].tenant
           all == viewings[p].open + viewings[p].past
       IN  IF desk[q].mark = "done"
           THEN viewings' = [viewings EXCEPT ![p] = [open |-> 0, past |-> all]] /\ UNCHANGED muddled
           ELSE /\ viewings' = [viewings EXCEPT ![p] = [open |-> all, past |-> 0]]
                /\ muddled' = muddled \cup {p}
    /\ Leaves(q)
    /\ UNCHANGED <<tenancy, rows, ticked, dated, referred, filed, asks, lost, after>>

\* Confirming the move-in puts the date on the record.
WriteDate(q) ==
    /\ desk[q].at = "follow" /\ desk[q].station = "moved_in"
    /\ dated' = IF desk[q].mark = "done" THEN dated \cup {desk[q].tenant}
                                        ELSE dated \ {desk[q].tenant}
    /\ Leaves(q)
    /\ UNCHANGED <<tenancy, rows, ticked, referred, filed, asks, lost, after, diaryVars>>

\* Moving out ends the active tenancies, each by id; a failure is swallowed.
FindTenancies(q) ==
    /\ desk[q].at = "find"
    /\ desk' = [desk EXCEPT ![q] =
          [at |-> "end", tenant |-> desk[q].tenant, left |-> ActiveOf(desk[q].tenant)]]
    /\ UNCHANGED <<tenancy, rows, ticked, dated, referred, filed, asks, lost, after, diaryVars>>

EndTenancy(q, i) ==
    /\ desk[q].at = "end" /\ i \in desk[q].left
    /\ \/ tenancy' = [tenancy EXCEPT ![i].status = "ended"] /\ UNCHANGED lost
       \/ lost' = lost \cup {i} /\ UNCHANGED tenancy
    /\ desk' = [desk EXCEPT ![q].left = @ \ {i}]
    /\ UNCHANGED <<rows, ticked, dated, referred, filed, asks, after, diaryVars>>

Answers(q) ==
    /\ desk[q].at = "end" /\ desk[q].left = {}
    /\ Leaves(q)
    /\ UNCHANGED <<tenancy, rows, ticked, dated, referred, filed, asks, lost, after, diaryVars>>

\* A statement throws, or the process ends.
DeskFails(q) ==
    /\ desk[q] # Free
    /\ lost' = lost \cup (IF desk[q].at = "find" THEN ActiveOf(desk[q].tenant)
                          ELSE IF desk[q].at = "end" THEN desk[q].left ELSE {})
    /\ Leaves(q)
    /\ UNCHANGED <<tenancy, rows, ticked, dated, referred, filed, asks, after, diaryVars>>

\* Station 1 is on the tenant's record; others turn green when a paper is filed. To say
\* or to file it again changes nothing.
Refer(p) ==
    /\ p \notin referred
    /\ asks < MaxDeskRequests /\ asks' = asks + 1
    /\ referred' = referred \cup {p}
    /\ UNCHANGED <<tenancy, rows, ticked, dated, filed, desk, lost, after, diaryVars>>

FilePaper(p, s) ==
    /\ s \notin filed[p]
    /\ asks < MaxDeskRequests /\ asks' = asks + 1
    /\ filed' = [filed EXCEPT ![p] = @ \cup {s}]
    /\ UNCHANGED <<tenancy, rows, ticked, dated, referred, desk, lost, after, diaryVars>>

\* What the diary's own routes make of a tenant's viewings: one entered or reopened,
\* ticked off, or taken out, the last also by making it a viewing no more.
HandKept(v) ==
    {[v EXCEPT !.open = @ + 1]}
    \cup {w \in {[v EXCEPT !.open = v.open - 1, !.past = @ + 1], [v EXCEPT !.open = v.open - 1]} :
             v.open > 0}
    \cup {w \in {[v EXCEPT !.open = @ + 1, !.past = v.past - 1], [v EXCEPT !.past = v.past - 1]} :
             v.past > 0}

\* POST /api/diary, PATCH and DELETE /api/diary/[id]: no other entry is looked at.
KeepDiary(p) ==
    /\ asks < MaxDeskRequests /\ asks' = asks + 1
    /\ \E v \in HandKept(viewings[p]) :
          /\ viewings' = [viewings EXCEPT ![p] = v]
          /\ muddled' = IF v.open > viewings[p].open THEN muddled \cup {p} ELSE muddled
    /\ UNCHANGED <<tenancy, rows, ticked, dated, referred, filed, desk, lost, after>>

-----------------------------------------------------------------------------
\* POST /api/tenancies looks at the tenant, then at the room, then inserts.
LookAtTenant(q, p, r) ==
    /\ ActiveOf(p) = {}
    /\ Arrives(q, [at |-> "room", tenant |-> p, room |-> r])
    /\ UNCHANGED <<tenancy, rows, ticked, dated, referred, filed, lost, after, diaryVars>>

LookAtRoom(q) ==
    /\ desk[q].at = "room"
    /\ IF ActiveIn(desk[q].room) = {} THEN desk' = [desk EXCEPT ![q].at = "house"] ELSE Leaves(q)
    /\ UNCHANGED <<tenancy, rows, ticked, dated, referred, filed, asks, lost, after, diaryVars>>

\* Variant of MayHouse: no index, the two looks alone decide.
LooksDecide(p, r) == TRUE
\* The two partial unique indexes over active tenancies.
MayHouse(p, r) == ActiveOf(p) = {} /\ ActiveIn(r) = {}

House(q) ==
    /\ desk[q].at = "house"
    /\ LET p == desk[q].tenant
           r == desk[q].room
       IN  \/ /\ MayHouse(p, r)
              /\ \E i \in Tenancies :
                    /\ tenancy[i] = NotMadeYet
                    /\ tenancy' = [tenancy EXCEPT ![i] =
                          [status |-> "active", tenant |-> p, room |-> r]]
                    /\ after' = IF "moved_out" \in ticked[p] THEN after \cup {i} ELSE after
           \/ ~MayHouse(p, r) /\ UNCHANGED <<tenancy, after, diaryVars>>
    /\ Leaves(q)
    /\ UNCHANGED <<rows, ticked, dated, referred, filed, asks, lost, diaryVars>>

-----------------------------------------------------------------------------
\* Who has papers on file has said how they came.
HomeInit ==
    /\ tenancy = [i \in Tenancies |-> NotMadeYet]
    /\ rows = [p \in Tenants |-> {}] /\ ticked = rows
    /\ filed = [p \in Tenants |-> Papers] /\ referred = IF Papers = {} THEN {} ELSE Tenants
    /\ dated = {}
    /\ desk = [q \in Desks |-> Free] /\ asks = 0
    /\ lost = {} /\ after = {}
    /\ viewings = [p \in Tenants |-> [open |-> 0, past |-> 0]] /\ muddled = {}

HomeNext ==
    \/ \E q \in Desks :
          \/ \E p \in Walkers, s \in Tickable, mark \in Marks, assigned \in BOOLEAN :
                Tick(q, p, s, mark, assigned)
          \/ ClearDiary(q) \/ EnterDiary(q) \/ LookUpRow(q) \/ WriteRow(q)
          \/ MarkDiary(q) \/ WriteDate(q)
          \/ FindTenancies(q) \/ (\E i \in Tenancies : EndTenancy(q, i)) \/ Answers(q)
          \/ \E p \in Tenants, r \in Rooms : LookAtTenant(q, p, r)
          \/ LookAtRoom(q) \/ House(q) \/ DeskFails(q)
    \/ \E p \in Tenants : Refer(p) \/ \E s \in Filable : FilePaper(p, s)
    \/ \E p \in Walkers : KeepDiary(p)

HomeSpec == HomeInit /\ [][HomeNext]_homeVars

-----------------------------------------------------------------------------
(* Tenancies, stations and requests hold what the code may write. *)
HomeTypeOK ==
    /\ tenancy \in [Tenancies -> {NotMadeYet}
          \cup [status: {"active", "ended"}, tenant: Tenants, room: Rooms]]
    /\ rows \in [Tenants -> SUBSET Tickable]
    /\ ticked \in [Tenants -> SUBSET Tickable]
    /\ filed \in [Tenants -> SUBSET Filable]
    /\ dated \subseteq Tenants /\ referred \subseteq Tenants
    /\ desk \in [Desks -> {Free}
          \cup [at: {"clear", "enter", "look", "tick", "follow"}, tenant: Tenants,
                station: Tickable, mark: Marks, exists: BOOLEAN]
          \cup [at: {"find"}, tenant: Tenants]
          \cup [at: {"end"}, tenant: Tenants, left: SUBSET Tenancies]
          \cup [at: {"room", "house"}, tenant: Tenants, room: Rooms]]
    /\ asks \in 0..MaxDeskRequests
    /\ lost \subseteq Tenancies /\ after \subseteq Tenancies
    /\ viewings \in [Tenants -> [open: 0..MaxDeskRequests, past: 0..MaxDeskRequests]]
    /\ muddled \subseteq Tenants

\* A person lives in one room at a time, and a room holds one.
OneHome ==
    \A i, j \in ActiveTenancies :
        tenancy[i].tenant = tenancy[j].tenant \/ tenancy[i].room = tenancy[j].room => i = j

\* Who has moved out holds no room, except one taken since, or one whose end failed.
MovedOutHasLeft ==
    \A i \in ActiveTenancies :
        "moved_out" \in ticked[tenancy[i].tenant] =>
            \/ i \in lost \cup after
            \/ \E q \in Desks : desk[q].at \in {"find", "end"} /\ desk[q].tenant = tenancy[i].tenant

\* Green is what is on record up to the first needed station that is not; that one is open.
GreenInOrder ==
    \A p \in Tenants :
        LET on == OnRecord(p)
            skipped == NotNeeded(p) \cup {"moved_out"}
            needed == {n \in DOMAIN Stations : Stations[n] \notin skipped}
            missing == {n \in needed : Stations[n] \notin on}
            reached == {n \in needed : \A m \in missing : n < m}
            board == Board(p)
        IN  /\ board.green = {Stations[n] : n \in reached} \cup (on \cap {"moved_out"})
            /\ IF missing = {} THEN board.open = "none"
               ELSE \E m \in missing : board.open = Stations[m] /\ \A n \in missing : m <= n

\* Whoever shows the tenant round has one entry for it, unless two assigned it at once,
\* the viewing was taken back, which reopens the entries of earlier ones, or someone
\* wrote an entry by hand; to assign the viewing again puts any of these right.
OneViewing == \A p \in Tenants : viewings[p].open <= 1 \/ p \in muddled

(* A tenant has one home and a room one tenant, however the requests that    *)
(* house people and move them out overlap; who has moved out has left, but   *)
(* for a tenancy made since or one whose end failed, which nothing ends      *)
(* again; and the board fills from the left, whatever is recorded, filed or  *)
(* ticked out of order.                                                      *)
HomesAgree == OneHome /\ MovedOutHasLeft /\ OneViewing /\ GreenInOrder
=============================================================================
