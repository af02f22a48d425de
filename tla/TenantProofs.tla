---------------------------- MODULE TenantProofs -----------------------------
(***************************************************************************)
(* Proofs about people and tenants: the intake of one, the lead they were, *)
(* their identity checks and their home; and, with the proofs about an     *)
(* account, that all that MCPeople explores is well typed. For any number  *)
(* of pages, commits, leads, looks, checks, polls, tenancies and desks.    *)
(***************************************************************************)
EXTENDS MCPeople, AccountProofs

-----------------------------------------------------------------------------
(* The intake.                                                              *)
-----------------------------------------------------------------------------
WorkPlaces == {"tenant", "checklist", "room", "draft"}
StopPlaces == {"waiting", "refused", "done", "failed"}
CommitStopped == [at: StopPlaces]
CommitAtWork == [at: WorkPlaces, read: State]
CommitRequest == CommitStopped \cup CommitAtWork
Row == [step: 1..5, hash: Versions \cup {NoVersion}, state: State]
OpenTab == [at: {"open"}, kind: Kinds, copy: State, hash: Versions \cup {NoVersion}]
SavingTab == [at: {"saving"}, kind: Kinds, put: State]
Tab == {Closed} \cup OpenTab \cup SavingTab
Record == [made: {TRUE}, answers: Versions, signed: Versions]

\* A commit that is under way, or that has created its tenant.
Started(c) == UnderWay(c) \/ Made(c)
\* What a commit under way has read is signed, and its tenant comes first.
ReadsAreSigned ==
    \A c \in Commits :
        /\ UnderWay(c) => commit[c].read.signed \in Versions
        /\ commit[c].at \in {"checklist", "room", "draft"} => Made(c)
        /\ commit[c].at \in {"waiting", "tenant"} => ~ Made(c)
\* But for the excuses, one commit at most has started, and one that is over with
\* a tenant has completed the draft.
OneStarted ==
    \/ excuses \cap TenantExcuses # {}
    \/ /\ \A c, d \in Commits : Started(c) /\ Started(d) => c = d
       /\ \A c \in Commits : Made(c) /\ ~ UnderWay(c) => draft.step = 5
\* But for the excuses, a signature on the row is one of what the hash was taken of.
SignatureStands ==
    \/ excuses \cap SignatureExcuses # {}
    \/ /\ draft.state.signed \in {NoVersion, draft.hash}
       /\ \A c \in Commits :
             /\ UnderWay(c) => commit[c].read.extracted = commit[c].read.signed
             /\ Made(c) => tenants[c].answers = tenants[c].signed

\* No two tenants have the same answers, and unless other answers were reviewed
\* since, those of a commit and of a tenant are what the row's hash was taken of.
AnswersStand ==
    /\ \A c, d \in Commits :
          Made(c) /\ Made(d) /\ tenants[c].answers = tenants[d].answers => c = d
    /\ \/ "reviewed_again" \in excuses
       \/ \A c \in Commits : /\ UnderWay(c) => commit[c].read.extracted = draft.hash
                             /\ Made(c) => tenants[c].answers = draft.hash

IntakeInv == IntakeTypeOK /\ ReadsAreSigned /\ OneStarted /\ SignatureStands /\ AnswersStand

LEMMA IntakeTypes ==
    IntakeTypeOK <=>
        /\ draft \in Row /\ page \in [Pages -> Tab]
        /\ commit \in [Commits -> CommitRequest] /\ tenants \in [Commits -> {NotMade} \cup Record]
        /\ room \in {Nobody, Somebody} \cup {c \in Commits : Made(c)}
        /\ saves \in 0..MaxSaves /\ commitFaults \in 0..MaxCommitFaults
        /\ excuses \subseteq TenantExcuses \cup {"reviewed_again"} \cup SignatureExcuses
BY DEF IntakeTypeOK, Row, Tab, OpenTab, SavingTab, CommitRequest, CommitStopped, CommitAtWork,
       WorkPlaces, StopPlaces, Record

\* A request is where its place says, with what it has read.
LEMMA CommitByPlace ==
    ASSUME IntakeTypeOK, NEW c \in Commits
    PROVE  /\ UnderWay(c) <=> commit[c].at \in WorkPlaces
           /\ UnderWay(c) => commit[c] \in CommitAtWork
           /\ ~ UnderWay(c) => commit[c] \in CommitStopped
BY IntakeTypes DEF UnderWay, CommitRequest, CommitStopped, CommitAtWork, WorkPlaces, StopPlaces

LEMMA PageByPlace ==
    ASSUME IntakeTypeOK, NEW p \in Pages
    PROVE  /\ page[p].at = "open" => page[p] \in OpenTab
           /\ page[p].at = "saving" => page[p] \in SavingTab
BY IntakeTypes DEF Tab, OpenTab, SavingTab, Closed

\* Nothing but pages and counters changes.
LEMMA PagesKeepIntakeInv ==
    ASSUME IntakeInv, NEW p \in Pages, NEW new \in Tab, page' = [page EXCEPT ![p] = new],
           UNCHANGED <<draft, commit, tenants, room, saves, commitFaults, excuses>>
    PROVE  IntakeInv'
<1>t. IntakeTypeOK /\ ReadsAreSigned /\ OneStarted /\ SignatureStands /\ AnswersStand
    BY DEF IntakeInv
<1>1. page' \in [Pages -> Tab]
    BY <1>t, IntakeTypes
<1>2. IntakeTypeOK'
    BY <1>t, <1>1, IntakeTypes
       DEF IntakeTypeOK, Row, Tab, OpenTab, SavingTab, Made
<1>3. ReadsAreSigned' /\ OneStarted' /\ SignatureStands' /\ AnswersStand'
    BY <1>t DEF ReadsAreSigned, OneStarted, SignatureStands, AnswersStand, Started, UnderWay, Made
<1> QED BY <1>2, <1>3 DEF IntakeInv

LEMMA OpenPageKeepsIntakeInv ==
    ASSUME IntakeInv, NEW p \in Pages, NEW kind \in Kinds, OpenPage(p, kind) PROVE IntakeInv'
<1> DEFINE new == [at |-> "open", kind |-> kind, copy |-> draft.state, hash |-> draft.hash]
<1>1. draft \in Row
    BY IntakeTypes DEF IntakeInv
<1>2. new \in Tab
    BY <1>1 DEF Tab, OpenTab, Row
<1>3. /\ page' = [page EXCEPT ![p] = new]
      /\ UNCHANGED <<draft, commit, tenants, room, saves, commitFaults, excuses>>
    BY DEF OpenPage
<1> HIDE DEF new
<1> QED BY <1>2, <1>3, PagesKeepIntakeInv

LEMMA SubmitKeepsIntakeInv ==
    ASSUME IntakeInv, NEW p \in Pages, NEW v \in Versions, Submit(p, v) PROVE IntakeInv'
<1> DEFINE put == Merged(Body(p, v))
           new == [at |-> "saving", kind |-> page[p].kind, put |-> put]
<1>1. draft \in Row /\ page[p] \in OpenTab
    BY IntakeTypes, PageByPlace DEF IntakeInv, Submit
<1>2. Body(p, v) \in State
    BY <1>1 DEF Body, OpenTab, State
<1>3. put \in State
    BY <1>1, <1>2 DEF Merged, Row, State
<1>4. new \in Tab
    BY <1>1, <1>3 DEF Tab, SavingTab, OpenTab
<1>5. /\ page' = [page EXCEPT ![p] = new]
      /\ UNCHANGED <<draft, commit, tenants, room, saves, commitFaults, excuses>>
    BY DEF Submit
<1> HIDE DEF new
<1> QED BY <1>4, <1>5, PagesKeepIntakeInv

LEMMA SaveKeepsIntakeInv == ASSUME IntakeInv, NEW p \in Pages, Save(p) PROVE IntakeInv'
<1>t. IntakeTypeOK /\ ReadsAreSigned /\ OneStarted /\ SignatureStands /\ AnswersStand
    BY DEF IntakeInv
<1> DEFINE put == page[p].put
           kind == page[p].kind
<1>s. /\ draft' = [step |-> StepOf[kind], state |-> put,
                   hash |-> IF kind = "review" THEN put.extracted ELSE draft.hash]
      /\ excuses \subseteq excuses'
      /\ excuses' \subseteq excuses \cup {"reopened", "reviewed_again"} \cup SignatureExcuses
      /\ draft.step = 5 => "reopened" \in excuses'
      /\ kind = "review" /\ put.extracted # draft.hash /\ (\E c \in Commits : Started(c))
            => "reviewed_again" \in excuses'
      /\ kind = "review" /\ put.signed \notin {NoVersion, put.extracted}
            => "reviewed_after_signing" \in excuses'
      /\ kind = "verify" /\ put.signed # draft.hash => "signed_late" \in excuses'
      /\ kind = "extract" /\ put.signed \notin {NoVersion, draft.state.signed}
            => "signature_put_back" \in excuses'
      /\ saves < MaxSaves /\ saves' = saves + 1
      /\ page' = [page EXCEPT ![p] = Closed]
      /\ UNCHANGED <<commit, tenants, room, commitFaults>>
    BY DEF Save, SignatureExcuses, Started
<1>1. page[p] \in SavingTab /\ put \in State /\ kind \in Kinds /\ draft \in Row
    BY <1>t, IntakeTypes, PageByPlace DEF Save, SavingTab
<1>2. StepOf[kind] \in 1..5 /\ draft' \in Row
    BY <1>1, <1>s DEF Row, State, Kinds, StepOf
<1>3. IntakeTypeOK'
    <2>1. page' \in [Pages -> Tab]
        BY <1>t, <1>s, IntakeTypes DEF Tab
    <2>2. saves' \in 0..MaxSaves
        BY <1>t, <1>s, IntakeTypes, IntakeAssumption
    <2>3. excuses' \subseteq TenantExcuses \cup {"reviewed_again"} \cup SignatureExcuses
        BY <1>t, <1>s, IntakeTypes DEF TenantExcuses
    <2> QED BY <1>t, <1>s, <1>2, <2>1, <2>2, <2>3, IntakeTypes
        DEF IntakeTypeOK, Row, Tab, OpenTab, SavingTab, Made
<1>4. ReadsAreSigned'
    BY <1>t, <1>s DEF ReadsAreSigned, UnderWay, Made
<1>5. OneStarted'
    <2> SUFFICES ASSUME excuses' \cap TenantExcuses = {}
                 PROVE  /\ \A c, d \in Commits : Started(c)' /\ Started(d)' => c = d
                        /\ \A c \in Commits : Made(c)' /\ ~ UnderWay(c)' => draft'.step = 5
        BY DEF OneStarted
    <2>1. draft.step # 5
        BY <1>s DEF TenantExcuses
    <2>2. excuses \cap TenantExcuses = {}
        BY <1>s
    <2> QED BY <1>t, <1>s, <2>1, <2>2 DEF OneStarted, Started, UnderWay, Made
<1>6. SignatureStands'
    <2> SUFFICES ASSUME excuses' \cap SignatureExcuses = {}
                 PROVE  /\ draft'.state.signed \in {NoVersion, draft'.hash}
                        /\ \A c \in Commits :
                              /\ UnderWay(c)' => commit'[c].read.extracted = commit'[c].read.signed
                              /\ Made(c)' => tenants'[c].answers = tenants'[c].signed
        BY DEF SignatureStands
    <2>1. excuses \cap SignatureExcuses = {}
        BY <1>s
    <2>2. draft.state.signed \in {NoVersion, draft.hash}
        BY <1>t, <2>1 DEF SignatureStands
    <2>3. draft'.state.signed = put.signed
        BY <1>s
    <2>4. draft'.state.signed \in {NoVersion, draft'.hash}
        <3>1. CASE kind = "review"
            BY <1>s, <2>3, <3>1 DEF SignatureExcuses
        <3>2. CASE kind = "verify"
            BY <1>s, <2>3, <3>2 DEF SignatureExcuses
        <3>3. CASE kind = "extract"
            BY <1>s, <2>2, <2>3, <3>3 DEF SignatureExcuses
        <3> QED BY <1>1, <3>1, <3>2, <3>3 DEF Kinds
    <2>5. \A c \in Commits :
             /\ UnderWay(c)' => commit'[c].read.extracted = commit'[c].read.signed
             /\ Made(c)' => tenants'[c].answers = tenants'[c].signed
        BY <1>t, <1>s, <2>1 DEF SignatureStands, UnderWay, Made
    <2> QED BY <2>4, <2>5
<1>7. AnswersStand'
    <2>1. \A c \in Commits : (Made(c)' <=> Made(c)) /\ (UnderWay(c)' <=> UnderWay(c))
        BY <1>s DEF Made, UnderWay
    <2>2. ASSUME "reviewed_again" \notin excuses', NEW c \in Commits, UnderWay(c) \/ Made(c)
          PROVE  draft'.hash = draft.hash
        BY <1>s, <2>2 DEF Started
    <2>3. "reviewed_again" \notin excuses' => "reviewed_again" \notin excuses
        BY <1>s
    <2> HIDE DEF put, kind
    <2> QED BY <1>t, <1>s, <2>1, <2>2, <2>3 DEF AnswersStand
<1> QED BY <1>3, <1>4, <1>5, <1>6, <1>7 DEF IntakeInv

\* What was read from a form has no signature, and takes no step.
LEMMA ReadFormKeepsIntakeInv ==
    ASSUME IntakeInv, NEW v \in Versions, ReadForm(v) PROVE IntakeInv'
<1>t. IntakeTypeOK /\ ReadsAreSigned /\ OneStarted /\ SignatureStands /\ AnswersStand
    BY DEF IntakeInv
<1> DEFINE new == [extracted |-> v, signed |-> NoVersion]
<1>s. /\ saves < MaxSaves /\ saves' = saves + 1
      /\ draft' = [draft EXCEPT !.state = new]
      /\ UNCHANGED <<page, commit, tenants, room, commitFaults, excuses>>
    BY DEF ReadForm
<1>1. new \in State /\ new.signed = NoVersion
    BY DEF State
<1> HIDE DEF new
<1>2. /\ draft' \in Row /\ draft'.step = draft.step /\ draft'.hash = draft.hash
      /\ draft'.state = new
    BY <1>t, <1>s, <1>1, IntakeTypes DEF Row
<1>3. IntakeTypeOK'
    <2>1. saves' \in 0..MaxSaves
        BY <1>t, <1>s, IntakeTypes, IntakeAssumption
    <2> QED BY <1>t, <1>s, <1>2, <2>1, IntakeTypes
        DEF IntakeTypeOK, Row, Tab, OpenTab, SavingTab, Made
<1>4. ReadsAreSigned' /\ OneStarted' /\ AnswersStand'
    BY <1>t, <1>s, <1>2 DEF ReadsAreSigned, OneStarted, AnswersStand, Started, UnderWay, Made
<1>5. SignatureStands'
    BY <1>t, <1>s, <1>1, <1>2 DEF SignatureStands, UnderWay, Made
<1> QED BY <1>3, <1>4, <1>5 DEF IntakeInv

\* A commit goes on: nothing but what it says of the others and of itself matters.
LEMMA CommitMoves ==
    ASSUME IntakeInv, NEW c \in Commits, NEW new \in CommitRequest,
           commit' = [commit EXCEPT ![c] = new]
    PROVE  /\ commit' \in [Commits -> CommitRequest] /\ commit'[c] = new
           /\ \A d \in Commits \ {c} : commit'[d] = commit[d] /\ UnderWay(d)' = UnderWay(d)
           /\ UnderWay(c)' <=> new.at \in WorkPlaces
<1>1. commit \in [Commits -> CommitRequest]
    BY IntakeTypes DEF IntakeInv
<1> QED BY <1>1 DEF UnderWay, WorkPlaces

LEMMA CommitReadsKeepsIntakeInv ==
    ASSUME IntakeInv, NEW c \in Commits, CommitReads(c) PROVE IntakeInv'
<1>t. IntakeTypeOK /\ ReadsAreSigned /\ OneStarted /\ SignatureStands /\ AnswersStand
    BY DEF IntakeInv
<1> DEFINE new == [at |-> "tenant", read |-> draft.state]
<1>s. /\ draft.step # 5 /\ draft.state.signed # NoVersion
      /\ draft.state.extracted = draft.hash
      /\ commit[c] = Waiting /\ commit[c].at = "waiting"
      /\ commit' = [commit EXCEPT ![c] = new]
      /\ excuses \subseteq excuses' /\ excuses' \subseteq excuses \cup {"overlapped"}
      /\ \A d \in Commits : UnderWay(d) => "overlapped" \in excuses'
      /\ UNCHANGED <<draft, page, tenants, room, saves, commitFaults>>
    BY DEF CommitReads, AlreadyCompleted, Signed, HashStands, Waiting
<1>1. draft \in Row /\ draft.state \in State /\ draft.state.signed \in Versions
    BY <1>t, <1>s, IntakeTypes DEF Row, State
<1>2. new \in CommitRequest /\ new.at = "tenant" /\ new.read = draft.state
    BY <1>1 DEF CommitRequest, CommitAtWork, WorkPlaces
<1> HIDE DEF new
<1>3. /\ commit' \in [Commits -> CommitRequest] /\ commit'[c] = new
      /\ \A d \in Commits \ {c} : commit'[d] = commit[d] /\ UnderWay(d)' = UnderWay(d)
      /\ \A d \in Commits : Made(d)' = Made(d)
    BY <1>s, <1>2, CommitMoves DEF Made
<1>4. IntakeTypeOK'
    <2>1. room' \in {Nobody, Somebody} \cup {d \in Commits : Made(d)'}
        BY <1>t, <1>s, <1>3, IntakeTypes
    <2>2. excuses' \subseteq TenantExcuses \cup {"reviewed_again"} \cup SignatureExcuses
        BY <1>t, <1>s, IntakeTypes DEF TenantExcuses
    <2> QED BY <1>t, <1>s, <1>3, <2>1, <2>2, IntakeTypes
        DEF IntakeTypeOK, Row, Tab, OpenTab, SavingTab, Record,
            CommitRequest, CommitStopped, CommitAtWork, WorkPlaces, StopPlaces
<1>5. ReadsAreSigned'
    BY <1>t, <1>s, <1>1, <1>2, <1>3 DEF ReadsAreSigned
<1>6. OneStarted'
    <2> SUFFICES ASSUME excuses' \cap TenantExcuses = {}
                 PROVE  /\ \A d, e \in Commits : Started(d)' /\ Started(e)' => d = e
                        /\ \A d \in Commits : Made(d)' /\ ~ UnderWay(d)' => draft'.step = 5
        BY DEF OneStarted
    <2>1. \A d \in Commits : ~ UnderWay(d)
        BY <1>s DEF TenantExcuses
    <2>2. \A d \in Commits : ~ Made(d)
        BY <1>t, <1>s, <2>1 DEF OneStarted
    <2> QED BY <1>3, <2>1, <2>2 DEF Started
<1>7. SignatureStands'
    BY <1>t, <1>s, <1>2, <1>3 DEF SignatureStands, Made
<1>8. AnswersStand'
    <2>1. "reviewed_again" \in excuses' <=> "reviewed_again" \in excuses
        BY <1>s
    <2>2. commit'[c].read.extracted = draft.hash /\ UNCHANGED <<draft, tenants>>
        BY <1>s, <1>2, <1>3
    <2>3. \A d \in Commits : UnderWay(d)' => d = c \/ (UnderWay(d) /\ commit'[d] = commit[d])
        BY <1>3
    <2>4. \A d \in Commits : Made(d)' <=> Made(d)
        BY <1>3
    <2>5. ASSUME "reviewed_again" \notin excuses', NEW d \in Commits
          PROVE  /\ UnderWay(d)' => commit'[d].read.extracted = draft'.hash
                 /\ Made(d)' => tenants'[d].answers = draft'.hash
        BY <2>1, <2>2, <2>3, <2>4, <2>5, <1>t DEF AnswersStand
    <2>6. \A d, e \in Commits :
             Made(d)' /\ Made(e)' /\ tenants'[d].answers = tenants'[e].answers => d = e
        BY <2>2, <2>4, <1>t DEF AnswersStand
    <2> QED BY <2>5, <2>6 DEF AnswersStand
<1> QED BY <1>4, <1>5, <1>6, <1>7, <1>8 DEF IntakeInv

LEMMA CreateTenantKeepsIntakeInv ==
    ASSUME IntakeInv, NEW c \in Commits, CreateTenant(c) PROVE IntakeInv'
<1>t. IntakeTypeOK /\ ReadsAreSigned /\ OneStarted /\ SignatureStands /\ AnswersStand
    BY DEF IntakeInv
<1> DEFINE new == [commit[c] EXCEPT !.at = "checklist"]
           rec == [made |-> TRUE, answers |-> commit[c].read.extracted,
                   signed |-> commit[c].read.signed]
<1>s. /\ commit[c].at = "tenant" /\ commit' = [commit EXCEPT ![c] = new]
      /\ ~ HashTaken(c)
      /\ tenants' = [tenants EXCEPT ![c] = rec]
      /\ UNCHANGED <<draft, page, room, saves, commitFaults, excuses>>
    BY DEF CreateTenant
<1>1. UnderWay(c) /\ commit[c] \in CommitAtWork /\ commit[c].read.signed \in Versions
    BY <1>t, <1>s, CommitByPlace DEF WorkPlaces, ReadsAreSigned
<1>2. /\ new \in CommitRequest /\ new.at = "checklist" /\ new.read = commit[c].read
      /\ rec \in Record /\ rec.answers = commit[c].read.extracted
      /\ rec.signed = commit[c].read.signed
    BY <1>1 DEF CommitRequest, CommitAtWork, WorkPlaces, Record, State
<1>3. rec # NotMade
    BY <1>2 DEF Record, NotMade
<1> HIDE DEF new, rec
<1>4. /\ commit' \in [Commits -> CommitRequest] /\ commit'[c] = new /\ UnderWay(c)'
      /\ \A d \in Commits \ {c} : commit'[d] = commit[d] /\ UnderWay(d)' = UnderWay(d)
    BY <1>s, <1>2, CommitMoves DEF WorkPlaces
<1>5. /\ tenants' \in [Commits -> {NotMade} \cup Record] /\ tenants'[c] = rec /\ Made(c)'
      /\ \A d \in Commits \ {c} : tenants'[d] = tenants[d] /\ Made(d)' = Made(d)
    BY <1>t, <1>s, <1>2, <1>3, IntakeTypes DEF Made
<1>6. IntakeTypeOK'
    <2>1. room \in {Nobody, Somebody} \cup {d \in Commits : Made(d)'}
        BY <1>t, <1>5, IntakeTypes
    <2> QED BY <1>t, <1>s, <1>4, <1>5, <2>1, IntakeTypes
        DEF IntakeTypeOK, Row, Tab, OpenTab, SavingTab, Record,
            CommitRequest, CommitStopped, CommitAtWork, WorkPlaces, StopPlaces
<1>7. ReadsAreSigned'
    BY <1>t, <1>1, <1>2, <1>4, <1>5 DEF ReadsAreSigned
<1>8. OneStarted'
    BY <1>t, <1>s, <1>1, <1>4, <1>5 DEF OneStarted, Started
<1>9. SignatureStands'
    BY <1>t, <1>s, <1>1, <1>2, <1>4, <1>5 DEF SignatureStands
<1>10. AnswersStand'
    <2>1. \A d \in Commits : Made(d) => tenants[d].answers # rec.answers
        BY <1>s, <1>2 DEF HashTaken
    <2> QED BY <2>1, <1>t, <1>s, <1>1, <1>2, <1>4, <1>5 DEF AnswersStand
<1> QED BY <1>6, <1>7, <1>8, <1>9, <1>10 DEF IntakeInv

\* A commit that has its tenant, or has not and stops, writes nothing of the two.
LEMMA CommitGoesOn ==
    ASSUME IntakeInv, NEW c \in Commits, UnderWay(c), NEW new \in CommitRequest,
           commit' = [commit EXCEPT ![c] = new],
           new.at \in WorkPlaces => new.read = commit[c].read,
           new.at \in {"checklist", "room", "draft"} => Made(c),
           new.at \notin {"waiting", "tenant"},
           /\ draft' = draft \/ draft' = [draft EXCEPT !.step = 5]
           /\ Made(c) /\ new.at \notin WorkPlaces =>
                 draft'.step = 5 \/ "left_open" \in excuses',
           excuses \subseteq excuses', excuses' \subseteq excuses \cup {"left_open"},
           room' \in {room, c}, room' = c => Made(c) \/ room = c,
           commitFaults' \in 0..MaxCommitFaults,
           UNCHANGED <<page, tenants, saves>>
    PROVE  IntakeInv'
<1>t. IntakeTypeOK /\ ReadsAreSigned /\ OneStarted /\ SignatureStands /\ AnswersStand
    BY DEF IntakeInv
<1>1. /\ commit' \in [Commits -> CommitRequest] /\ commit'[c] = new
      /\ \A d \in Commits \ {c} : commit'[d] = commit[d] /\ UnderWay(d)' = UnderWay(d)
      /\ UnderWay(c)' <=> new.at \in WorkPlaces
      /\ \A d \in Commits : Made(d)' = Made(d)
    BY CommitMoves DEF Made
<1>2. /\ draft \in Row /\ draft' \in Row
      /\ draft'.state = draft.state /\ draft'.hash = draft.hash
      /\ draft.step = 5 => draft'.step = 5
    BY <1>t, IntakeTypes DEF Row
<1>3. IntakeTypeOK'
    <2>1. room' \in {Nobody, Somebody} \cup {d \in Commits : Made(d)'}
        BY <1>t, <1>1, IntakeTypes
    <2>2. excuses' \subseteq TenantExcuses \cup {"reviewed_again"} \cup SignatureExcuses
        BY <1>t, IntakeTypes DEF TenantExcuses
    <2> QED BY <1>t, <1>1, <1>2, <2>1, <2>2, IntakeTypes
        DEF IntakeTypeOK, Row, Tab, OpenTab, SavingTab, Record,
            CommitRequest, CommitStopped, CommitAtWork, WorkPlaces, StopPlaces
<1>4. ReadsAreSigned'
    BY <1>t, <1>1 DEF ReadsAreSigned, WorkPlaces
<1>5. OneStarted'
    <2> SUFFICES ASSUME excuses' \cap TenantExcuses = {}
                 PROVE  /\ \A d, e \in Commits : Started(d)' /\ Started(e)' => d = e
                        /\ \A d \in Commits : Made(d)' /\ ~ UnderWay(d)' => draft'.step = 5
        BY DEF OneStarted
    <2>1. excuses \cap TenantExcuses = {}
        OBVIOUS
    <2>2. \A d \in Commits : Started(d)' => Started(d)
        BY <1>1 DEF Started
    <2>3. "left_open" \notin excuses'
        BY DEF TenantExcuses
    <2> QED BY <1>t, <1>1, <1>2, <2>1, <2>2, <2>3 DEF OneStarted
<1>6. SignatureStands'
    BY <1>t, <1>1, <1>2 DEF SignatureStands, SignatureExcuses
<1>7. AnswersStand'
    <2>1. "reviewed_again" \in excuses' <=> "reviewed_again" \in excuses
        OBVIOUS
    <2> QED BY <2>1, <1>t, <1>1, <1>2 DEF AnswersStand, WorkPlaces
<1> QED BY <1>3, <1>4, <1>5, <1>6, <1>7 DEF IntakeInv

\* Where it goes on to, it takes along what it has read.
LEMMA CommitTo ==
    ASSUME IntakeInv, NEW c \in Commits, UnderWay(c), NEW place \in WorkPlaces
    PROVE  LET new == [commit[c] EXCEPT !.at = place]
           IN  new \in CommitRequest /\ new.at = place /\ new.read = commit[c].read
<1>1. commit[c] \in CommitAtWork
    BY CommitByPlace DEF IntakeInv
<1> QED BY <1>1 DEF CommitRequest, CommitAtWork

LEMMA CommitStepsKeepIntakeInv ==
    ASSUME IntakeInv, NEW c \in Commits,
           \/ CreateRefused(c) \/ CreateChecklist(c) \/ LinkRoom(c)
           \/ CompleteDraft(c) \/ CommitEnds(c)
    PROVE  IntakeInv'
<1>t. IntakeTypeOK /\ ReadsAreSigned
    BY DEF IntakeInv
<1>f. commitFaults \in 0..MaxCommitFaults
    BY <1>t, IntakeTypes
<1>m. commit[c].at \in {"checklist", "room", "draft"} => UnderWay(c) /\ Made(c)
    BY <1>t DEF ReadsAreSigned, UnderWay
<1>1. CASE CreateChecklist(c)
    <2> DEFINE new == [commit[c] EXCEPT !.at = "room"]
    <2>1. /\ commit[c].at = "checklist" /\ commit' = [commit EXCEPT ![c] = new]
          /\ UNCHANGED <<draft, page, tenants, room, saves, commitFaults, excuses>>
        BY <1>1 DEF CreateChecklist
    <2>2. new \in CommitRequest /\ new.at = "room" /\ new.read = commit[c].read
        BY <1>m, <2>1, CommitTo DEF WorkPlaces
    <2> HIDE DEF new
    <2> QED BY <1>f, <1>m, <2>1, <2>2, CommitGoesOn DEF WorkPlaces
<1>2. CASE LinkRoom(c)
    <2> DEFINE onward == [commit[c] EXCEPT !.at = "draft"]
               refused == [at |-> "refused"]
    <2>s. commit[c].at = "room" /\ UNCHANGED <<draft, page, tenants, saves, commitFaults>>
        BY <1>2 DEF LinkRoom
    <2>1. onward \in CommitRequest /\ onward.at = "draft" /\ onward.read = commit[c].read
        BY <1>m, <2>s, CommitTo DEF WorkPlaces
    <2>2. refused \in CommitRequest /\ refused.at = "refused" /\ refused.at \notin WorkPlaces
        BY DEF CommitRequest, CommitStopped, StopPlaces, WorkPlaces
    <2>3. \/ /\ room' = c /\ commit' = [commit EXCEPT ![c] = onward]
             /\ UNCHANGED excuses
          \/ /\ commit' = [commit EXCEPT ![c] = refused]
             /\ excuses' = excuses \cup {"left_open"}
             /\ UNCHANGED room
          \/ /\ commit' = [commit EXCEPT ![c] = onward]
             /\ UNCHANGED <<room, excuses>>
        BY <1>2 DEF LinkRoom
    <2> HIDE DEF onward, refused
    <2>4. CASE /\ room' = c /\ commit' = [commit EXCEPT ![c] = onward]
               /\ UNCHANGED excuses
        BY <1>f, <1>m, <2>s, <2>1, <2>4, CommitGoesOn DEF WorkPlaces
    <2>5. CASE /\ commit' = [commit EXCEPT ![c] = refused]
               /\ excuses' = excuses \cup {"left_open"}
               /\ UNCHANGED room
        BY <1>f, <1>m, <2>s, <2>2, <2>5, CommitGoesOn
    <2>6. CASE /\ commit' = [commit EXCEPT ![c] = onward]
               /\ UNCHANGED <<room, excuses>>
        BY <1>f, <1>m, <2>s, <2>1, <2>6, CommitGoesOn DEF WorkPlaces
    <2> QED BY <2>3, <2>4, <2>5, <2>6
<1>3. CASE CompleteDraft(c)
    <2> DEFINE new == [at |-> "done"]
    <2>1. /\ commit[c].at = "draft" /\ commit' = [commit EXCEPT ![c] = new]
          /\ draft' = [draft EXCEPT !.step = 5]
          /\ UNCHANGED <<page, tenants, room, saves, commitFaults, excuses>>
        BY <1>3 DEF CompleteDraft
    <2>2. /\ new \in CommitRequest /\ new.at \notin WorkPlaces
          /\ new.at \notin {"waiting", "tenant"}
        BY DEF CommitRequest, CommitStopped, StopPlaces, WorkPlaces
    <2>3. draft'.step = 5
        BY <1>t, <2>1, IntakeTypes DEF Row
    <2> HIDE DEF new
    <2> QED BY <1>f, <1>m, <2>1, <2>2, <2>3, CommitGoesOn DEF WorkPlaces
<1>5. CASE CreateRefused(c)
    <2> DEFINE new == [at |-> "failed"]
    <2>1. /\ commit[c].at = "tenant" /\ commit' = [commit EXCEPT ![c] = new]
          /\ UNCHANGED <<draft, page, tenants, room, saves, commitFaults, excuses>>
        BY <1>5 DEF CreateRefused
    <2>2. new \in CommitRequest /\ new.at = "failed" /\ new.at \notin WorkPlaces
        BY DEF CommitRequest, CommitStopped, StopPlaces, WorkPlaces
    <2>3. UnderWay(c) /\ ~ Made(c)
        BY <1>t, <2>1 DEF UnderWay, ReadsAreSigned
    <2> HIDE DEF new
    <2> QED BY <1>f, <2>1, <2>2, <2>3, CommitGoesOn
<1>4. CASE CommitEnds(c)
    <2> DEFINE new == [at |-> "failed"]
    <2>1. /\ UnderWay(c) /\ CommitFault /\ commit' = [commit EXCEPT ![c] = new]
          /\ excuses \subseteq excuses' /\ excuses' \subseteq excuses \cup {"left_open"}
          /\ Made(c) => "left_open" \in excuses'
          /\ UNCHANGED <<draft, page, tenants, room, saves>>
        BY <1>4 DEF CommitEnds
    <2>2. new \in CommitRequest /\ new.at \notin WorkPlaces
        BY DEF CommitRequest, CommitStopped, StopPlaces, WorkPlaces
    <2>3. commitFaults' \in 0..MaxCommitFaults
        BY <1>f, <2>1, IntakeAssumption DEF CommitFault
    <2> HIDE DEF new
    <2>4. new.at \notin {"waiting", "tenant"}
        BY DEF new
    <2> QED BY <2>1, <2>2, <2>3, <2>4, CommitGoesOn DEF WorkPlaces
<1> QED BY <1>1, <1>2, <1>3, <1>4, <1>5

LEMMA RoomTakenKeepsIntakeInv == ASSUME IntakeInv, RoomTaken PROVE IntakeInv'
<1>t. IntakeTypeOK /\ ReadsAreSigned /\ OneStarted /\ SignatureStands /\ AnswersStand
    BY DEF IntakeInv
<1>s. room' = Somebody /\ UNCHANGED <<draft, page, commit, tenants, saves, commitFaults, excuses>>
    BY DEF RoomTaken
<1>1. IntakeTypeOK'
    BY <1>t, <1>s DEF IntakeTypeOK
<1>2. ReadsAreSigned' /\ OneStarted' /\ SignatureStands' /\ AnswersStand'
    BY <1>t, <1>s DEF ReadsAreSigned, OneStarted, SignatureStands, AnswersStand, Started, UnderWay, Made
<1> QED BY <1>1, <1>2 DEF IntakeInv

LEMMA IntakeInvInit == IntakeInit => IntakeInv
<1> SUFFICES ASSUME IntakeInit PROVE IntakeInv
    OBVIOUS
<1> USE DEF IntakeInit
<1>1. PICK v \in Versions :
          draft = [step |-> 1, hash |-> NoVersion,
                   state |-> [extracted |-> v, signed |-> NoVersion]]
    OBVIOUS
<1>2. /\ draft \in Row /\ draft.state.signed = NoVersion
      /\ \A c \in Commits : ~ UnderWay(c) /\ ~ Made(c)
    BY <1>1 DEF Row, State, UnderWay, Made, Waiting
<1>3. saves \in 0..MaxSaves /\ commitFaults \in 0..MaxCommitFaults
    BY IntakeAssumption
<1>4. commit \in [Commits -> CommitRequest] /\ page \in [Pages -> Tab]
    BY DEF Waiting, CommitRequest, CommitStopped, StopPlaces, Tab
<1>5. IntakeTypeOK
    BY <1>2, <1>3, <1>4, IntakeTypes
<1>6. ReadsAreSigned
    BY <1>2 DEF ReadsAreSigned, UnderWay, Waiting
<1>7. OneStarted /\ SignatureStands /\ AnswersStand
    BY <1>2 DEF OneStarted, SignatureStands, AnswersStand, Started
<1> QED BY <1>5, <1>6, <1>7 DEF IntakeInv

LEMMA IntakeInvNext == IntakeInv /\ [IntakeNext]_intakeVars => IntakeInv'
<1> SUFFICES ASSUME IntakeInv, [IntakeNext]_intakeVars PROVE IntakeInv'
    OBVIOUS
<1>1. ASSUME NEW p \in Pages,
             \/ \E kind \in Kinds : OpenPage(p, kind)
             \/ \E v \in Versions : Submit(p, v)
             \/ Save(p)
      PROVE  IntakeInv'
    BY <1>1, OpenPageKeepsIntakeInv, SubmitKeepsIntakeInv, SaveKeepsIntakeInv
<1>2. ASSUME NEW c \in Commits, CommitStep(c) PROVE IntakeInv'
    BY <1>2, CommitReadsKeepsIntakeInv, CreateTenantKeepsIntakeInv, CommitStepsKeepIntakeInv
       DEF CommitStep
<1>3. CASE RoomTaken
    BY <1>3, RoomTakenKeepsIntakeInv
<1>4. CASE UNCHANGED intakeVars
    BY <1>4 DEF intakeVars, IntakeInv, IntakeTypeOK, ReadsAreSigned, OneStarted,
                SignatureStands, AnswersStand, Started, UnderWay, Made
<1>5. ASSUME NEW v \in Versions, ReadForm(v) PROVE IntakeInv'
    BY <1>5, ReadFormKeepsIntakeInv
<1> QED BY <1>1, <1>2, <1>3, <1>4, <1>5 DEF IntakeNext

\* Two tenants would be two commits that started, with different answers.
LEMMA StartedOnceMadeOnce == OneStarted /\ AnswersStand => OneTenantPerIntake
<1> DEFINE made == {c \in Commits : Made(c)}
<1> SUFFICES ASSUME OneStarted, AnswersStand,
                    \/ "reviewed_again" \notin excuses
                    \/ excuses \cap TenantExcuses = {}
             PROVE  Cardinality(made) <= 1
    BY DEF OneTenantPerIntake
<1>0. ASSUME NEW c \in made, NEW d \in made PROVE c = d
    <2>0. Made(c) /\ Made(d)
        OBVIOUS
    <2>1. CASE "reviewed_again" \notin excuses
        <3>1. tenants[c].answers = tenants[d].answers
            BY <2>0, <2>1 DEF AnswersStand
        <3> QED BY <2>0, <3>1 DEF AnswersStand
    <2>2. CASE excuses \cap TenantExcuses = {}
        BY <2>0, <2>2 DEF OneStarted, Started
    <2> QED BY <2>1, <2>2
<1>1. CASE made = {}
    BY <1>1, FS_EmptySet
<1>2. ASSUME NEW c \in made PROVE Cardinality(made) <= 1
    <2>1. made = {c}
        BY <1>0
    <2> QED BY <2>1, FS_Singleton
<1> QED BY <1>1, <1>2

LEMMA SignatureStandsAsCommitted == SignatureStands => CommittedAsSigned
BY DEF SignatureStands, CommittedAsSigned

(* The row of a draft, its tabs and its commits hold what the code may write,  *)
(* and a room that a commit took is held by a tenant who exists: what a commit *)
(* has read is signed, since the check on the signature comes first.           *)
THEOREM IntakeTypeCorrect == IntakeSpec => []IntakeTypeOK
<1>1. IntakeInv => IntakeTypeOK
    BY DEF IntakeInv
<1> QED BY <1>1, IntakeInvInit, IntakeInvNext, PTL DEF IntakeSpec

(* However many commits of one draft are sent, repeated or overlap, wherever   *)
(* they stop, and whatever the tabs save: one of them creates a tenant, unless *)
(* other answers were reviewed after a commit had read the draft, and a second *)
(* commit got past the step.                                                   *)
THEOREM OneTenantAlways == IntakeSpec => []OneTenantPerIntake
<1>1. IntakeInv => OneTenantPerIntake
    BY StartedOnceMadeOnce DEF IntakeInv
<1> QED BY <1>1, IntakeInvInit, IntakeInvNext, PTL DEF IntakeSpec

(* The answers of a tenant record are those its signature was given for, with  *)
(* any number of tabs and saves, but for a review after the signature, a       *)
(* signature after another review, and one that an old copy put back.          *)
THEOREM AlwaysCommittedAsSigned == IntakeSpec => []CommittedAsSigned
<1>1. IntakeInv => CommittedAsSigned
    BY SignatureStandsAsCommitted DEF IntakeInv
<1> QED BY <1>1, IntakeInvInit, IntakeInvNext, PTL DEF IntakeSpec

-----------------------------------------------------------------------------
(* The board of leads.                                                      *)
-----------------------------------------------------------------------------
LeadRow == [stage: LeadStages, tenant: moved \cup {NobodyYet}]
Lead == {Deleted} \cup LeadRow
LinkerClosing == [at: {"close"}, lead: Leads]
Linker == {AtRest, [at |-> "read"]} \cup LinkerClosing
Viewer == {AtRest} \cup [at: {"tenants", "walk"}, offers: SUBSET Leads, todo: SUBSET moved]
EditWriting == [at: {"write"}, lead: Leads, stage: LeadStages]
Editor == {AtRest} \cup EditWriting

\* The lead is one that may become this tenant.
Named(l, t) == CarriedLead[t] = l \/ <<l, t>> \in SameName
\* A link that has chosen its lead belongs to a tenant who exists, and fits.
LinksFit ==
    \A t \in People :
        /\ linker[t] # AtRest => t \in moved
        /\ linker[t].at = "close" => Named(linker[t].lead, t)

BoardInv == BoardTypeOK /\ LeadsNameTheirTenant /\ LinksFit

LEMMA BoardTypes ==
    BoardTypeOK <=>
        /\ lead \in [Leads -> Lead] /\ moved \subseteq People /\ archived \subseteq moved
        /\ linker \in [People -> Linker] /\ viewer \in [Viewers -> Viewer]
        /\ editor \in [Editors -> Editor] /\ edits \in 0..MaxEdits /\ editedLate \subseteq Leads
BY DEF BoardTypeOK, Lead, LeadRow, Linker, LinkerClosing, Viewer, Editor, EditWriting

\* What is picked for a tenant has the tenant's name.
LEMMA PicksAreNamed ==
    ASSUME NEW offers \in SUBSET Leads, NEW t \in People
    PROVE  \A l \in Picks(offers, t) : l \in offers /\ Named(l, t)
BY DEF Picks, IsPerson, Named

\* The requests go on; the rows stay.
LEMMA RequestsKeepBoardInv ==
    ASSUME BoardInv, UNCHANGED <<lead, editedLate>>,
           moved \subseteq moved', moved' \subseteq People, archived' \subseteq moved',
           linker' \in [People -> Linker], LinksFit',
           viewer' \in [Viewers -> Viewer'], editor' \in [Editors -> Editor],
           edits' \in 0..MaxEdits
    PROVE  BoardInv'
<1>t. BoardTypeOK /\ LeadsNameTheirTenant
    BY DEF BoardInv
<1>1. lead' \in [Leads -> Lead']
    BY <1>t, BoardTypes DEF Lead, LeadRow
<1>2. BoardTypeOK'
    BY <1>t, <1>1, BoardTypes DEF BoardTypeOK, Lead, LeadRow, Linker, LinkerClosing, Viewer, Editor, EditWriting
<1>3. LeadsNameTheirTenant'
    BY <1>t DEF LeadsNameTheirTenant
<1> QED BY <1>2, <1>3 DEF BoardInv

\* A closing: the lead is of the tenant it is closed for.
LEMMA ClosingKeepsBoardInv ==
    ASSUME BoardInv, NEW l \in Leads, NEW t \in moved, Named(l, t), CloseLead(l, t),
           linker' \in [People -> Linker], LinksFit', viewer' \in [Viewers -> Viewer],
           UNCHANGED <<moved, archived, editor, edits, editedLate>>
    PROVE  BoardInv'
<1>t. BoardTypeOK /\ LeadsNameTheirTenant
    BY DEF BoardInv
<1> DEFINE new == [stage |-> "moved_in", tenant |-> t]
<1>1. new \in Lead /\ new.stage = "moved_in" /\ new.tenant = t
    BY DEF Lead, LeadRow, LeadStages
<1>2. lead' = [lead EXCEPT ![l] = new]
    BY DEF CloseLead
<1> HIDE DEF new
<1>3. /\ lead' \in [Leads -> Lead] /\ lead'[l] = new
      /\ \A k \in Leads \ {l} : lead'[k] = lead[k]
    BY <1>t, <1>1, <1>2, BoardTypes
<1>4. BoardTypeOK'
    BY <1>t, <1>3, BoardTypes DEF BoardTypeOK, Lead, LeadRow, Linker, LinkerClosing, Viewer, Editor, EditWriting
<1>5. t # NobodyYet
    BY <1>t, LeadBoardAssumption DEF BoardTypeOK
<1>6. LeadsNameTheirTenant'
    BY <1>t, <1>1, <1>3, <1>5 DEF LeadsNameTheirTenant, Named
<1> QED BY <1>4, <1>6 DEF BoardInv

LEMMA EditReadsKeepsBoardInv ==
    ASSUME BoardInv, NEW e \in Editors, NEW l \in Leads, EditReads(e, l) PROVE BoardInv'
<1>t. BoardTypeOK /\ LinksFit
    BY DEF BoardInv
<1> DEFINE new == [at |-> "write", lead |-> l, stage |-> lead[l].stage]
<1>s. /\ edits < MaxEdits /\ edits' = edits + 1 /\ editor' = [editor EXCEPT ![e] = new]
      /\ UNCHANGED <<lead, moved, archived, linker, viewer, editedLate>>
      /\ Present(l)
    BY DEF EditReads
<1>1. lead[l] \in LeadRow
    BY <1>t, <1>s, BoardTypes DEF Lead, Present
<1>2. new \in Editor
    BY <1>1 DEF LeadRow, Editor, EditWriting
<1> HIDE DEF new
<1>3. editor' \in [Editors -> Editor] /\ edits' \in 0..MaxEdits
    BY <1>t, <1>s, <1>2, BoardTypes, LeadBoardAssumption
<1>4. LinksFit' /\ Viewer' = Viewer
    BY <1>t, <1>s DEF LinksFit, Viewer
<1> QED BY <1>t, <1>s, <1>3, <1>4, BoardTypes, RequestsKeepBoardInv

\* A lead's stage is written, or its row is deleted: it points where it pointed,
\* and where it was closed it is known to have been edited late.
LEMMA LeadWrittenKeepsBoardInv ==
    ASSUME BoardInv, NEW l \in Leads, NEW new \in Lead, lead' = [lead EXCEPT ![l] = new],
           new.tenant # NobodyYet => new.tenant = lead[l].tenant /\ l \in editedLate',
           editedLate \subseteq editedLate', editedLate' \subseteq Leads,
           editor' \in [Editors -> Editor],
           UNCHANGED <<moved, archived, linker, viewer, edits>>
    PROVE  BoardInv'
<1>t. BoardTypeOK /\ LeadsNameTheirTenant /\ LinksFit
    BY DEF BoardInv
<1>1. /\ lead' \in [Leads -> Lead] /\ lead'[l] = new
      /\ \A k \in Leads \ {l} : lead'[k] = lead[k]
    BY <1>t, BoardTypes
<1>2. BoardTypeOK'
    BY <1>t, <1>1, BoardTypes
       DEF BoardTypeOK, Lead, LeadRow, Linker, LinkerClosing, Viewer, Editor, EditWriting
<1>3. LeadsNameTheirTenant'
    BY <1>t, <1>1 DEF LeadsNameTheirTenant
<1>4. LinksFit'
    BY <1>t DEF LinksFit
<1> QED BY <1>2, <1>3, <1>4 DEF BoardInv

LEMMA EditWritesKeepsBoardInv ==
    ASSUME BoardInv, NEW e \in Editors, NEW action \in EditActions, EditWrites(e, action)
    PROVE  BoardInv'
<1>t. BoardTypeOK /\ LinksFit
    BY DEF BoardInv
<1> DEFINE l == editor[e].lead
           stage == EditedStage(action, editor[e].stage)
           new == [lead[l] EXCEPT !.stage = stage]
<1>s. /\ editor[e].at = "write" /\ editor' = [editor EXCEPT ![e] = AtRest]
      /\ UNCHANGED <<moved, archived, linker, viewer, edits>>
      /\ \/ /\ Present(l) /\ stage \in LeadStages
            /\ lead' = [lead EXCEPT ![l] = new]
            /\ editedLate \subseteq editedLate' /\ editedLate' \subseteq editedLate \cup {l}
            /\ lead[l].tenant # NobodyYet => l \in editedLate'
         \/ UNCHANGED <<lead, editedLate>>
    BY DEF EditWrites
<1>1. editor[e] \in EditWriting
    BY <1>t, <1>s, BoardTypes DEF Editor, AtRest
<1>2. l \in Leads /\ lead[l] \in Lead
    BY <1>t, <1>1, BoardTypes DEF EditWriting
<1>3. editor' \in [Editors -> Editor]
    BY <1>t, <1>s, BoardTypes DEF Editor
<1>4. CASE UNCHANGED <<lead, editedLate>>
    <2>1. LinksFit' /\ Viewer' = Viewer
        BY <1>t, <1>s DEF LinksFit, Viewer
    <2> QED BY <1>t, <1>s, <1>3, <1>4, <2>1, BoardTypes, RequestsKeepBoardInv
<1>5. CASE /\ Present(l) /\ stage \in LeadStages
           /\ lead' = [lead EXCEPT ![l] = new]
           /\ editedLate \subseteq editedLate' /\ editedLate' \subseteq editedLate \cup {l}
           /\ lead[l].tenant # NobodyYet => l \in editedLate'
    <2>1. new \in Lead /\ new.tenant = lead[l].tenant
        BY <1>2, <1>5 DEF Lead, LeadRow, Present
    <2>2. editedLate' \subseteq Leads
        BY <1>t, <1>2, <1>5, BoardTypes
    <2> HIDE DEF new, l
    <2> QED BY <1>s, <1>2, <1>3, <1>5, <2>1, <2>2, LeadWrittenKeepsBoardInv
<1> QED BY <1>s, <1>4, <1>5

LEMMA DeleteLeadKeepsBoardInv ==
    ASSUME BoardInv, NEW l \in Leads, DeleteLead(l) PROVE BoardInv'
<1>1. Deleted \in Lead /\ Deleted.tenant = NobodyYet
    BY DEF Lead, Deleted
<1>2. editedLate \subseteq Leads /\ editor \in [Editors -> Editor]
    BY BoardTypes DEF BoardInv
<1>3. /\ lead' = [lead EXCEPT ![l] = Deleted]
      /\ UNCHANGED <<moved, archived, linker, viewer, editor, edits, editedLate>>
    BY DEF DeleteLead
<1> QED BY <1>1, <1>2, <1>3, LeadWrittenKeepsBoardInv

LEMMA ArchiveTenantKeepsBoardInv ==
    ASSUME BoardInv, NEW t \in People, ArchiveTenant(t) PROVE BoardInv'
<1>t. BoardTypeOK /\ LinksFit
    BY DEF BoardInv
<1>1. /\ archived' \subseteq moved'
      /\ UNCHANGED <<lead, moved, linker, viewer, editor, edits, editedLate>>
    BY <1>t, BoardTypes DEF ArchiveTenant
<1>2. LinksFit' /\ Viewer' = Viewer
    BY <1>t, <1>1 DEF LinksFit, Viewer
<1> QED BY <1>t, <1>1, <1>2, BoardTypes, RequestsKeepBoardInv

\* A link goes on, for a tenant who exists.
LEMMA LinkMoves ==
    ASSUME BoardInv, NEW t \in People, NEW new \in Linker, linker' = [linker EXCEPT ![t] = new],
           new # AtRest => t \in moved', new.at = "close" => Named(new.lead, t),
           moved \subseteq moved'
    PROVE  linker' \in [People -> Linker] /\ LinksFit'
<1>1. linker \in [People -> Linker] /\ LinksFit
    BY BoardTypes DEF BoardInv
<1> QED BY <1>1 DEF LinksFit, Named

LEMMA TenantArrivesKeepsBoardInv ==
    ASSUME BoardInv, NEW t \in People, TenantArrives(t) PROVE BoardInv'
<1>t. BoardTypeOK
    BY DEF BoardInv
<1> DEFINE new == [at |-> "read"]
<1>s. /\ moved' = moved \cup {t} /\ linker' = [linker EXCEPT ![t] = new]
      /\ UNCHANGED <<lead, archived, viewer, editor, edits, editedLate>>
    BY DEF TenantArrives
<1>1. new \in Linker /\ new.at # "close"
    BY DEF Linker
<1> HIDE DEF new
<1>2. linker' \in [People -> Linker] /\ LinksFit'
    BY <1>s, <1>1, LinkMoves
<1>3. Viewer \subseteq Viewer'
    BY <1>s DEF Viewer
<1>4. viewer' \in [Viewers -> Viewer']
    BY <1>t, <1>s, <1>3, BoardTypes
<1> QED BY <1>t, <1>s, <1>2, <1>4, BoardTypes, RequestsKeepBoardInv

LEMMA LinkReadsKeepsBoardInv ==
    ASSUME BoardInv, NEW t \in People, LinkReads(t) PROVE BoardInv'
<1>t. BoardTypeOK /\ LinksFit
    BY DEF BoardInv
<1> DEFINE chosen == IF CarriedLead[t] \in OpenLeads THEN {CarriedLead[t]} ELSE Picks(Offers, t)
<1>s. /\ linker[t].at = "read" /\ UNCHANGED <<lead, moved, archived, viewer, editor, edits, editedLate>>
      /\ \/ \E l \in chosen : linker' = [linker EXCEPT ![t] = [at |-> "close", lead |-> l]]
         \/ linker' = [linker EXCEPT ![t] = AtRest]
    BY DEF LinkReads
<1>1. t \in moved
    BY <1>t, <1>s DEF LinksFit, AtRest
<1>2. Viewer' = Viewer
    BY <1>s DEF Viewer
<1>3. ASSUME NEW l \in chosen, linker' = [linker EXCEPT ![t] = [at |-> "close", lead |-> l]]
      PROVE  linker' \in [People -> Linker] /\ LinksFit'
    <2> DEFINE new == [at |-> "close", lead |-> l]
    <2>1. Offers \in SUBSET Leads
        BY DEF Offers, OpenLeads
    <2>2. l \in Leads /\ Named(l, t)
        <3>1. CASE CarriedLead[t] \in OpenLeads
            BY <3>1 DEF OpenLeads, Named
        <3>2. CASE CarriedLead[t] \notin OpenLeads
            BY <2>1, <3>2, PicksAreNamed
        <3> QED BY <3>1, <3>2
    <2>3. new \in Linker /\ new.lead = l
        BY <2>2 DEF Linker, LinkerClosing
    <2>4. linker' = [linker EXCEPT ![t] = new]
        BY <1>3
    <2> HIDE DEF new
    <2> QED BY <1>1, <1>s, <2>2, <2>3, <2>4, LinkMoves
<1>4. ASSUME linker' = [linker EXCEPT ![t] = AtRest]
      PROVE  linker' \in [People -> Linker] /\ LinksFit'
    <2>1. AtRest \in Linker /\ AtRest.at # "close"
        BY DEF Linker, AtRest
    <2> QED BY <1>4, <1>s, <2>1, LinkMoves
<1>5. linker' \in [People -> Linker] /\ LinksFit'
    BY <1>s, <1>3, <1>4
<1> QED BY <1>t, <1>s, <1>2, <1>5, BoardTypes, RequestsKeepBoardInv

LEMMA LinkEndsKeepsBoardInv ==
    ASSUME BoardInv, NEW t \in People, LinkCloses(t) \/ LinkFails(t) PROVE BoardInv'
<1>t. BoardTypeOK /\ LinksFit
    BY DEF BoardInv
<1>s. /\ linker[t] # AtRest /\ linker' = [linker EXCEPT ![t] = AtRest]
      /\ UNCHANGED <<moved, archived, viewer, editor, edits, editedLate>>
    BY DEF LinkCloses, LinkFails, AtRest
<1>1. AtRest \in Linker /\ AtRest.at # "close"
    BY DEF Linker, AtRest
<1>2. linker' \in [People -> Linker] /\ LinksFit' /\ Viewer' = Viewer
    BY <1>s, <1>1, LinkMoves DEF Viewer
<1>3. CASE LinkFails(t)
    <2>1. lead' = lead
        BY <1>3 DEF LinkFails
    <2> QED BY <1>t, <1>s, <1>2, <2>1, BoardTypes, RequestsKeepBoardInv
<1>4. CASE LinkCloses(t)
    <2>1. linker[t].at = "close" /\ CloseLead(linker[t].lead, t)
        BY <1>4 DEF LinkCloses
    <2>2. linker[t] \in LinkerClosing
        BY <1>t, <2>1, BoardTypes DEF Linker, AtRest
    <2>3. linker[t].lead \in Leads /\ Named(linker[t].lead, t) /\ t \in moved
        BY <1>t, <1>s, <2>1, <2>2 DEF LinksFit, LinkerClosing
    <2> QED BY <1>t, <1>s, <1>2, <2>1, <2>3, BoardTypes, ClosingKeepsBoardInv
<1> QED BY <1>3, <1>4

\* A look goes on, or closes the lead of the tenant it visits.
LEMMA LookKeepsBoardInv == ASSUME BoardInv, NEW g \in Viewers, Look(g) PROVE BoardInv'
<1>t. BoardTypeOK /\ LinksFit
    BY DEF BoardInv
<1>v. viewer \in [Viewers -> Viewer] /\ viewer[g] \in Viewer /\ AtRest \in Viewer
    BY <1>t, BoardTypes DEF Viewer
<1>a. viewer[g].at \in {"tenants", "walk"} =>
         viewer[g] \in [at: {"tenants", "walk"}, offers: SUBSET Leads, todo: SUBSET moved]
    BY <1>v DEF Viewer, AtRest
<1>s. UNCHANGED <<moved, archived, linker, editor, edits, editedLate>>
    BY DEF Look, BoardReads, BoardReadsTenants, BoardShown, BoardVisits
<1>k. LinksFit' /\ Viewer' = Viewer /\ linker' \in [People -> Linker]
    BY <1>t, <1>s, BoardTypes DEF LinksFit, Viewer
<1>1. ASSUME NEW new \in Viewer, viewer' = [viewer EXCEPT ![g] = new], lead' = lead
      PROVE  BoardInv'
    <2>1. viewer' \in [Viewers -> Viewer']
        BY <1>v, <1>k, <1>1
    <2> QED BY <1>t, <1>s, <1>k, <1>1, <2>1, BoardTypes, RequestsKeepBoardInv
<1>2. CASE BoardReads(g)
    <2> DEFINE new == [at |-> "tenants", offers |-> Offers, todo |-> {}]
    <2>1. viewer' = [viewer EXCEPT ![g] = new] /\ lead' = lead
        BY <1>2 DEF BoardReads
    <2>2. new \in Viewer
        BY DEF Viewer, Offers, OpenLeads
    <2> HIDE DEF new
    <2> QED BY <1>1, <2>1, <2>2
<1>3. CASE BoardReadsTenants(g)
    <2> DEFINE new == [viewer[g] EXCEPT !.at = "walk", !.todo = Unarchived]
    <2>1. viewer[g].at = "tenants" /\ viewer' = [viewer EXCEPT ![g] = new] /\ lead' = lead
        BY <1>3 DEF BoardReadsTenants
    <2>2. new \in Viewer
        BY <1>a, <1>t, <2>1, BoardTypes DEF Viewer, Unarchived
    <2> HIDE DEF new
    <2> QED BY <1>1, <2>1, <2>2
<1>4. CASE BoardShown(g)
    BY <1>1, <1>4, <1>v DEF BoardShown
<1>5. ASSUME NEW t \in People, BoardVisits(g, t) PROVE BoardInv'
    <2> DEFINE passed == [viewer[g] EXCEPT !.todo = @ \ {t}]
               closed(l) == [viewer[g] EXCEPT !.todo = @ \ {t}, !.offers = @ \ {l}]
    <2>1. viewer[g].at = "walk" /\ t \in viewer[g].todo
        BY <1>5 DEF BoardVisits
    <2>2. /\ t \in moved /\ viewer[g].offers \in SUBSET Leads
          /\ passed \in Viewer /\ \A l : closed(l) \in Viewer
        BY <1>a, <2>1 DEF Viewer
    <2>3. \/ viewer' = [viewer EXCEPT ![g] = passed] /\ lead' = lead
          \/ \E l \in Picks(viewer[g].offers, t) :
                CloseLead(l, t) /\ viewer' = [viewer EXCEPT ![g] = closed(l)]
          \/ viewer' = [viewer EXCEPT ![g] = AtRest] /\ lead' = lead
        BY <1>5 DEF BoardVisits
    <2> HIDE DEF passed, closed
    <2>4. CASE viewer' = [viewer EXCEPT ![g] = passed] /\ lead' = lead
        BY <1>1, <2>2, <2>4
    <2>5. ASSUME NEW l \in Picks(viewer[g].offers, t), CloseLead(l, t),
                 viewer' = [viewer EXCEPT ![g] = closed(l)]
          PROVE  BoardInv'
        <3>1. l \in Leads /\ Named(l, t)
            BY <2>2, PicksAreNamed
        <3>2. viewer' \in [Viewers -> Viewer]
            BY <1>v, <2>2, <2>5
        <3> QED BY <1>s, <1>k, <2>2, <2>5, <3>1, <3>2, ClosingKeepsBoardInv
    <2>6. CASE viewer' = [viewer EXCEPT ![g] = AtRest] /\ lead' = lead
        BY <1>1, <1>v, <2>6
    <2> QED BY <2>3, <2>4, <2>5, <2>6
<1> QED BY <1>2, <1>3, <1>4, <1>5 DEF Look

LEMMA BoardInvInit == BoardInit => BoardInv
<1> SUFFICES ASSUME BoardInit PROVE BoardInv
    OBVIOUS
<1> USE DEF BoardInit
<1>1. lead \in [Leads -> Lead]
    BY DEF Lead, LeadRow, LeadStages
<1>2. edits \in 0..MaxEdits
    BY LeadBoardAssumption
<1>3. BoardTypeOK
    BY <1>1, <1>2, BoardTypes DEF Linker, Viewer, Editor
<1>4. LeadsNameTheirTenant /\ LinksFit
    BY DEF LeadsNameTheirTenant, LinksFit, AtRest
<1> QED BY <1>3, <1>4 DEF BoardInv

LEMMA BoardInvNext == BoardInv /\ [BoardNext]_boardVars => BoardInv'
<1> SUFFICES ASSUME BoardInv, [BoardNext]_boardVars PROVE BoardInv'
    OBVIOUS
<1>1. ASSUME NEW e \in Editors,
             \/ \E l \in Leads : EditReads(e, l)
             \/ \E action \in EditActions : EditWrites(e, action)
      PROVE  BoardInv'
    BY <1>1, EditReadsKeepsBoardInv, EditWritesKeepsBoardInv
<1>5. ASSUME NEW l \in Leads, DeleteLead(l) PROVE BoardInv'
    BY <1>5, DeleteLeadKeepsBoardInv
<1>2. ASSUME NEW t \in People,
             TenantArrives(t) \/ ArchiveTenant(t) \/ LinkReads(t) \/ LinkCloses(t) \/ LinkFails(t)
      PROVE  BoardInv'
    BY <1>2, TenantArrivesKeepsBoardInv, ArchiveTenantKeepsBoardInv, LinkReadsKeepsBoardInv, LinkEndsKeepsBoardInv
<1>3. ASSUME NEW g \in Viewers, Look(g) PROVE BoardInv'
    BY <1>3, LookKeepsBoardInv
<1>4. CASE UNCHANGED boardVars
    BY <1>4 DEF boardVars, BoardInv, BoardTypeOK, LeadsNameTheirTenant, LinksFit
<1> QED BY <1>1, <1>2, <1>3, <1>4, <1>5 DEF BoardNext

(* A lead that points at a tenant points at one of its name, or at the one     *)
(* whose draft carried it, and stays closed but for an edit that read it       *)
(* before or looks at no stage, whichever looks, links, edits and deletions    *)
(* overlap, and however many.                                                  *)
THEOREM LeadsAlwaysNamed == BoardSpec => []LeadsNameTheirTenant
<1>1. BoardInv => LeadsNameTheirTenant
    BY DEF BoardInv
<1> QED BY <1>1, BoardInvInit, BoardInvNext, PTL DEF BoardSpec

-----------------------------------------------------------------------------
(* Identity checks.                                                         *)
-----------------------------------------------------------------------------
Statuses == {"pending", "pass", "fail", "refer"}
PollWriting == [at: {"write"}, check: Checks, answer: Statuses]
Poll == {NotPolling} \cup PollWriting

\* The provider has the checks that were submitted, and calls about no others; it
\* tells the conclusion of those that it concluded; a refresh is at a check that
\* has a row.
ProviderKnows ==
    /\ \A k \in Checks : asked[k] = "unasked" <=> provider[k] = "none"
    /\ \A k \in Checks : event[k] # {} => provider[k] # "none"
    /\ \A k \in Checks : "conclusion" \in event[k] => provider[k] \in Conclusions
    /\ \A q \in Polls : poll[q].at = "write" => row[poll[q].check] # NoRow

IdInv == IdTypeOK /\ ProviderKnows

LEMMA IdTypes ==
    IdTypeOK <=>
        /\ asked \in [Checks -> {"unasked", "submitted", "filed", "failed"}]
        /\ provider \in [Checks -> {"none"} \cup Statuses]
        /\ event \in [Checks -> SUBSET News]
        /\ row \in [Checks -> {NoRow} \cup Statuses]
        /\ (\A k \in Checks : row[k] # NoRow <=> asked[k] = "filed")
        /\ poll \in [Polls -> Poll]
        /\ polls \in 0..MaxPolls /\ stale \subseteq Checks
BY DEF IdTypeOK, Statuses, Poll, PollWriting, Conclusions

\* What a call about a check with a row does to the rows.
CallKept(k, news) ==
    /\ row[k] # NoRow /\ row' = [row EXCEPT ![k] = Says(k, news)]
    /\ Says(k, news) \in Statuses /\ stale' \subseteq Checks
    /\ UNCHANGED <<asked, provider, poll, polls>>

\* A call writes the row of its check, and a status.
LEMMA CallOnlyWrites ==
    ASSUME IdTypeOK, ProviderKnows, NEW k \in Checks, NEW news \in News,
           Webhook(k, news) \/ WebhookUnheard(k, news)
    PROVE  CallKept(k, news)
<1>1. /\ news \in event[k] /\ WriteCall(k, news)
      /\ UNCHANGED <<asked, provider, poll, polls>>
    BY DEF Webhook, WebhookUnheard
<1>2. provider[k] \in Statuses /\ stale \subseteq Checks
    BY <1>1, IdTypes DEF ProviderKnows
<1>3. Says(k, news) \in Statuses
    BY <1>2 DEF Says, Statuses
<1>4. stale' \subseteq Checks
    BY <1>1, <1>2 DEF WriteCall
<1> QED BY <1>1, <1>3, <1>4 DEF WriteCall, Received, CallKept

\* POST, and what the provider makes of it.
\* Where the rows, and what the provider holds, only grow, the refreshes stand.
LEMMA CheckKeepsIdInv ==
    ASSUME IdInv, NEW k \in Checks,
           \/ SubmitCheck(k) \/ FileCheck(k) \/ FilingFails(k) \/ ReportProgress(k)
           \/ \E outcome \in Conclusions : Conclude(k, outcome)
           \/ \E news \in News : Webhook(k, news) \/ WebhookUnheard(k, news)
    PROVE  IdInv'
<1>t. IdTypeOK /\ ProviderKnows
    BY DEF IdInv
<1>y. /\ asked \in [Checks -> {"unasked", "submitted", "filed", "failed"}]
      /\ provider \in [Checks -> {"none"} \cup Statuses]
      /\ event \in [Checks -> SUBSET News]
      /\ row \in [Checks -> {NoRow} \cup Statuses]
      /\ (\A c \in Checks : row[c] # NoRow <=> asked[c] = "filed")
      /\ poll \in [Polls -> Poll] /\ polls \in 0..MaxPolls /\ stale \subseteq Checks
    BY <1>t, IdTypes
<1>p. \A q \in Polls : poll[q].at = "write" => poll[q].check \in Checks
    BY <1>y DEF Poll, PollWriting, NotPolling
<1>1. /\ asked' \in [Checks -> {"unasked", "submitted", "filed", "failed"}]
      /\ provider' \in [Checks -> {"none"} \cup Statuses]
      /\ event' \in [Checks -> SUBSET News]
      /\ row' \in [Checks -> {NoRow} \cup Statuses]
      /\ poll' = poll /\ polls' = polls /\ stale' \subseteq Checks
      /\ \A c \in Checks : row[c] # NoRow => row'[c] # NoRow
    <2> USE DEF Statuses, Conclusions
    <2>1. CASE SubmitCheck(k)
        BY <1>y, <2>1 DEF SubmitCheck
    <2>2. CASE FileCheck(k)
        BY <1>y, <2>2, IdChecksAssumption DEF FileCheck
    <2>3. CASE FilingFails(k)
        BY <1>y, <2>3 DEF FilingFails
    <2>4. ASSUME NEW news \in News, Webhook(k, news) \/ WebhookUnheard(k, news)
          PROVE  /\ event' \in [Checks -> SUBSET News] /\ row' \in [Checks -> {NoRow} \cup Statuses]
                 /\ \A c \in Checks : row[c] # NoRow => row'[c] # NoRow
                 /\ stale' \subseteq Checks /\ UNCHANGED <<asked, provider, poll, polls>>
        <3>1. CallKept(k, news)
            BY <1>t, <2>4, CallOnlyWrites
        <3>2. event' \in [Checks -> SUBSET News]
            BY <1>y, <2>4 DEF Webhook, WebhookUnheard
        <3> QED BY <1>y, <3>1, <3>2, IdChecksAssumption DEF CallKept
    <2>6. CASE ReportProgress(k)
        <3>1. event' = [event EXCEPT ![k] = @ \cup {"progress"}]
            BY <2>6 DEF ReportProgress
        <3>2. event' \in [Checks -> SUBSET News]
            BY <1>y, <3>1 DEF News
        <3> QED BY <1>y, <2>6, <3>2 DEF ReportProgress
    <2>5. ASSUME NEW outcome \in Conclusions, Conclude(k, outcome)
          PROVE  /\ provider' \in [Checks -> {"none"} \cup Statuses]
                 /\ event' \in [Checks -> SUBSET News]
                 /\ UNCHANGED <<asked, row, poll, polls, stale>>
        <3>1. /\ event' = [event EXCEPT ![k] = @ \cup {"conclusion"}]
              /\ provider' = [provider EXCEPT ![k] = outcome]
              /\ UNCHANGED <<asked, row, poll, polls, stale>>
            BY <2>5 DEF Conclude
        <3> QED BY <1>y, <2>5, <3>1 DEF News
    <2> QED BY <1>y, <2>1, <2>2, <2>3, <2>4, <2>5, <2>6
<1>2. \A c \in Checks : row'[c] # NoRow <=> asked'[c] = "filed"
    <2>1. CASE SubmitCheck(k)
        BY <1>y, <2>1 DEF SubmitCheck
    <2>2. CASE FileCheck(k)
        <3>1. /\ row' = [row EXCEPT ![k] = "pending"] /\ asked' = [asked EXCEPT ![k] = "filed"]
              /\ NoRow # "pending"
            BY <2>2, IdChecksAssumption DEF FileCheck
        <3> QED BY <1>y, <3>1
    <2>3. CASE FilingFails(k)
        BY <1>y, <2>3 DEF FilingFails
    <2>4. ASSUME NEW news \in News, Webhook(k, news) \/ WebhookUnheard(k, news)
          PROVE  \A c \in Checks : row'[c] # NoRow <=> asked'[c] = "filed"
        <3>1. CallKept(k, news)
            BY <1>t, <2>4, CallOnlyWrites
        <3> QED BY <1>y, <1>1, <3>1 DEF CallKept
    <2>6. CASE ReportProgress(k)
        BY <1>y, <2>6 DEF ReportProgress
    <2>5. ASSUME NEW outcome \in Conclusions, Conclude(k, outcome)
          PROVE  UNCHANGED <<asked, row>>
        BY <2>5 DEF Conclude
    <2> QED BY <1>y, <2>1, <2>2, <2>3, <2>4, <2>5, <2>6
<1>3. /\ \A c \in Checks : asked'[c] = "unasked" <=> provider'[c] = "none"
      /\ \A c \in Checks : event'[c] # {} => provider'[c] # "none"
      /\ \A c \in Checks : "conclusion" \in event'[c] => provider'[c] \in Conclusions
    <2> USE <1>t, <1>y DEF ProviderKnows, Conclusions
    <2>1. CASE SubmitCheck(k)
        <3>1. event[k] = {}
            BY <2>1 DEF SubmitCheck
        <3> QED BY <2>1, <3>1 DEF SubmitCheck
    <2>2. CASE FileCheck(k)
        BY <2>2 DEF FileCheck
    <2>3. CASE FilingFails(k)
        BY <2>3 DEF FilingFails
    <2>4. CASE \E news \in News : Webhook(k, news) \/ WebhookUnheard(k, news)
        <3>1. PICK news \in News : Webhook(k, news) \/ WebhookUnheard(k, news)
            BY <2>4
        <3>2. \A c \in Checks : event'[c] \subseteq event[c]
            BY <3>1 DEF Webhook, WebhookUnheard
        <3>3. UNCHANGED <<asked, provider>>
            BY <3>1 DEF Webhook, WebhookUnheard
        <3> QED BY <3>2, <3>3
    <2>5. CASE \E outcome \in Conclusions : Conclude(k, outcome)
        <3>1. PICK outcome \in Conclusions : Conclude(k, outcome)
            BY <2>5
        <3> QED BY <3>1 DEF Conclude
    <2>6. CASE ReportProgress(k)
        <3>1. /\ event' = [event EXCEPT ![k] = @ \cup {"progress"}] /\ provider[k] = "pending"
              /\ UNCHANGED <<asked, provider>>
            BY <2>6 DEF ReportProgress
        <3>2. \A c \in Checks : "conclusion" \in event'[c] => "conclusion" \in event[c]
            BY <3>1
        <3>3. \A c \in Checks : event'[c] # {} => event[c] # {} \/ c = k
            BY <3>1
        <3> QED BY <3>1, <3>2, <3>3
    <2> QED BY <2>1, <2>2, <2>3, <2>4, <2>5, <2>6
<1>4. IdTypeOK'
    BY <1>y, <1>1, <1>2 DEF IdTypeOK, Statuses, Poll, PollWriting, Conclusions
<1>5. ProviderKnows'
    BY <1>t, <1>p, <1>1, <1>3 DEF ProviderKnows
<1> QED BY <1>4, <1>5 DEF IdInv

LEMMA RefreshKeepsIdInv ==
    ASSUME IdInv, NEW q \in Polls,
           RefreshWrites(q) \/ RefreshFails(q) \/ \E k \in Checks : RefreshPolls(q, k)
    PROVE  IdInv'
<1>t. IdTypeOK /\ ProviderKnows
    BY DEF IdInv
<1>y. /\ poll \in [Polls -> Poll] /\ row \in [Checks -> {NoRow} \cup Statuses]
      /\ provider \in [Checks -> {"none"} \cup Statuses]
      /\ (\A c \in Checks : row[c] # NoRow <=> asked[c] = "filed")
      /\ polls \in 0..MaxPolls /\ stale \subseteq Checks
    BY <1>t, IdTypes
<1>p. \A r \in Polls : poll[r].at = "write" => poll[r] \in PollWriting
    BY <1>y DEF Poll, PollWriting, NotPolling
<1>n. NotPolling \in Poll /\ NotPolling.at # "write"
    BY DEF Poll, NotPolling
<1>1. /\ UNCHANGED <<asked, provider, event>>
      /\ row' \in [Checks -> {NoRow} \cup Statuses]
      /\ \A c \in Checks : row'[c] # NoRow <=> row[c] # NoRow
      /\ poll' \in [Polls -> Poll] /\ \A r \in Polls \ {q} : poll'[r] = poll[r]
      /\ poll'[q].at = "write" => row[poll'[q].check] # NoRow
      /\ polls' \in 0..MaxPolls /\ stale' \subseteq Checks
    <2>1. ASSUME NEW k \in Checks, RefreshPolls(q, k)
          PROVE  /\ poll' \in [Polls -> Poll] /\ \A r \in Polls \ {q} : poll'[r] = poll[r]
                 /\ row[poll'[q].check] # NoRow /\ polls' \in 0..MaxPolls
                 /\ UNCHANGED <<asked, provider, event, row, stale>>
        <3> DEFINE new == [at |-> "write", check |-> k, answer |-> provider[k]]
        <3>1. /\ row[k] # NoRow /\ polls < MaxPolls /\ polls' = polls + 1
              /\ poll' = [poll EXCEPT ![q] = new]
              /\ UNCHANGED <<asked, provider, event, row, stale>>
            BY <2>1 DEF RefreshPolls
        <3>2. provider[k] \in Statuses
            BY <1>t, <1>y, <3>1 DEF ProviderKnows
        <3>3. new \in Poll /\ new.check = k
            BY <3>2 DEF Poll, PollWriting
        <3> HIDE DEF new
        <3> QED BY <1>y, <3>1, <3>3, IdChecksAssumption
    <2>2. CASE RefreshWrites(q)
        <3>1. /\ poll[q].at = "write" /\ row' = [row EXCEPT ![poll[q].check] = poll[q].answer]
              /\ stale' \subseteq stale \cup {poll[q].check}
              /\ poll' = [poll EXCEPT ![q] = NotPolling]
              /\ UNCHANGED <<asked, provider, event, polls>>
            BY <2>2 DEF RefreshWrites
        <3>2. /\ poll[q].check \in Checks /\ poll[q].answer \in Statuses
              /\ row[poll[q].check] # NoRow
            BY <1>t, <1>p, <3>1 DEF PollWriting, ProviderKnows
        <3> QED BY <1>y, <1>n, <3>1, <3>2, IdChecksAssumption DEF Statuses
    <2>3. CASE RefreshFails(q)
        BY <1>y, <1>n, <2>3 DEF RefreshFails
    <2> QED BY <1>y, <2>1, <2>2, <2>3
<1>2. IdTypeOK'
    BY <1>t, <1>y, <1>1, IdTypes DEF IdTypeOK, Statuses, Poll, PollWriting, Conclusions
<1>3. ProviderKnows'
    <2>1. ASSUME NEW r \in Polls, poll'[r].at = "write" PROVE row'[poll'[r].check] # NoRow
        <3>1. poll'[r].check \in Checks
            BY <1>1, <2>1 DEF Poll, PollWriting, NotPolling
        <3>2. row[poll'[r].check] # NoRow
            BY <1>t, <1>1, <2>1 DEF ProviderKnows
        <3> QED BY <1>1, <3>1, <3>2
    <2> QED BY <1>t, <1>1, <2>1 DEF ProviderKnows
<1> QED BY <1>2, <1>3 DEF IdInv

LEMMA IdInvInit == IdInit => IdInv
<1> SUFFICES ASSUME IdInit PROVE IdInv
    OBVIOUS
<1> USE DEF IdInit
<1>1. polls \in 0..MaxPolls
    BY IdChecksAssumption
<1>2. IdTypeOK
    BY <1>1, IdTypes DEF Poll
<1>3. ProviderKnows
    BY DEF ProviderKnows, NotPolling
<1> QED BY <1>2, <1>3 DEF IdInv

LEMMA IdInvNext == IdInv /\ [IdNext]_idVars => IdInv'
<1> SUFFICES ASSUME IdInv, [IdNext]_idVars PROVE IdInv'
    OBVIOUS
<1>1. CASE UNCHANGED idVars
    BY <1>1 DEF idVars, IdInv, IdTypeOK, ProviderKnows
<1> QED BY <1>1, CheckKeepsIdInv, RefreshKeepsIdInv DEF IdNext

(* Rows and refreshes hold what the provider may say; a check has a row when    *)
(* its filing went through and at no other time, whatever calls and refreshes  *)
(* come before it or after.                                                    *)
THEOREM IdTypeCorrect == IdSpec => []IdTypeOK
<1>1. IdInv => IdTypeOK
    BY DEF IdInv
<1> QED BY <1>1, IdInvInit, IdInvNext, PTL DEF IdSpec

-----------------------------------------------------------------------------
(* Homes, and the diary of viewings.                                        *)
-----------------------------------------------------------------------------
Tenancy == [status: {"active", "ended"}, tenant: Tenants, room: Rooms]
TickPlaces == {"clear", "enter", "look", "tick", "follow"}
DeskTicking == [at: TickPlaces, tenant: Tenants, station: Tickable, mark: Marks, exists: BOOLEAN]
DeskFinding == [at: {"find"}, tenant: Tenants]
DeskEnding == [at: {"end"}, tenant: Tenants, left: SUBSET Tenancies]
DeskHousing == [at: {"room", "house"}, tenant: Tenants, room: Rooms]
Desk == {Free} \cup DeskTicking \cup DeskFinding \cup DeskEnding \cup DeskHousing

\* HomeTypeOK, without the bounds on what a diary holds.
HomeShape ==
    /\ tenancy \in [Tenancies -> {NotMadeYet} \cup Tenancy]
    /\ rows \in [Tenants -> SUBSET Tickable] /\ ticked \in [Tenants -> SUBSET Tickable]
    /\ filed \in [Tenants -> SUBSET Filable]
    /\ dated \subseteq Tenants /\ referred \subseteq Tenants
    /\ desk \in [Desks -> Desk] /\ asks \in 0..MaxDeskRequests
    /\ lost \subseteq Tenancies /\ after \subseteq Tenancies
    /\ viewings \in [Tenants -> [open: Nat, past: Nat]] /\ muddled \subseteq Tenants

\* The requests that are about to enter a viewing of the tenant into the diary.
InDiary(x, p) == x.at \in {"clear", "enter"} /\ x.tenant = p
Diary(p) == {q \in Desks : InDiary(desk[q], p)}
\* Every entry, made or about to be made, was asked for.
DiaryCounted ==
    \A p \in Tenants :
        /\ IsFiniteSet(Diary(p))
        /\ viewings[p].open + viewings[p].past + Cardinality(Diary(p)) <= asks
\* But for the muddled, one request at a time is between clearing and entering.
Entering(q, p) == desk[q].at = "enter" /\ desk[q].tenant = p
ViewingsApart ==
    \A p \in Tenants :
        \/ p \in muddled
        \/ /\ viewings[p].open <= 1
           /\ \A q \in Desks : Entering(q, p) => viewings[p].open = 0
           /\ \A q, d \in Desks : Entering(q, p) /\ Entering(d, p) => q = d
\* A request that moves a tenant out is at, or past, finding this tenancy.
Moving(q, i) ==
    /\ desk[q].at \in {"find", "end"} /\ desk[q].tenant = tenancy[i].tenant
    /\ desk[q].at = "end" => i \in desk[q].left
LeaversLeave ==
    \A i \in ActiveTenancies :
        "moved_out" \in ticked[tenancy[i].tenant] =>
            i \in lost \cup after \/ \E q \in Desks : Moving(q, i)
\* What a request is about to end has been made.
EndsAreMade ==
    \A q \in Desks :
        desk[q].at = "end" => \A i \in desk[q].left : tenancy[i] \in Tenancy

HomeInv ==
    /\ HomeShape /\ DiaryCounted /\ ViewingsApart
    /\ OneHome /\ LeaversLeave /\ EndsAreMade

LEMMA HomeInvTyped == HomeInv => HomeTypeOK
<1> SUFFICES ASSUME HomeInv PROVE HomeTypeOK
    OBVIOUS
<1>1. HomeShape /\ DiaryCounted
    BY DEF HomeInv
<1>2. ASSUME NEW p \in Tenants
      PROVE  viewings[p] \in [open: 0..MaxDeskRequests, past: 0..MaxDeskRequests]
    <2>1. Cardinality(Diary(p)) \in Nat
        BY <1>1, FS_CardinalityType DEF DiaryCounted
    <2>2. viewings[p] \in [open: Nat, past: Nat] /\ asks \in 0..MaxDeskRequests
        BY <1>1 DEF HomeShape
    <2>3. viewings[p].open + viewings[p].past + Cardinality(Diary(p)) <= asks
        BY <1>1 DEF DiaryCounted
    <2>4. viewings[p].open \in 0..MaxDeskRequests /\ viewings[p].past \in 0..MaxDeskRequests
        BY <2>1, <2>2, <2>3, HomesAssumption
    <2> QED BY <2>2, <2>4
<1>3. viewings \in [Tenants -> [open: 0..MaxDeskRequests, past: 0..MaxDeskRequests]]
    BY <1>1, <1>2 DEF HomeShape
<1> QED BY <1>1, <1>3 DEF HomeShape, HomeTypeOK, Tenancy, Desk, TickPlaces, DeskTicking,
                          DeskFinding, DeskEnding, DeskHousing

LEMMA HomeInvAgrees == HomeInv => OneHome /\ MovedOutHasLeft /\ OneViewing
<1> SUFFICES ASSUME HomeInv PROVE OneHome /\ MovedOutHasLeft /\ OneViewing
    OBVIOUS
<1>1. OneHome /\ LeaversLeave /\ ViewingsApart
    BY DEF HomeInv
<1>2. MovedOutHasLeft
    BY <1>1 DEF LeaversLeave, MovedOutHasLeft, Moving
<1>3. OneViewing
    BY <1>1 DEF ViewingsApart, OneViewing
<1> QED BY <1>1, <1>2, <1>3

\* A desk is where its place says, with what it has read.
LEMMA DeskByPlace ==
    ASSUME NEW x \in Desk
    PROVE  /\ x.at \in TickPlaces => x \in DeskTicking
           /\ x.at = "find" => x \in DeskFinding
           /\ x.at = "end" => x \in DeskEnding
           /\ x.at \in {"room", "house"} => x \in DeskHousing
           /\ x = Free => x.at = "free"
BY DEF Desk, Free, TickPlaces, DeskTicking, DeskFinding, DeskEnding, DeskHousing

LEMMA DeskMoves ==
    ASSUME HomeShape, NEW q \in Desks, NEW new \in Desk, desk' = [desk EXCEPT ![q] = new]
    PROVE  /\ desk' \in [Desks -> Desk] /\ desk'[q] = new
           /\ \A d \in Desks \ {q} : desk'[d] = desk[d]
BY DEF HomeShape

\* Who is about to enter a viewing changes by the one desk, if at all.
LEMMA DiaryMoves ==
    ASSUME HomeShape, DiaryCounted, NEW q \in Desks, NEW new \in Desk,
           desk' = [desk EXCEPT ![q] = new], NEW p \in Tenants
    PROVE  /\ IsFiniteSet(Diary(p)') /\ Cardinality(Diary(p)') \in Nat
           /\ Cardinality(Diary(p)) \in Nat
           /\ (InDiary(new, p) <=> InDiary(desk[q], p)) =>
                 Cardinality(Diary(p)') = Cardinality(Diary(p))
           /\ InDiary(new, p) => Cardinality(Diary(p)') <= Cardinality(Diary(p)) + 1
           /\ ~ InDiary(new, p) => Cardinality(Diary(p)') <= Cardinality(Diary(p))
           /\ ~ InDiary(new, p) /\ InDiary(desk[q], p) =>
                 Cardinality(Diary(p)') + 1 = Cardinality(Diary(p))
<1>1. IsFiniteSet(Diary(p)) /\ Cardinality(Diary(p)) \in Nat
    BY FS_CardinalityType DEF DiaryCounted
<1>2. /\ desk'[q] = new /\ \A d \in Desks \ {q} : desk'[d] = desk[d]
    BY DeskMoves
<1>3. CASE InDiary(new, p)
    <2>1. Diary(p)' = Diary(p) \cup {q} /\ (q \in Diary(p) <=> InDiary(desk[q], p))
        BY <1>2, <1>3 DEF Diary, InDiary
    <2>2. /\ IsFiniteSet(Diary(p) \cup {q})
          /\ Cardinality(Diary(p) \cup {q}) \in Nat
          /\ Cardinality(Diary(p) \cup {q}) =
                IF q \in Diary(p) THEN Cardinality(Diary(p)) ELSE Cardinality(Diary(p)) + 1
        BY <1>1, FS_AddElement, FS_CardinalityType
    <2> QED BY <1>1, <1>3, <2>1, <2>2
<1>4. CASE ~ InDiary(new, p)
    <2>1. Diary(p)' = Diary(p) \ {q} /\ (q \in Diary(p) <=> InDiary(desk[q], p))
        BY <1>2, <1>4 DEF Diary, InDiary
    <2>2. /\ IsFiniteSet(Diary(p) \ {q})
          /\ Cardinality(Diary(p) \ {q}) \in Nat
          /\ Cardinality(Diary(p) \ {q}) =
                IF q \in Diary(p) THEN Cardinality(Diary(p)) - 1 ELSE Cardinality(Diary(p))
        BY <1>1, FS_RemoveElement, FS_CardinalityType
    <2> QED BY <1>1, <1>4, <2>1, <2>2
<1> QED BY <1>3, <1>4

\* A request that has nothing to do with the diary leaves it as it is; one that
\* sets out to assign a viewing is a new one.
LEMMA DiaryStands ==
    ASSUME HomeInv, NEW q \in Desks, NEW new \in Desk, desk' = [desk EXCEPT ![q] = new],
           UNCHANGED diaryVars, asks' \in {asks, asks + 1},
           new.at # "enter", new.at = "clear" => asks' = asks + 1
    PROVE  DiaryCounted' /\ ViewingsApart'
<1>t. HomeShape /\ DiaryCounted /\ ViewingsApart
    BY DEF HomeInv
<1>v. viewings' = viewings /\ muddled' = muddled
    BY DEF diaryVars
<1>1. ASSUME NEW p \in Tenants
      PROVE  /\ IsFiniteSet(Diary(p)')
             /\ viewings'[p].open + viewings'[p].past + Cardinality(Diary(p)') <= asks'
    <2>1. /\ IsFiniteSet(Diary(p)') /\ Cardinality(Diary(p)') \in Nat
          /\ Cardinality(Diary(p)) \in Nat
          /\ InDiary(new, p) => Cardinality(Diary(p)') <= Cardinality(Diary(p)) + 1
          /\ ~ InDiary(new, p) => Cardinality(Diary(p)') <= Cardinality(Diary(p))
        BY <1>t, DiaryMoves
    <2>2. InDiary(new, p) => asks' = asks + 1
        BY DEF InDiary
    <2>3. viewings[p] \in [open: Nat, past: Nat] /\ asks \in Nat
        BY <1>t DEF HomeShape
    <2>4. viewings[p].open + viewings[p].past + Cardinality(Diary(p)) <= asks
        BY <1>t DEF DiaryCounted
    <2> QED BY <1>v, <2>1, <2>2, <2>3, <2>4
<1>2. DiaryCounted'
    BY <1>1 DEF DiaryCounted
<1>3. \A p, d : d \in Desks /\ Entering(d, p)' => Entering(d, p)
    BY <1>t, DeskMoves DEF Entering
<1>4. ViewingsApart'
    BY <1>t, <1>v, <1>3 DEF ViewingsApart
<1> QED BY <1>2, <1>4

\* A request that has nothing to do with tenancies or with moving out.
LEMMA HousesStand ==
    ASSUME HomeInv, NEW q \in Desks, NEW new \in Desk, desk' = [desk EXCEPT ![q] = new],
           UNCHANGED <<tenancy, ticked, lost, after>>,
           desk[q].at \notin {"find", "end"}, new.at # "end"
    PROVE  OneHome' /\ LeaversLeave' /\ EndsAreMade'
<1>t. HomeShape /\ OneHome /\ LeaversLeave /\ EndsAreMade
    BY DEF HomeInv
<1>1. /\ desk'[q] = new /\ \A d \in Desks \ {q} : desk'[d] = desk[d]
      /\ ActiveTenancies' = ActiveTenancies
    BY <1>t, DeskMoves DEF ActiveTenancies
<1>2. OneHome'
    BY <1>t, <1>1 DEF OneHome
<1>3. \A d \in Desks, i \in ActiveTenancies : Moving(d, i) => Moving(d, i)'
    BY <1>1 DEF Moving
<1>4. LeaversLeave'
    BY <1>t, <1>1, <1>3 DEF LeaversLeave
<1>5. EndsAreMade'
    BY <1>t, <1>1 DEF EndsAreMade
<1> QED BY <1>2, <1>4, <1>5

LEMMA TickKeepsHomeInv ==
    ASSUME HomeInv, NEW q \in Desks, NEW p \in Walkers, NEW s \in Tickable, NEW mark \in Marks,
           NEW assigned \in BOOLEAN, Tick(q, p, s, mark, assigned)
    PROVE  HomeInv'
<1>t. HomeShape
    BY DEF HomeInv
<1> DEFINE found == ~assigned /\ s \in rows[p]
           new == [at |-> IF assigned THEN "clear" ELSE "tick",
                   tenant |-> p, station |-> s, mark |-> mark, exists |-> found]
<1>s. /\ desk[q] = Free /\ asks < MaxDeskRequests /\ asks' = asks + 1
      /\ desk' = [desk EXCEPT ![q] = new]
      /\ UNCHANGED <<tenancy, rows, ticked, dated, referred, filed, lost, after, diaryVars>>
    BY DEF Tick, Arrives
<1>1. found \in BOOLEAN
    OBVIOUS
<1> HIDE DEF found
<1>2. p \in Tenants
    BY HomesAssumption
<1>3. new \in Desk /\ new.at \in {"clear", "tick"}
    BY <1>1, <1>2 DEF Desk, DeskTicking, TickPlaces
<1> HIDE DEF new
<1>4. asks' \in 0..MaxDeskRequests
    BY <1>t, <1>s, HomesAssumption DEF HomeShape
<1>5. HomeShape'
    BY <1>t, <1>s, <1>3, <1>4, DeskMoves DEF HomeShape, Desk, DeskTicking, DeskFinding,
       DeskEnding, DeskHousing, diaryVars
<1>6. DiaryCounted' /\ ViewingsApart'
    BY <1>s, <1>3, DiaryStands
<1>7. desk[q].at \notin {"find", "end"} /\ new.at # "end"
    BY <1>s, <1>3 DEF Free
<1>8. OneHome' /\ LeaversLeave' /\ EndsAreMade'
    BY <1>s, <1>3, <1>7, HousesStand
<1> QED BY <1>5, <1>6, <1>8 DEF HomeInv

LEMMA ClearDiaryKeepsHomeInv == ASSUME HomeInv, NEW q \in Desks, ClearDiary(q) PROVE HomeInv'
<1>t. HomeShape /\ DiaryCounted /\ ViewingsApart
    BY DEF HomeInv
<1> DEFINE p == desk[q].tenant
           new == [desk[q] EXCEPT !.at = "enter"]
           cleared == [viewings[p] EXCEPT !.open = 0]
<1>s. /\ desk[q].at = "clear" /\ desk' = [desk EXCEPT ![q] = new]
      /\ viewings' = [viewings EXCEPT ![p] = cleared]
      /\ muddled \ {p} \subseteq muddled' /\ muddled' \subseteq muddled \cup {p}
      /\ \A d \in Desks : Entering(d, p) => p \in muddled'
      /\ UNCHANGED <<tenancy, rows, ticked, dated, referred, filed, asks, lost, after>>
    BY DEF ClearDiary, Entering
<1>1. desk[q] \in Desk /\ desk[q] \in DeskTicking /\ p \in Tenants
    BY <1>t, <1>s, DeskByPlace DEF HomeShape, TickPlaces, DeskTicking
<1>2. new \in Desk /\ new.at = "enter" /\ new.tenant = p
    BY <1>1 DEF Desk, DeskTicking, TickPlaces
<1>3. /\ viewings[p] \in [open: Nat, past: Nat] /\ cleared \in [open: Nat, past: Nat]
      /\ cleared.open = 0 /\ cleared.past = viewings[p].past
    BY <1>t, <1>1 DEF HomeShape
<1> HIDE DEF new, cleared
<1>4. /\ desk'[q] = new /\ desk' \in [Desks -> Desk]
      /\ \A d \in Desks \ {q} : desk'[d] = desk[d]
    BY <1>t, <1>s, <1>2, DeskMoves
<1>5. /\ viewings' \in [Tenants -> [open: Nat, past: Nat]] /\ viewings'[p] = cleared
      /\ \A r \in Tenants \ {p} : viewings'[r] = viewings[r]
    BY <1>t, <1>s, <1>1, <1>3 DEF HomeShape
<1>6. HomeShape'
    BY <1>t, <1>s, <1>1, <1>4, <1>5
       DEF HomeShape, Desk, DeskTicking, DeskFinding, DeskEnding, DeskHousing
<1>7. DiaryCounted'
    <2> SUFFICES ASSUME NEW r \in Tenants
                 PROVE  /\ IsFiniteSet(Diary(r)')
                        /\ viewings'[r].open + viewings'[r].past + Cardinality(Diary(r)') <= asks
        BY <1>s DEF DiaryCounted
    <2>1. InDiary(new, r) <=> InDiary(desk[q], r)
        BY <1>s, <1>2 DEF InDiary
    <2>2. /\ IsFiniteSet(Diary(r)') /\ Cardinality(Diary(r)') = Cardinality(Diary(r))
          /\ Cardinality(Diary(r)) \in Nat
        BY <1>t, <1>s, <1>2, <2>1, DiaryMoves
    <2>3. viewings[r].open + viewings[r].past + Cardinality(Diary(r)) <= asks
        BY <1>t DEF DiaryCounted
    <2>4. viewings[r] \in [open: Nat, past: Nat] /\ asks \in Nat
        BY <1>t DEF HomeShape
    <2>5. CASE r = p
        BY <1>3, <1>5, <2>2, <2>3, <2>4, <2>5
    <2>6. CASE r # p
        BY <1>5, <2>2, <2>3, <2>4, <2>6
    <2> QED BY <2>5, <2>6
<1>8. ViewingsApart'
    <2> SUFFICES ASSUME NEW r \in Tenants, r \notin muddled'
                 PROVE  /\ viewings'[r].open <= 1
                        /\ \A d \in Desks : Entering(d, r)' => viewings'[r].open = 0
                        /\ \A d, e \in Desks : Entering(d, r)' /\ Entering(e, r)' => d = e
        BY DEF ViewingsApart
    <2>1. CASE r = p
        BY <1>s, <1>3, <1>4, <1>5, <2>1 DEF Entering
    <2>2. CASE r # p
        <3>1. \A d \in Desks : Entering(d, r)' => Entering(d, r)
            BY <1>2, <1>4, <2>2 DEF Entering
        <3> QED BY <1>t, <1>s, <1>5, <2>2, <3>1 DEF ViewingsApart
    <2> QED BY <2>1, <2>2
<1>9. OneHome' /\ LeaversLeave' /\ EndsAreMade'
    BY <1>s, <1>2, HousesStand
<1> QED BY <1>6, <1>7, <1>8, <1>9 DEF HomeInv

LEMMA EnterDiaryKeepsHomeInv == ASSUME HomeInv, NEW q \in Desks, EnterDiary(q) PROVE HomeInv'
<1>t. HomeShape /\ DiaryCounted /\ ViewingsApart
    BY DEF HomeInv
<1> DEFINE p == desk[q].tenant
           new == [desk[q] EXCEPT !.at = "look"]
           entered == [viewings[p] EXCEPT !.open = viewings[p].open + 1]
<1>s. /\ desk[q].at = "enter" /\ desk' = [desk EXCEPT ![q] = new]
      /\ viewings' = [viewings EXCEPT ![p] = entered]
      /\ UNCHANGED <<tenancy, rows, ticked, dated, referred, filed, asks, lost, after, muddled>>
    BY DEF EnterDiary
<1>1. desk[q] \in Desk /\ desk[q] \in DeskTicking /\ p \in Tenants
    BY <1>t, <1>s, DeskByPlace DEF HomeShape, TickPlaces, DeskTicking
<1>2. new \in Desk /\ new.at = "look" /\ new.tenant = p
    BY <1>1 DEF Desk, DeskTicking, TickPlaces
<1>3. /\ viewings[p] \in [open: Nat, past: Nat] /\ entered \in [open: Nat, past: Nat]
      /\ entered.open = viewings[p].open + 1 /\ entered.past = viewings[p].past
    BY <1>t, <1>1 DEF HomeShape
<1> HIDE DEF new, entered
<1>4. /\ desk'[q] = new /\ desk' \in [Desks -> Desk]
      /\ \A d \in Desks \ {q} : desk'[d] = desk[d]
    BY <1>t, <1>s, <1>2, DeskMoves
<1>5. /\ viewings' \in [Tenants -> [open: Nat, past: Nat]] /\ viewings'[p] = entered
      /\ \A r \in Tenants \ {p} : viewings'[r] = viewings[r]
    BY <1>t, <1>s, <1>1, <1>3 DEF HomeShape
<1>6. HomeShape'
    BY <1>t, <1>s, <1>1, <1>4, <1>5
       DEF HomeShape, Desk, DeskTicking, DeskFinding, DeskEnding, DeskHousing
<1>7. DiaryCounted'
    <2> SUFFICES ASSUME NEW r \in Tenants
                 PROVE  /\ IsFiniteSet(Diary(r)')
                        /\ viewings'[r].open + viewings'[r].past + Cardinality(Diary(r)') <= asks
        BY <1>s DEF DiaryCounted
    <2>1. ~ InDiary(new, r) /\ (InDiary(desk[q], r) <=> r = p)
        BY <1>s, <1>2 DEF InDiary
    <2>2. /\ IsFiniteSet(Diary(r)') /\ Cardinality(Diary(r)') \in Nat
          /\ Cardinality(Diary(r)) \in Nat /\ Cardinality(Diary(r)') <= Cardinality(Diary(r))
          /\ r = p => Cardinality(Diary(r)') + 1 = Cardinality(Diary(r))
        BY <1>t, <1>s, <1>2, <2>1, DiaryMoves
    <2>3. viewings[r].open + viewings[r].past + Cardinality(Diary(r)) <= asks
        BY <1>t DEF DiaryCounted
    <2>4. viewings[r] \in [open: Nat, past: Nat] /\ asks \in Nat
        BY <1>t DEF HomeShape
    <2>5. CASE r = p
        BY <1>3, <1>5, <2>2, <2>3, <2>4, <2>5
    <2>6. CASE r # p
        BY <1>5, <2>2, <2>3, <2>4, <2>6
    <2> QED BY <2>5, <2>6
<1>8. ViewingsApart'
    <2> SUFFICES ASSUME NEW r \in Tenants, r \notin muddled
                 PROVE  /\ viewings'[r].open <= 1
                        /\ \A d \in Desks : Entering(d, r)' => viewings'[r].open = 0
                        /\ \A d, e \in Desks : Entering(d, r)' /\ Entering(e, r)' => d = e
        BY <1>s DEF ViewingsApart
    <2>1. \A d \in Desks : Entering(d, r)' => Entering(d, r) /\ d # q
        BY <1>2, <1>4 DEF Entering
    <2>2. CASE r = p
        <3>1. viewings[p].open = 0 /\ \A d \in Desks : Entering(d, r) => d = q
            BY <1>t, <1>s, <1>1, <2>2 DEF ViewingsApart, Entering
        <3> QED BY <1>3, <1>5, <2>1, <2>2, <3>1
    <2>3. CASE r # p
        BY <1>t, <1>5, <2>1, <2>3 DEF ViewingsApart
    <2> QED BY <2>2, <2>3
<1>9. OneHome' /\ LeaversLeave' /\ EndsAreMade'
    BY <1>s, <1>2, HousesStand
<1> QED BY <1>6, <1>7, <1>8, <1>9 DEF HomeInv

LEMMA FreeDesk ==
    Free \in Desk /\ Free.at \notin TickPlaces \cup {"find", "end", "room", "house"}
BY DEF Desk, Free, TickPlaces

\* Looking things up, writing the date, and coming for a room or leaving without it.
LEMMA DeskGoesOn ==
    ASSUME HomeInv, NEW q \in Desks, NEW new \in Desk, desk' = [desk EXCEPT ![q] = new],
           new.at \notin {"clear", "enter", "end"}, desk[q].at \notin {"find", "end"},
           dated' \subseteq Tenants, asks' \in {asks, asks + 1}, asks' \in 0..MaxDeskRequests,
           UNCHANGED <<tenancy, rows, ticked, referred, filed, lost, after, diaryVars>>
    PROVE  HomeInv'
<1>t. HomeShape
    BY DEF HomeInv
<1>1. desk' \in [Desks -> Desk]
    BY <1>t, DeskMoves
<1>2. HomeShape'
    BY <1>t, <1>1 DEF HomeShape, Desk, DeskTicking, DeskFinding, DeskEnding, DeskHousing, diaryVars
<1>3. DiaryCounted' /\ ViewingsApart'
    BY DiaryStands
<1>4. OneHome' /\ LeaversLeave' /\ EndsAreMade'
    BY HousesStand
<1> QED BY <1>2, <1>3, <1>4 DEF HomeInv

LEMMA LooksKeepHomeInv ==
    ASSUME HomeInv, NEW q \in Desks,
           \/ LookUpRow(q) \/ WriteDate(q) \/ LookAtRoom(q)
           \/ \E p \in Tenants, r \in Rooms : LookAtTenant(q, p, r)
    PROVE  HomeInv'
<1>t. desk[q] \in Desk /\ dated \subseteq Tenants /\ asks \in 0..MaxDeskRequests
    BY DEF HomeInv, HomeShape
<1>1. CASE LookUpRow(q)
    <2> DEFINE found == desk[q].station \in rows[desk[q].tenant]
               new == [desk[q] EXCEPT !.at = "tick", !.exists = found]
    <2>1. /\ desk[q].at = "look" /\ desk' = [desk EXCEPT ![q] = new]
          /\ UNCHANGED <<tenancy, rows, ticked, dated, referred, filed, asks, lost, after, diaryVars>>
        BY <1>1 DEF LookUpRow
    <2>2. desk[q] \in DeskTicking
        BY <1>t, <2>1, DeskByPlace DEF TickPlaces
    <2>3. found \in BOOLEAN
        OBVIOUS
    <2> HIDE DEF found
    <2>4. new \in Desk /\ new.at = "tick"
        BY <2>2, <2>3 DEF Desk, DeskTicking, TickPlaces
    <2> HIDE DEF new
    <2> QED BY <1>t, <2>1, <2>4, DeskGoesOn
<1>2. CASE WriteDate(q)
    <2>1. /\ desk[q].at = "follow" /\ desk' = [desk EXCEPT ![q] = Free]
          /\ dated' \subseteq dated \cup {desk[q].tenant}
          /\ UNCHANGED <<tenancy, rows, ticked, referred, filed, asks, lost, after, diaryVars>>
        BY <1>2 DEF WriteDate, Leaves
    <2>2. desk[q] \in DeskTicking
        BY <1>t, <2>1, DeskByPlace DEF TickPlaces
    <2>3. desk[q].tenant \in Tenants
        BY <2>2 DEF DeskTicking
    <2> QED BY <1>t, <2>1, <2>3, FreeDesk, DeskGoesOn DEF TickPlaces
<1>3. CASE LookAtRoom(q)
    <2> DEFINE new == [desk[q] EXCEPT !.at = "house"]
    <2>1. /\ desk[q].at = "room"
          /\ desk' = [desk EXCEPT ![q] = new] \/ desk' = [desk EXCEPT ![q] = Free]
          /\ UNCHANGED <<tenancy, rows, ticked, dated, referred, filed, asks, lost, after, diaryVars>>
        BY <1>3 DEF LookAtRoom, Leaves
    <2>2. desk[q] \in DeskHousing
        BY <1>t, <2>1, DeskByPlace
    <2>3. new \in Desk /\ new.at = "house"
        BY <2>2 DEF Desk, DeskHousing
    <2> HIDE DEF new
    <2>4. CASE desk' = [desk EXCEPT ![q] = new]
        BY <1>t, <2>1, <2>3, <2>4, DeskGoesOn
    <2>5. CASE desk' = [desk EXCEPT ![q] = Free]
        BY <1>t, <2>1, <2>5, FreeDesk, DeskGoesOn DEF TickPlaces
    <2> QED BY <2>1, <2>4, <2>5
<1>4. ASSUME NEW p \in Tenants, NEW r \in Rooms, LookAtTenant(q, p, r) PROVE HomeInv'
    <2> DEFINE new == [at |-> "room", tenant |-> p, room |-> r]
    <2>1. /\ desk[q] = Free /\ asks < MaxDeskRequests /\ asks' = asks + 1
          /\ desk' = [desk EXCEPT ![q] = new]
          /\ UNCHANGED <<tenancy, rows, ticked, dated, referred, filed, lost, after, diaryVars>>
        BY <1>4 DEF LookAtTenant, Arrives
    <2>2. new \in Desk /\ new.at = "room"
        BY DEF Desk, DeskHousing
    <2> HIDE DEF new
    <2>3. asks' \in 0..MaxDeskRequests /\ desk[q].at \notin {"find", "end"}
        BY <1>t, <2>1, HomesAssumption, FreeDesk
    <2> QED BY <1>t, <2>1, <2>2, <2>3, DeskGoesOn
<1> QED BY <1>1, <1>2, <1>3, <1>4

\* Papers and referrals: the desks go on as they were.
LEMMA PapersKeepHomeInv ==
    ASSUME HomeInv, NEW p \in Tenants, Refer(p) \/ \E s \in Filable : FilePaper(p, s)
    PROVE  HomeInv'
<1>t. HomeShape /\ DiaryCounted /\ ViewingsApart /\ OneHome /\ LeaversLeave /\ EndsAreMade
    BY DEF HomeInv
<1>s. /\ asks < MaxDeskRequests /\ asks' = asks + 1
      /\ UNCHANGED <<tenancy, rows, ticked, dated, desk, lost, after, viewings, muddled>>
    BY DEF Refer, FilePaper, diaryVars
<1>1. filed' \in [Tenants -> SUBSET Filable] /\ referred' \subseteq Tenants
    BY <1>t DEF HomeShape, Refer, FilePaper
<1>2. asks' \in 0..MaxDeskRequests
    BY <1>t, <1>s, HomesAssumption DEF HomeShape
<1>3. HomeShape'
    BY <1>t, <1>s, <1>1, <1>2
       DEF HomeShape, Desk, DeskTicking, DeskFinding, DeskEnding, DeskHousing
<1>4. DiaryCounted'
    <2> SUFFICES ASSUME NEW r \in Tenants
                 PROVE  /\ IsFiniteSet(Diary(r)')
                        /\ viewings'[r].open + viewings'[r].past + Cardinality(Diary(r)') <= asks'
        BY DEF DiaryCounted
    <2>1. Diary(r)' = Diary(r)
        BY <1>s DEF Diary
    <2>2. /\ IsFiniteSet(Diary(r)) /\ Cardinality(Diary(r)) \in Nat
          /\ viewings[r].open + viewings[r].past + Cardinality(Diary(r)) <= asks
        BY <1>t, FS_CardinalityType DEF DiaryCounted
    <2>3. viewings[r] \in [open: Nat, past: Nat] /\ asks \in Nat
        BY <1>t DEF HomeShape
    <2> QED BY <1>s, <2>1, <2>2, <2>3
<1>5. ViewingsApart'
    BY <1>t, <1>s DEF ViewingsApart, Entering
<1>6. OneHome' /\ LeaversLeave' /\ EndsAreMade'
    BY <1>t, <1>s DEF OneHome, LeaversLeave, EndsAreMade, Moving, ActiveTenancies
<1> QED BY <1>3, <1>4, <1>5, <1>6 DEF HomeInv

\* An entry by hand is one request, and is made for a tenant who counts as muddled.
LEMMA KeepDiaryKeepsHomeInv == ASSUME HomeInv, NEW p \in Walkers, KeepDiary(p) PROVE HomeInv'
<1>t. HomeShape /\ DiaryCounted /\ ViewingsApart /\ OneHome /\ LeaversLeave /\ EndsAreMade
    BY DEF HomeInv
<1>p. p \in Tenants
    BY HomesAssumption
<1>1. PICK v \in HandKept(viewings[p]) :
          /\ viewings' = [viewings EXCEPT ![p] = v]
          /\ muddled' = IF v.open > viewings[p].open THEN muddled \cup {p} ELSE muddled
    BY DEF KeepDiary
<1>s. /\ asks < MaxDeskRequests /\ asks' = asks + 1
      /\ UNCHANGED <<tenancy, rows, ticked, dated, referred, filed, desk, lost, after>>
    BY DEF KeepDiary
<1>2. viewings[p] \in [open: Nat, past: Nat]
    BY <1>t, <1>p DEF HomeShape
<1>3. v \in [open: Nat, past: Nat] /\ v.open + v.past <= viewings[p].open + viewings[p].past + 1
    <2> DEFINE old == viewings[p]
    <2>1. \/ v = [old EXCEPT !.open = old.open + 1]
          \/ old.open > 0 /\ v = [old EXCEPT !.open = old.open - 1, !.past = old.past + 1]
          \/ old.open > 0 /\ v = [old EXCEPT !.open = old.open - 1]
          \/ old.past > 0 /\ v = [old EXCEPT !.open = old.open + 1, !.past = old.past - 1]
          \/ old.past > 0 /\ v = [old EXCEPT !.past = old.past - 1]
        BY <1>1 DEF HandKept
    <2>2. old \in [open: Nat, past: Nat]
        BY <1>2
    <2> HIDE DEF old
    <2>3. /\ v = [open |-> v.open, past |-> v.past]
          /\ \/ v.open = old.open + 1 /\ v.past = old.past
             \/ old.open > 0 /\ v.open = old.open - 1 /\ v.past \in {old.past, old.past + 1}
             \/ old.past > 0 /\ v.open \in {old.open, old.open + 1} /\ v.past = old.past - 1
        BY <2>1, <2>2
    <2>4. /\ old.open \in Nat /\ old.past \in Nat
          /\ v.open \in Nat /\ v.past \in Nat /\ v.open + v.past <= old.open + old.past + 1
        BY <2>2, <2>3
    <2> QED BY <2>3, <2>4 DEF old
<1>4. asks \in Nat /\ asks' \in 0..MaxDeskRequests
    BY <1>t, <1>s, HomesAssumption DEF HomeShape
<1>5. /\ viewings' \in [Tenants -> [open: Nat, past: Nat]] /\ viewings'[p] = v
      /\ \A r \in Tenants \ {p} : viewings'[r] = viewings[r]
      /\ muddled \subseteq muddled' /\ muddled' \subseteq Tenants
    BY <1>t, <1>p, <1>1, <1>3 DEF HomeShape
<1>6. HomeShape'
    BY <1>t, <1>s, <1>4, <1>5
       DEF HomeShape, Desk, DeskTicking, DeskFinding, DeskEnding, DeskHousing
<1>7. DiaryCounted'
    <2> SUFFICES ASSUME NEW r \in Tenants
                 PROVE  /\ IsFiniteSet(Diary(r)')
                        /\ viewings'[r].open + viewings'[r].past + Cardinality(Diary(r)') <= asks'
        BY DEF DiaryCounted
    <2>1. Diary(r)' = Diary(r)
        BY <1>s DEF Diary
    <2>2. /\ IsFiniteSet(Diary(r)) /\ Cardinality(Diary(r)) \in Nat
          /\ viewings[r].open + viewings[r].past + Cardinality(Diary(r)) <= asks
        BY <1>t, FS_CardinalityType DEF DiaryCounted
    <2>3. viewings[r] \in [open: Nat, past: Nat] /\ viewings'[r] \in [open: Nat, past: Nat]
        BY <1>t, <1>5 DEF HomeShape
    <2>4. viewings'[r].open + viewings'[r].past <= viewings[r].open + viewings[r].past + 1
        BY <1>3, <1>5, <2>3
    <2> QED BY <1>s, <1>4, <2>1, <2>2, <2>3, <2>4
<1>8. ViewingsApart'
    <2> SUFFICES ASSUME NEW r \in Tenants, r \notin muddled'
                 PROVE  /\ viewings'[r].open <= 1
                        /\ \A d \in Desks : Entering(d, r) => viewings'[r].open = 0
                        /\ \A d, e \in Desks : Entering(d, r) /\ Entering(e, r) => d = e
        BY <1>s DEF ViewingsApart, Entering
    <2>1. viewings'[r].open <= viewings[r].open
        <3>1. CASE r = p
            BY <1>1, <1>2, <1>3, <1>5, <3>1
        <3>2. CASE r # p
            BY <1>t, <1>5, <3>2 DEF HomeShape
        <3> QED BY <3>1, <3>2
    <2>2. /\ viewings[r] \in [open: Nat, past: Nat] /\ viewings'[r] \in [open: Nat, past: Nat]
          /\ r \notin muddled
        BY <1>t, <1>5 DEF HomeShape
    <2> QED BY <1>t, <2>1, <2>2 DEF ViewingsApart
<1>9. OneHome' /\ LeaversLeave' /\ EndsAreMade'
    BY <1>t, <1>s DEF OneHome, LeaversLeave, EndsAreMade, Moving, ActiveTenancies
<1> QED BY <1>6, <1>7, <1>8, <1>9 DEF HomeInv

\* Both ways the viewings of a tenant are marked, nothing is added to the diary.
LEMMA MarkDiaryKeepsHomeInv == ASSUME HomeInv, NEW q \in Desks, MarkDiary(q) PROVE HomeInv'
<1>t. HomeShape /\ DiaryCounted /\ ViewingsApart
    BY DEF HomeInv
<1> DEFINE p == desk[q].tenant
           all == viewings[p].open + viewings[p].past
           done == [open |-> 0, past |-> all]
           undone == [open |-> all, past |-> 0]
<1>s. /\ desk[q].at = "follow" /\ desk' = [desk EXCEPT ![q] = Free]
      /\ \/ viewings' = [viewings EXCEPT ![p] = done] /\ muddled' = muddled
         \/ viewings' = [viewings EXCEPT ![p] = undone] /\ muddled' = muddled \cup {p}
      /\ UNCHANGED <<tenancy, rows, ticked, dated, referred, filed, asks, lost, after>>
    BY DEF MarkDiary, Leaves
<1>1. desk[q] \in DeskTicking /\ p \in Tenants
    BY <1>t, <1>s, DeskByPlace DEF HomeShape, TickPlaces, DeskTicking
<1>2. viewings[p] \in [open: Nat, past: Nat] /\ all \in Nat
    BY <1>t, <1>1 DEF HomeShape
<1>3. PICK entries \in {done, undone} :
          /\ viewings' = [viewings EXCEPT ![p] = entries]
          /\ entries = done \/ p \in muddled'
          /\ muddled \subseteq muddled' /\ muddled' \subseteq muddled \cup {p}
    BY <1>s
<1>4. /\ entries \in [open: Nat, past: Nat] /\ entries.open + entries.past = all
      /\ entries.open = 0 \/ p \in muddled'
    BY <1>2, <1>3
<1>5. /\ viewings' \in [Tenants -> [open: Nat, past: Nat]] /\ viewings'[p] = entries
      /\ \A r \in Tenants \ {p} : viewings'[r] = viewings[r]
    BY <1>t, <1>1, <1>3, <1>4 DEF HomeShape
<1>6. /\ desk' \in [Desks -> Desk] /\ desk'[q] = Free
      /\ \A d \in Desks \ {q} : desk'[d] = desk[d]
    BY <1>t, <1>s, FreeDesk, DeskMoves
<1>7. HomeShape'
    BY <1>t, <1>s, <1>1, <1>3, <1>5, <1>6
       DEF HomeShape, Desk, DeskTicking, DeskFinding, DeskEnding, DeskHousing
<1>8. DiaryCounted'
    <2> SUFFICES ASSUME NEW r \in Tenants
                 PROVE  /\ IsFiniteSet(Diary(r)')
                        /\ viewings'[r].open + viewings'[r].past + Cardinality(Diary(r)') <= asks
        BY <1>s DEF DiaryCounted
    <2>1. ~ InDiary(Free, r)
        BY FreeDesk DEF InDiary, TickPlaces
    <2>2. /\ IsFiniteSet(Diary(r)') /\ Cardinality(Diary(r)') \in Nat
          /\ Cardinality(Diary(r)) \in Nat /\ Cardinality(Diary(r)') <= Cardinality(Diary(r))
        BY <1>t, <1>s, <2>1, FreeDesk, DiaryMoves
    <2>3. viewings[r].open + viewings[r].past + Cardinality(Diary(r)) <= asks
        BY <1>t DEF DiaryCounted
    <2>4. viewings[r] \in [open: Nat, past: Nat] /\ asks \in Nat
        BY <1>t DEF HomeShape
    <2>5. viewings'[r].open + viewings'[r].past = viewings[r].open + viewings[r].past
        BY <1>4, <1>5
    <2>6. viewings'[r] \in [open: Nat, past: Nat]
        BY <1>5
    <2> HIDE DEF all, done, undone
    <2> QED BY <2>2, <2>3, <2>4, <2>5, <2>6
<1>9. ViewingsApart'
    <2> SUFFICES ASSUME NEW r \in Tenants, r \notin muddled'
                 PROVE  /\ viewings'[r].open <= 1
                        /\ \A d \in Desks : Entering(d, r)' => viewings'[r].open = 0
                        /\ \A d, e \in Desks : Entering(d, r)' /\ Entering(e, r)' => d = e
        BY DEF ViewingsApart
    <2>1. \A d \in Desks : Entering(d, r)' => Entering(d, r)
        BY <1>6, FreeDesk DEF Entering, TickPlaces
    <2>2. /\ viewings[r].open <= 1
          /\ \A d \in Desks : Entering(d, r) => viewings[r].open = 0
          /\ \A d, e \in Desks : Entering(d, r) /\ Entering(e, r) => d = e
        BY <1>t, <1>3 DEF ViewingsApart
    <2>3. viewings'[r].open = 0 \/ viewings'[r].open = viewings[r].open
        BY <1>4, <1>5
    <2> QED BY <2>1, <2>2, <2>3
<1>10. OneHome' /\ LeaversLeave' /\ EndsAreMade'
    BY <1>s, FreeDesk, HousesStand
<1> QED BY <1>7, <1>8, <1>9, <1>10 DEF HomeInv

\* A request that writes of tenancies or of moving out, but not of the diary.
LEMMA HousesChange ==
    ASSUME HomeInv, NEW q \in Desks, NEW new \in Desk, desk' = [desk EXCEPT ![q] = new],
           new.at \notin {"clear", "enter"},
           tenancy' \in [Tenancies -> {NotMadeYet} \cup Tenancy],
           rows' \in [Tenants -> SUBSET Tickable], ticked' \in [Tenants -> SUBSET Tickable],
           lost' \subseteq Tenancies, after' \subseteq Tenancies,
           UNCHANGED <<dated, referred, filed, asks, diaryVars>>,
           OneHome', LeaversLeave', EndsAreMade'
    PROVE  HomeInv'
<1>t. HomeShape
    BY DEF HomeInv
<1>1. desk' \in [Desks -> Desk]
    BY <1>t, DeskMoves
<1>2. HomeShape'
    BY <1>t, <1>1 DEF HomeShape, Desk, DeskTicking, DeskFinding, DeskEnding, DeskHousing,
       Tenancy, diaryVars
<1>3. DiaryCounted' /\ ViewingsApart'
    BY DiaryStands
<1> QED BY <1>2, <1>3 DEF HomeInv

LEMMA WriteRowKeepsHomeInv == ASSUME HomeInv, NEW q \in Desks, WriteRow(q) PROVE HomeInv'
<1>t. HomeShape /\ OneHome /\ LeaversLeave /\ EndsAreMade
    BY DEF HomeInv
<1> DEFINE p == desk[q].tenant
           s == desk[q].station
           mark == desk[q].mark
           follow == [desk[q] EXCEPT !.at = "follow"]
           find == [at |-> "find", tenant |-> p]
<1>s. /\ desk[q].at = "tick"
      /\ UNCHANGED <<tenancy, dated, referred, filed, asks, lost, after, diaryVars>>
      /\ \/ UNCHANGED <<rows, ticked>>
         \/ /\ rows' = [rows EXCEPT ![p] = @ \cup {s}]
            /\ ticked' = [ticked EXCEPT ![p] =
                  IF mark = "done" THEN @ \cup {s} ELSE IF mark = "undone" THEN @ \ {s} ELSE @]
      /\ \/ desk' = [desk EXCEPT ![q] = Free]
         \/ desk' = [desk EXCEPT ![q] = follow]
         \/ desk' = [desk EXCEPT ![q] = find]
      /\ ~ UNCHANGED <<rows, ticked>> /\ s = "moved_out" /\ mark = "done"
            => desk' = [desk EXCEPT ![q] = find]
    BY DEF WriteRow, Leaves
<1>1. /\ desk[q] \in DeskTicking /\ p \in Tenants /\ s \in Tickable
    BY <1>t, <1>s, DeskByPlace DEF HomeShape, TickPlaces, DeskTicking
<1>2. /\ follow \in Desk /\ follow.at = "follow"
      /\ find \in Desk /\ find.at = "find" /\ find.tenant = p
    BY <1>1 DEF Desk, DeskTicking, DeskFinding, TickPlaces
<1>3. /\ rows' \in [Tenants -> SUBSET Tickable] /\ ticked' \in [Tenants -> SUBSET Tickable]
      /\ \A r \in Tenants \ {p} : ticked'[r] = ticked[r]
      /\ "moved_out" \in ticked'[p] /\ "moved_out" \notin ticked[p] =>
            ~ UNCHANGED <<rows, ticked>> /\ s = "moved_out" /\ mark = "done"
    <2>1. rows \in [Tenants -> SUBSET Tickable] /\ ticked \in [Tenants -> SUBSET Tickable]
        BY <1>t DEF HomeShape
    <2>2. CASE UNCHANGED <<rows, ticked>>
        BY <1>1, <2>1, <2>2
    <2>3. CASE /\ rows' = [rows EXCEPT ![p] = @ \cup {s}]
               /\ ticked' = [ticked EXCEPT ![p] =
                   IF mark = "done" THEN @ \cup {s} ELSE IF mark = "undone" THEN @ \ {s} ELSE @]
        BY <1>1, <2>1, <2>3
    <2> QED BY <1>s, <2>2, <2>3
<1> HIDE DEF follow, find
<1>4. ASSUME NEW new \in {Free, follow, find}, desk' = [desk EXCEPT ![q] = new] PROVE HomeInv'
    <2>1. /\ new \in Desk /\ new.at \notin {"clear", "enter", "end"}
          /\ desk'[q] = new /\ \A d \in Desks \ {q} : desk'[d] = desk[d]
        BY <1>t, <1>2, <1>4, FreeDesk, DeskMoves DEF TickPlaces
    <2>2. OneHome' /\ ActiveTenancies' = ActiveTenancies
        BY <1>t, <1>s DEF OneHome, ActiveTenancies
    <2>3. \A d \in Desks, i \in ActiveTenancies : Moving(d, i) => Moving(d, i)'
        BY <1>s, <2>1 DEF Moving
    <2>4. LeaversLeave'
        <3> SUFFICES ASSUME NEW i \in ActiveTenancies, "moved_out" \in ticked'[tenancy[i].tenant]
                     PROVE  i \in lost \cup after \/ \E d \in Desks : Moving(d, i)'
            BY <1>s, <2>2 DEF LeaversLeave
        <3>1. CASE "moved_out" \in ticked[tenancy[i].tenant]
            BY <1>t, <2>3, <3>1 DEF LeaversLeave
        <3>2. CASE "moved_out" \notin ticked[tenancy[i].tenant]
            <4>1. tenancy[i].tenant \in Tenants
                BY <1>t DEF ActiveTenancies, HomeShape, NotMadeYet, Tenancy
            <4>2. tenancy[i].tenant = p
                BY <1>3, <3>2, <4>1
            <4>3. desk' = [desk EXCEPT ![q] = find]
                BY <1>s, <1>3, <3>2, <4>2
            <4>4. desk'[q] = find
                BY <1>t, <1>2, <4>3, DeskMoves
            <4> QED BY <1>s, <1>2, <4>2, <4>4 DEF Moving
        <3> QED BY <3>1, <3>2
    <2>5. EndsAreMade'
        BY <1>t, <1>s, <2>1 DEF EndsAreMade
    <2>6. tenancy' \in [Tenancies -> {NotMadeYet} \cup Tenancy]
          /\ lost' \subseteq Tenancies /\ after' \subseteq Tenancies
        BY <1>t, <1>s DEF HomeShape
    <2> QED BY <1>s, <1>3, <1>4, <2>1, <2>2, <2>4, <2>5, <2>6, HousesChange
<1> QED BY <1>s, <1>4

\* Which tenancies are active shrinks, and the others stay as they are.
LEMMA FindTenanciesKeepsHomeInv ==
    ASSUME HomeInv, NEW q \in Desks, FindTenancies(q) PROVE HomeInv'
<1>t. HomeShape /\ OneHome /\ LeaversLeave /\ EndsAreMade
    BY DEF HomeInv
<1> DEFINE p == desk[q].tenant
           new == [at |-> "end", tenant |-> p, left |-> ActiveOf(p)]
<1>s. /\ desk[q].at = "find" /\ desk' = [desk EXCEPT ![q] = new]
      /\ UNCHANGED <<tenancy, rows, ticked, dated, referred, filed, asks, lost, after, diaryVars>>
    BY DEF FindTenancies
<1>1. desk[q] \in DeskFinding /\ p \in Tenants
    BY <1>t, <1>s, DeskByPlace DEF HomeShape, DeskFinding
<1>2. /\ new \in Desk /\ new.at = "end" /\ new.tenant = p /\ new.left = ActiveOf(p)
    BY <1>1 DEF Desk, DeskEnding, ActiveOf, ActiveTenancies
<1> HIDE DEF new
<1>3. desk'[q] = new /\ \A d \in Desks \ {q} : desk'[d] = desk[d]
    BY <1>t, <1>s, <1>2, DeskMoves
<1>4. OneHome' /\ ActiveTenancies' = ActiveTenancies
    BY <1>t, <1>s DEF OneHome, ActiveTenancies
<1>5. \A d \in Desks, i \in ActiveTenancies : Moving(d, i) => Moving(d, i)'
    BY <1>s, <1>2, <1>3 DEF Moving, ActiveOf
<1>6. LeaversLeave'
    BY <1>t, <1>s, <1>4, <1>5 DEF LeaversLeave
<1>7. EndsAreMade'
    <2>1. \A i \in ActiveOf(p) : tenancy[i] \in Tenancy
        BY <1>t DEF ActiveOf, ActiveTenancies, HomeShape, NotMadeYet
    <2> QED BY <1>t, <1>s, <1>2, <1>3, <2>1 DEF EndsAreMade
<1>8. /\ tenancy' \in [Tenancies -> {NotMadeYet} \cup Tenancy]
      /\ rows' \in [Tenants -> SUBSET Tickable] /\ ticked' \in [Tenants -> SUBSET Tickable]
      /\ lost' \subseteq Tenancies /\ after' \subseteq Tenancies
    BY <1>t, <1>s DEF HomeShape
<1> QED BY <1>s, <1>2, <1>4, <1>6, <1>7, <1>8, HousesChange

LEMMA EndTenancyKeepsHomeInv ==
    ASSUME HomeInv, NEW q \in Desks, NEW i \in Tenancies, EndTenancy(q, i) PROVE HomeInv'
<1>t. HomeShape /\ OneHome /\ LeaversLeave /\ EndsAreMade
    BY DEF HomeInv
<1> DEFINE new == [desk[q] EXCEPT !.left = @ \ {i}]
           ended == [tenancy[i] EXCEPT !.status = "ended"]
<1>s. /\ desk[q].at = "end" /\ i \in desk[q].left /\ desk' = [desk EXCEPT ![q] = new]
      /\ \/ tenancy' = [tenancy EXCEPT ![i] = ended] /\ lost' = lost
         \/ lost' = lost \cup {i} /\ tenancy' = tenancy
      /\ UNCHANGED <<rows, ticked, dated, referred, filed, asks, after, diaryVars>>
    BY DEF EndTenancy
<1>1. desk[q] \in DeskEnding /\ tenancy[i] \in Tenancy
    BY <1>t, <1>s, DeskByPlace DEF HomeShape, EndsAreMade
<1>2. /\ new \in Desk /\ new.at = "end" /\ new.tenant = desk[q].tenant
      /\ new.left = desk[q].left \ {i}
    BY <1>1 DEF Desk, DeskEnding
<1>3. ended \in Tenancy /\ ended.status = "ended"
    BY <1>1 DEF Tenancy
<1> HIDE DEF new, ended
<1>4. desk'[q] = new /\ \A d \in Desks \ {q} : desk'[d] = desk[d]
    BY <1>t, <1>s, <1>2, DeskMoves
<1>5. /\ tenancy' \in [Tenancies -> {NotMadeYet} \cup Tenancy] /\ tenancy'[i] \in Tenancy
      /\ \A j \in Tenancies \ {i} : tenancy'[j] = tenancy[j]
      /\ \/ tenancy'[i] = tenancy[i] /\ i \in lost'
         \/ tenancy'[i].status = "ended"
    BY <1>t, <1>s, <1>1, <1>3 DEF HomeShape
<1>6. /\ ActiveTenancies' \subseteq ActiveTenancies
      /\ \A j \in ActiveTenancies' : tenancy'[j] = tenancy[j] /\ (j = i => i \in lost')
    BY <1>5 DEF ActiveTenancies
<1>7. OneHome'
    BY <1>t, <1>6 DEF OneHome
<1>8. LeaversLeave'
    <2> SUFFICES ASSUME NEW j \in ActiveTenancies', "moved_out" \in ticked[tenancy'[j].tenant]
                 PROVE  j \in lost' \cup after \/ \E d \in Desks : Moving(d, j)'
        BY <1>s DEF LeaversLeave
    <2>1. CASE j = i
        BY <1>6, <2>1
    <2>2. CASE j # i
        <3>1. j \in lost \cup after \/ \E d \in Desks : Moving(d, j)
            BY <1>t, <1>6 DEF LeaversLeave
        <3>2. \A d \in Desks : Moving(d, j) => Moving(d, j)'
            BY <1>s, <1>2, <1>4, <1>6, <2>2 DEF Moving
        <3> QED BY <1>s, <3>1, <3>2
    <2> QED BY <2>1, <2>2
<1>9. EndsAreMade'
    <2> SUFFICES ASSUME NEW d \in Desks, desk'[d].at = "end", NEW j \in desk'[d].left
                 PROVE  tenancy'[j] \in Tenancy
        BY DEF EndsAreMade
    <2>1. desk[d].at = "end" /\ j \in desk[d].left
        BY <1>s, <1>2, <1>4
    <2>2. tenancy[j] \in Tenancy /\ j \in Tenancies
        BY <1>t, <2>1, DeskByPlace DEF EndsAreMade, HomeShape, DeskEnding
    <2> QED BY <1>5, <2>2
<1>10. /\ rows' \in [Tenants -> SUBSET Tickable] /\ ticked' \in [Tenants -> SUBSET Tickable]
       /\ lost' \subseteq Tenancies /\ after' \subseteq Tenancies
    BY <1>t, <1>s DEF HomeShape
<1> QED BY <1>s, <1>2, <1>5, <1>7, <1>8, <1>9, <1>10, HousesChange

\* The request is over, or fails: what it has not ended is known to be lost.
LEMMA DeskLeavesKeepsHomeInv ==
    ASSUME HomeInv, NEW q \in Desks, Answers(q) \/ DeskFails(q) PROVE HomeInv'
<1>t. HomeShape /\ OneHome /\ LeaversLeave /\ EndsAreMade
    BY DEF HomeInv
<1>s. /\ desk' = [desk EXCEPT ![q] = Free]
      /\ lost \subseteq lost' /\ lost' \subseteq Tenancies
      /\ desk[q].at = "find" => ActiveOf(desk[q].tenant) \subseteq lost'
      /\ desk[q].at = "end" => desk[q].left \subseteq lost'
      /\ UNCHANGED <<tenancy, rows, ticked, dated, referred, filed, asks, after, diaryVars>>
    <2>1. CASE Answers(q)
        BY <1>t, <2>1 DEF Answers, Leaves, HomeShape
    <2>2. CASE DeskFails(q)
        <3>1. desk[q].at = "end" => desk[q].left \subseteq Tenancies
            BY <1>t, DeskByPlace DEF HomeShape, DeskEnding
        <3> QED BY <1>t, <2>2, <3>1 DEF DeskFails, Leaves, HomeShape, ActiveOf, ActiveTenancies
    <2> QED BY <2>1, <2>2
<1>1. desk'[q] = Free /\ \A d \in Desks \ {q} : desk'[d] = desk[d]
    BY <1>t, <1>s, FreeDesk, DeskMoves
<1>2. OneHome' /\ ActiveTenancies' = ActiveTenancies
    BY <1>t, <1>s DEF OneHome, ActiveTenancies
<1>3. \A i \in ActiveTenancies : Moving(q, i) => i \in lost'
    BY <1>s DEF Moving, ActiveOf
<1>4. \A d \in Desks \ {q}, i \in ActiveTenancies : Moving(d, i) => Moving(d, i)'
    BY <1>s, <1>1 DEF Moving
<1>5. LeaversLeave'
    BY <1>t, <1>s, <1>2, <1>3, <1>4 DEF LeaversLeave
<1>6. EndsAreMade'
    BY <1>t, <1>s, <1>1, FreeDesk DEF EndsAreMade
<1>7. /\ tenancy' \in [Tenancies -> {NotMadeYet} \cup Tenancy]
      /\ rows' \in [Tenants -> SUBSET Tickable] /\ ticked' \in [Tenants -> SUBSET Tickable]
      /\ after' \subseteq Tenancies
    BY <1>t, <1>s DEF HomeShape
<1> QED BY <1>s, <1>2, <1>5, <1>6, <1>7, FreeDesk, HousesChange DEF TickPlaces

\* The two indexes: nobody else has the room, and the tenant has no other.
LEMMA HouseKeepsHomeInv == ASSUME HomeInv, NEW q \in Desks, House(q) PROVE HomeInv'
<1>t. HomeShape /\ OneHome /\ LeaversLeave /\ EndsAreMade
    BY DEF HomeInv
<1> DEFINE p == desk[q].tenant
           r == desk[q].room
           new == [status |-> "active", tenant |-> p, room |-> r]
<1>s. /\ desk[q].at = "house" /\ desk' = [desk EXCEPT ![q] = Free]
      /\ \/ /\ MayHouse(p, r)
            /\ \E i \in Tenancies :
                  /\ tenancy[i] = NotMadeYet /\ tenancy' = [tenancy EXCEPT ![i] = new]
                  /\ after' = IF "moved_out" \in ticked[p] THEN after \cup {i} ELSE after
         \/ UNCHANGED <<tenancy, after>>
      /\ UNCHANGED <<rows, ticked, dated, referred, filed, asks, lost, diaryVars>>
    BY DEF House, Leaves
<1>1. desk[q] \in DeskHousing
    BY <1>t, <1>s, DeskByPlace DEF HomeShape
<1>2. new \in Tenancy /\ new.status = "active" /\ new.tenant = p /\ new.room = r
    BY <1>1 DEF DeskHousing, Tenancy
<1> HIDE DEF new
<1>3. desk'[q] = Free /\ \A d \in Desks \ {q} : desk'[d] = desk[d]
    BY <1>t, <1>s, FreeDesk, DeskMoves
<1>4. CASE UNCHANGED <<tenancy, after>>
    <2>1. OneHome' /\ LeaversLeave' /\ EndsAreMade'
        BY <1>s, <1>4, FreeDesk, HousesStand
    <2>2. /\ tenancy' \in [Tenancies -> {NotMadeYet} \cup Tenancy]
          /\ rows' \in [Tenants -> SUBSET Tickable] /\ ticked' \in [Tenants -> SUBSET Tickable]
          /\ lost' \subseteq Tenancies /\ after' \subseteq Tenancies
        BY <1>t, <1>s, <1>4 DEF HomeShape
    <2> QED BY <1>s, <2>1, <2>2, FreeDesk, HousesChange DEF TickPlaces
<1>5. ASSUME MayHouse(p, r), NEW i \in Tenancies,
             tenancy[i] = NotMadeYet, tenancy' = [tenancy EXCEPT ![i] = new],
             after' = IF "moved_out" \in ticked[p] THEN after \cup {i} ELSE after
      PROVE  HomeInv'
    <2>1. /\ tenancy' \in [Tenancies -> {NotMadeYet} \cup Tenancy] /\ tenancy'[i] = new
          /\ \A j \in Tenancies \ {i} : tenancy'[j] = tenancy[j]
        BY <1>t, <1>2, <1>5 DEF HomeShape
    <2>2. /\ ActiveTenancies' = ActiveTenancies \cup {i} /\ i \notin ActiveTenancies
        BY <1>2, <1>5, <2>1 DEF ActiveTenancies, NotMadeYet
    <2>3. \A j \in ActiveTenancies : tenancy[j].tenant # p /\ tenancy[j].room # r
        BY <1>5 DEF MayHouse, ActiveOf, ActiveIn
    <2>4. OneHome'
        <3> SUFFICES ASSUME NEW j \in ActiveTenancies', NEW k \in ActiveTenancies',
                            \/ tenancy'[j].tenant = tenancy'[k].tenant
                            \/ tenancy'[j].room = tenancy'[k].room
                     PROVE  j = k
            BY DEF OneHome
        <3> QED BY <1>t, <1>2, <2>1, <2>2, <2>3 DEF OneHome, ActiveTenancies
    <2>5. \A d \in Desks, j \in ActiveTenancies : Moving(d, j) => Moving(d, j)'
        BY <1>s, <1>3, <2>1, <2>2 DEF Moving, ActiveTenancies
    <2>6. LeaversLeave'
        <3> SUFFICES ASSUME NEW j \in ActiveTenancies', "moved_out" \in ticked[tenancy'[j].tenant]
                     PROVE  j \in lost \cup after' \/ \E d \in Desks : Moving(d, j)'
            BY <1>s DEF LeaversLeave
        <3>1. CASE j = i
            BY <1>2, <1>5, <2>1, <3>1
        <3>2. CASE j # i
            BY <1>t, <1>5, <2>1, <2>2, <2>5, <3>2 DEF LeaversLeave, ActiveTenancies
        <3> QED BY <3>1, <3>2
    <2>7. EndsAreMade'
        <3> SUFFICES ASSUME NEW d \in Desks, desk'[d].at = "end", NEW j \in desk'[d].left
                     PROVE  tenancy'[j] \in Tenancy
            BY DEF EndsAreMade
        <3>1. d # q /\ desk[d].at = "end" /\ j \in desk[d].left
            BY <1>3, FreeDesk
        <3>2. tenancy[j] \in Tenancy /\ j \in Tenancies
            BY <1>t, <3>1, DeskByPlace DEF EndsAreMade, HomeShape, DeskEnding
        <3> QED BY <1>2, <2>1, <3>2
    <2>8. /\ rows' \in [Tenants -> SUBSET Tickable] /\ ticked' \in [Tenants -> SUBSET Tickable]
          /\ lost' \subseteq Tenancies /\ after' \subseteq Tenancies
        BY <1>t, <1>s, <1>5 DEF HomeShape
    <2> QED BY <1>s, <2>1, <2>4, <2>6, <2>7, <2>8, FreeDesk, HousesChange DEF TickPlaces
<1> QED BY <1>s, <1>4, <1>5

\* The board of the journey, station by station: what the walk has found after n of them.
BoardRow ==
    [green: SUBSET StationSet, held: SUBSET StationSet, open: StationSet \cup {"none"}]
BoardStart == [green |-> {}, held |-> {}, open |-> "none"]
BoardStep(p, b, s) ==
    IF Passes(p, s)
    THEN [b EXCEPT !.green = @ \cup ((OnRecord(p) \ NotNeeded(p)) \cap {s})]
    ELSE IF s \notin OnRecord(p)
    THEN [b EXCEPT !.open = IF @ = "none" THEN s ELSE @]
    ELSE IF b.open = "none" THEN [b EXCEPT !.green = @ \cup {s}]
    ELSE [b EXCEPT !.held = @ \cup {s}]
IsWalk(p, w) ==
    w = [n \in 0..Len(Stations) |->
            IF n = 0 THEN BoardStart ELSE BoardStep(p, w[n - 1], Stations[n])]

Needed(p, n) == {m \in 1..n : Stations[m] \notin NotNeeded(p) \cup {"moved_out"}}
Missing(p, n) == {m \in Needed(p, n) : Stations[m] \notin OnRecord(p)}
Reached(p, n) == {m \in Needed(p, n) : \A k \in Missing(p, n) : m < k}
Fills(p, n, b) ==
    /\ b \in BoardRow
    /\ b.green = {Stations[m] : m \in Reached(p, n)}
                 \cup {s \in OnRecord(p) \cap {"moved_out"} : n = 8}
    /\ Missing(p, n) = {} => b.open = "none"
    /\ Missing(p, n) # {} =>
          \E m \in Missing(p, n) : b.open = Stations[m] /\ \A k \in Missing(p, n) : m <= k

LEMMA EightStations ==
    /\ Len(Stations) = 8 /\ DOMAIN Stations = 1..8
    /\ \A n \in 1..8 : /\ Stations[n] \in StationSet /\ Stations[n] # "none"
                        /\ (Stations[n] = "moved_out" <=> n = 8)
                        /\ (Stations[n] = "onboarded" <=> n = 7)
<1>1. Len(Stations) = 8 /\ DOMAIN Stations = 1..8
    BY DEF Stations
<1>2. /\ Stations[1] = "lead_received" /\ Stations[2] = "viewing" /\ Stations[3] = "signed_up"
      /\ Stations[4] = "moved_in" /\ Stations[5] = "claim_done" /\ Stations[6] = "email_sent"
      /\ Stations[7] = "onboarded" /\ Stations[8] = "moved_out"
    BY DEF Stations
<1>3. ASSUME NEW n \in 1..8
      PROVE  /\ Stations[n] \in StationSet /\ Stations[n] # "none"
             /\ (Stations[n] = "moved_out" <=> n = 8) /\ (Stations[n] = "onboarded" <=> n = 7)
    <2>1. n \in {1, 2, 3, 4, 5, 6, 7, 8}
        OBVIOUS
    <2>2. Stations[n] \in StationSet
        BY <1>1 DEF StationSet
    <2>3. Stations[n] # "none"
        BY <1>2, <2>1
    <2>4. Stations[n] = "moved_out" <=> n = 8
        BY <1>2, <2>1
    <2>5. Stations[n] = "onboarded" <=> n = 7
        BY <1>2, <2>1
    <2> QED BY <2>2, <2>3, <2>4, <2>5
<1> QED BY <1>1, <1>3

\* The walk exists: its eight rows, one after the other.
LEMMA WalkExists == ASSUME NEW p PROVE \E w : IsWalk(p, w)
<1> DEFINE b1 == BoardStep(p, BoardStart, Stations[1])
           b2 == BoardStep(p, b1, Stations[2])
           b3 == BoardStep(p, b2, Stations[3])
           b4 == BoardStep(p, b3, Stations[4])
           b5 == BoardStep(p, b4, Stations[5])
           b6 == BoardStep(p, b5, Stations[6])
           b7 == BoardStep(p, b6, Stations[7])
           b8 == BoardStep(p, b7, Stations[8])
           w == [n \in 0..8 |-> CASE n = 0 -> BoardStart [] n = 1 -> b1 [] n = 2 -> b2
                                  [] n = 3 -> b3 [] n = 4 -> b4 [] n = 5 -> b5
                                  [] n = 6 -> b6 [] n = 7 -> b7 [] OTHER -> b8]
<1> HIDE DEF b1, b2, b3, b4, b5, b6, b7, b8
<1>1. /\ w[0] = BoardStart /\ w[1] = b1 /\ w[2] = b2 /\ w[3] = b3 /\ w[4] = b4
      /\ w[5] = b5 /\ w[6] = b6 /\ w[7] = b7 /\ w[8] = b8
    OBVIOUS
<1>2. DOMAIN w = 0..8 /\ w = [n \in 0..8 |-> w[n]]
    OBVIOUS
<1> HIDE DEF w
<1>3. ASSUME NEW n \in 0..8
      PROVE  w[n] = IF n = 0 THEN BoardStart ELSE BoardStep(p, w[n - 1], Stations[n])
    <2>1. n \in {0, 1, 2, 3, 4, 5, 6, 7, 8}
        OBVIOUS
    <2>2. CASE n = 0
        BY <1>1, <2>2
    <2>3. CASE n = 1
        BY <1>1, <2>3 DEF b1
    <2>4. CASE n = 2
        BY <1>1, <2>4 DEF b2
    <2>5. CASE n = 3
        BY <1>1, <2>5 DEF b3
    <2>6. CASE n = 4
        BY <1>1, <2>6 DEF b4
    <2>7. CASE n = 5
        BY <1>1, <2>7 DEF b5
    <2>8. CASE n = 6
        BY <1>1, <2>8 DEF b6
    <2>9. CASE n = 7
        BY <1>1, <2>9 DEF b7
    <2>10. CASE n = 8
        BY <1>1, <2>10 DEF b8
    <2> QED BY <2>1, <2>2, <2>3, <2>4, <2>5, <2>6, <2>7, <2>8, <2>9, <2>10
<1>4. w = [n \in 0..8 |-> IF n = 0 THEN BoardStart ELSE BoardStep(p, w[n - 1], Stations[n])]
    BY <1>2, <1>3
<1>5. IsWalk(p, w)
    BY <1>4, EightStations DEF IsWalk
<1> QED BY <1>5

\* The next station, on record or not, needed or not.
LEMMA StepFills ==
    ASSUME NEW p, NEW n \in 1..8, NEW b, Fills(p, n - 1, b)
    PROVE  Fills(p, n, BoardStep(p, b, Stations[n]))
<1> DEFINE s == Stations[n]
<1>1. /\ s \in StationSet /\ s # "none" /\ (s = "moved_out" <=> n = 8) /\ (s = "onboarded" <=> n = 7)
      /\ \A m \in 1..8 : Stations[m] # "none"
    BY EightStations
<1>2. /\ b \in BoardRow /\ NotNeeded(p) \subseteq {"onboarded"}
      /\ b.green = {Stations[m] : m \in Reached(p, n - 1)}
      /\ Missing(p, n - 1) = {} => b.open = "none"
      /\ Missing(p, n - 1) # {} =>
            \E m \in Missing(p, n - 1) :
                b.open = Stations[m] /\ \A k \in Missing(p, n - 1) : m <= k
    BY DEF Fills, NotNeeded
<1>3. /\ n \notin Needed(p, n - 1) /\ \A m \in Needed(p, n - 1) : m \in 1..8 /\ m < n
      /\ Missing(p, n - 1) \subseteq Needed(p, n - 1) /\ Missing(p, n) \subseteq Needed(p, n)
    BY DEF Needed, Missing
<1>4. CASE Passes(p, s)
    <2>1. s \in NotNeeded(p) \cup {"moved_out"}
        BY <1>4 DEF Passes
    <2>2. Needed(p, n) = Needed(p, n - 1)
        BY <2>1 DEF Needed
    <2>3. Missing(p, n) = Missing(p, n - 1) /\ Reached(p, n) = Reached(p, n - 1)
        BY <2>2 DEF Missing, Reached
    <2>4. (OnRecord(p) \ NotNeeded(p)) \cap {s} = {x \in OnRecord(p) \cap {"moved_out"} : n = 8}
        BY <1>1, <1>2, <2>1
    <2> DEFINE c == [b EXCEPT !.green = @ \cup ((OnRecord(p) \ NotNeeded(p)) \cap {s})]
    <2>5. BoardStep(p, b, s) = c
        BY <1>4 DEF BoardStep
    <2>6. /\ c \in BoardRow /\ c.open = b.open
          /\ c.green = b.green \cup ((OnRecord(p) \ NotNeeded(p)) \cap {s})
        BY <1>1, <1>2 DEF BoardRow
    <2> HIDE DEF c, s
    <2>7. Fills(p, n, c)
        BY <1>2, <2>3, <2>4, <2>6 DEF Fills
    <2> QED BY <2>5, <2>7 DEF s
<1>5. CASE ~ Passes(p, s)
    <2>1. /\ s \notin NotNeeded(p) \cup {"moved_out"} /\ n # 8
          /\ Needed(p, n) = Needed(p, n - 1) \cup {n}
        BY <1>1, <1>5 DEF Passes, Needed
    <2>2. CASE s \notin OnRecord(p)
        <3>1. Missing(p, n) = Missing(p, n - 1) \cup {n}
            BY <2>1, <2>2 DEF Missing
        <3>2. Reached(p, n) = Reached(p, n - 1)
            BY <1>3, <2>1, <3>1 DEF Reached
        <3> DEFINE c == [b EXCEPT !.open = IF @ = "none" THEN s ELSE @]
        <3>3. BoardStep(p, b, s) = c
            BY <1>5, <2>2 DEF BoardStep
        <3>4. /\ c \in BoardRow /\ c.green = b.green
              /\ c.open = IF b.open = "none" THEN s ELSE b.open
            BY <1>1, <1>2 DEF BoardRow
        <3> HIDE DEF c
        <3>5. \E m \in Missing(p, n) : c.open = Stations[m] /\ \A k \in Missing(p, n) : m <= k
            <4>1. CASE Missing(p, n - 1) = {}
                <5>1. c.open = Stations[n] /\ Missing(p, n) = {n}
                    BY <1>2, <3>1, <3>4, <4>1
                <5> QED BY <5>1
            <4>2. CASE Missing(p, n - 1) # {}
                <5>1. PICK m \in Missing(p, n - 1) :
                          b.open = Stations[m] /\ \A k \in Missing(p, n - 1) : m <= k
                    BY <1>2, <4>2
                <5>2. m \in 1..8 /\ m < n /\ Stations[m] # "none"
                    BY <1>1, <1>3
                <5>3. c.open = Stations[m] /\ \A k \in Missing(p, n) : m <= k
                    BY <3>1, <3>4, <5>1, <5>2
                <5> QED BY <3>1, <5>3
            <4> QED BY <4>1, <4>2
        <3>6. Fills(p, n, c)
            BY <1>2, <2>1, <3>1, <3>2, <3>4, <3>5 DEF Fills
        <3> QED BY <3>3, <3>6
    <2>3. CASE s \in OnRecord(p) /\ b.open = "none"
        <3>1. Missing(p, n - 1) = {}
            BY <1>1, <1>2, <1>3, <2>3
        <3>2. Missing(p, n) = {}
            BY <2>1, <2>3, <3>1 DEF Missing
        <3>3. Reached(p, n) = Reached(p, n - 1) \cup {n}
            BY <2>1, <3>1, <3>2 DEF Reached
        <3> DEFINE c == [b EXCEPT !.green = @ \cup {s}]
        <3>4. BoardStep(p, b, s) = c
            BY <1>5, <2>3 DEF BoardStep
        <3>5. c \in BoardRow /\ c.green = b.green \cup {s} /\ c.open = b.open
            BY <1>1, <1>2 DEF BoardRow
        <3> HIDE DEF c
        <3>6. c.green = {Stations[m] : m \in Reached(p, n)}
            BY <1>2, <3>3, <3>5
        <3>7. Fills(p, n, c)
            BY <2>1, <2>3, <3>2, <3>5, <3>6 DEF Fills
        <3> QED BY <3>4, <3>7
    <2>4. CASE s \in OnRecord(p) /\ b.open # "none"
        <3>1. Missing(p, n - 1) # {}
            BY <1>2, <2>4
        <3>2. Missing(p, n) = Missing(p, n - 1)
            BY <2>1, <2>4 DEF Missing
        <3>3. Reached(p, n) = Reached(p, n - 1)
            BY <1>3, <2>1, <3>1, <3>2 DEF Reached
        <3> DEFINE c == [b EXCEPT !.held = @ \cup {s}]
        <3>4. BoardStep(p, b, s) = c
            BY <1>5, <2>4 DEF BoardStep
        <3>5. c \in BoardRow /\ c.green = b.green /\ c.open = b.open
            BY <1>1, <1>2 DEF BoardRow
        <3> HIDE DEF c
        <3>6. Fills(p, n, c)
            BY <1>2, <2>1, <3>2, <3>3, <3>5 DEF Fills
        <3> QED BY <3>4, <3>6
    <2> QED BY <2>2, <2>3, <2>4
<1> QED BY <1>4, <1>5

LEMMA BoardFills == ASSUME NEW p PROVE Fills(p, 8, Board(p))
<1> DEFINE w == CHOOSE w : IsWalk(p, w)
<1>1. IsWalk(p, w)
    BY WalkExists
<1>2. Board(p) = w[8]
    BY EightStations DEF Board, IsWalk, BoardStep, BoardStart
<1> HIDE DEF w
<1>3. /\ w[0] = BoardStart
      /\ \A n \in 1..8 : w[n] = BoardStep(p, w[n - 1], Stations[n])
    BY <1>1, EightStations DEF IsWalk
<1>4. Fills(p, 0, w[0])
    <2>1. Needed(p, 0) = {} /\ Missing(p, 0) = {} /\ Reached(p, 0) = {}
        <3>1. 1..0 = {}
            OBVIOUS
        <3>2. Needed(p, 0) = {}
            BY <3>1 DEF Needed
        <3> QED BY <3>2 DEF Missing, Reached
    <2>2. BoardStart \in BoardRow /\ BoardStart.green = {} /\ BoardStart.open = "none"
        BY DEF BoardStart, BoardRow
    <2> QED BY <1>3, <2>1, <2>2 DEF Fills
<1>5. ASSUME NEW n \in 1..8, Fills(p, n - 1, w[n - 1]) PROVE Fills(p, n, w[n])
    BY <1>3, <1>5, StepFills
<1>6. Fills(p, 1, w[1])
    BY <1>4, <1>5
<1>7. Fills(p, 2, w[2])
    BY <1>5, <1>6
<1>8. Fills(p, 3, w[3])
    BY <1>5, <1>7
<1>9. Fills(p, 4, w[4])
    BY <1>5, <1>8
<1>10. Fills(p, 5, w[5])
    BY <1>5, <1>9
<1>11. Fills(p, 6, w[6])
    BY <1>5, <1>10
<1>12. Fills(p, 7, w[7])
    BY <1>5, <1>11
<1>13. Fills(p, 8, w[8])
    BY <1>5, <1>12
<1> QED BY <1>2, <1>13

LEMMA BoardInOrder == GreenInOrder
<1> SUFFICES ASSUME NEW p \in Tenants
             PROVE  LET on == OnRecord(p)
                        skipped == NotNeeded(p) \cup {"moved_out"}
                        needed == {n \in DOMAIN Stations : Stations[n] \notin skipped}
                        missing == {n \in needed : Stations[n] \notin on}
                        reached == {n \in needed : \A m \in missing : n < m}
                        board == Board(p)
                    IN  /\ board.green = {Stations[n] : n \in reached} \cup (on \cap {"moved_out"})
                        /\ IF missing = {} THEN board.open = "none"
                           ELSE \E m \in missing : board.open = Stations[m]
                                                     /\ \A n \in missing : m <= n
    BY DEF GreenInOrder
<1>1. Fills(p, 8, Board(p))
    BY BoardFills
<1>2. /\ Needed(p, 8) = {n \in DOMAIN Stations : Stations[n] \notin NotNeeded(p) \cup {"moved_out"}}
      /\ {s \in OnRecord(p) \cap {"moved_out"} : 8 = 8} = OnRecord(p) \cap {"moved_out"}
    BY EightStations DEF Needed
<1> QED BY <1>1, <1>2 DEF Fills, Missing, Reached

LEMMA HomeInvInit == HomeInit => HomeInv
<1> SUFFICES ASSUME HomeInit PROVE HomeInv
    OBVIOUS
<1> USE DEF HomeInit
<1>1. asks \in 0..MaxDeskRequests
    BY HomesAssumption
<1>2. desk \in [Desks -> Desk] /\ \A q \in Desks : desk[q] = Free
    BY FreeDesk
<1>3. HomeShape
    BY <1>1, <1>2, PapersAssumption DEF HomeShape
<1>4. \A p \in Tenants : Diary(p) = {}
    BY <1>2, FreeDesk DEF Diary, InDiary, TickPlaces
<1>5. DiaryCounted
    BY <1>4, FS_EmptySet DEF DiaryCounted
<1>6. ViewingsApart
    BY <1>2, FreeDesk DEF ViewingsApart, Entering, TickPlaces
<1>7. ActiveTenancies = {}
    BY DEF ActiveTenancies, NotMadeYet
<1>8. OneHome /\ LeaversLeave /\ EndsAreMade
    BY <1>2, <1>7, FreeDesk DEF OneHome, LeaversLeave, EndsAreMade
<1> QED BY <1>3, <1>5, <1>6, <1>8 DEF HomeInv

LEMMA HomeInvNext == HomeInv /\ [HomeNext]_homeVars => HomeInv'
<1> SUFFICES ASSUME HomeInv, [HomeNext]_homeVars PROVE HomeInv'
    OBVIOUS
<1>1. ASSUME NEW q \in Desks, NEW p \in Walkers, NEW s \in Tickable, NEW mark \in Marks,
             NEW assigned \in BOOLEAN, Tick(q, p, s, mark, assigned)
      PROVE  HomeInv'
    BY <1>1, TickKeepsHomeInv
<1>2. ASSUME NEW q \in Desks,
             \/ ClearDiary(q) \/ EnterDiary(q) \/ WriteRow(q) \/ MarkDiary(q)
             \/ FindTenancies(q) \/ (\E i \in Tenancies : EndTenancy(q, i))
             \/ House(q) \/ Answers(q) \/ DeskFails(q)
      PROVE  HomeInv'
    BY <1>2, ClearDiaryKeepsHomeInv, EnterDiaryKeepsHomeInv, WriteRowKeepsHomeInv,
       MarkDiaryKeepsHomeInv, FindTenanciesKeepsHomeInv, EndTenancyKeepsHomeInv,
       HouseKeepsHomeInv, DeskLeavesKeepsHomeInv
<1>3. ASSUME NEW q \in Desks,
             \/ LookUpRow(q) \/ WriteDate(q) \/ LookAtRoom(q)
             \/ \E p \in Tenants, r \in Rooms : LookAtTenant(q, p, r)
      PROVE  HomeInv'
    BY <1>3, LooksKeepHomeInv
<1>4. ASSUME NEW p \in Tenants, Refer(p) \/ \E s \in Filable : FilePaper(p, s) PROVE HomeInv'
    BY <1>4, PapersKeepHomeInv
<1>6. ASSUME NEW p \in Walkers, KeepDiary(p) PROVE HomeInv'
    BY <1>6, KeepDiaryKeepsHomeInv
<1>5. CASE UNCHANGED homeVars
    <2>1. UNCHANGED <<tenancy, rows, ticked, dated, referred, filed, desk, asks, lost, after,
                      viewings, muddled>>
        BY <1>5 DEF homeVars
    <2>2. HomeShape'
        BY <2>1 DEF HomeInv, HomeShape, Desk, DeskTicking, DeskFinding, DeskEnding, DeskHousing
    <2>3. \A p \in Tenants : Diary(p)' = Diary(p)
        BY <2>1 DEF Diary
    <2>4. DiaryCounted'
        BY <2>1, <2>3 DEF HomeInv, DiaryCounted
    <2>5. ViewingsApart'
        BY <2>1 DEF HomeInv, ViewingsApart, Entering
    <2>6. OneHome' /\ LeaversLeave' /\ EndsAreMade'
        BY <2>1 DEF HomeInv, OneHome, LeaversLeave, EndsAreMade, Moving, ActiveTenancies
    <2> QED BY <2>2, <2>4, <2>5, <2>6 DEF HomeInv
<1> QED BY <1>1, <1>2, <1>3, <1>4, <1>5, <1>6 DEF HomeNext

(* Tenancies, stations and requests hold what the code may write, and a diary  *)
(* no more entries than were asked for, whatever clears, enters and marks it.  *)
THEOREM HomeTypeCorrect == HomeSpec => []HomeTypeOK
BY HomeInvTyped, HomeInvInit, HomeInvNext, PTL DEF HomeSpec

(* A tenant has one home and a room one tenant; who has moved out has left,    *)
(* but for a tenancy made since or one whose end failed; who shows the tenant  *)
(* round has one entry; and the board fills from the left: for any number of   *)
(* requests, rooms and tenants, whatever is ticked and filed, in any order.    *)
THEOREM HomesAlwaysAgree == HomeSpec => []HomesAgree
<1>1. HomeInv => HomesAgree
    BY HomeInvAgrees, BoardInOrder DEF HomesAgree
<1> QED BY <1>1, HomeInvInit, HomeInvNext, PTL DEF HomeSpec

-----------------------------------------------------------------------------
(* All of them, side by side.                                               *)
-----------------------------------------------------------------------------
PeopleInv ==
    /\ IntakeInv /\ BoardInv /\ MfaInv /\ IdInv /\ AccountInv /\ MemberInv /\ HomeInv

LEMMA PeopleInvInit == PeopleInit => PeopleInv
BY IntakeInvInit, BoardInvInit, MfaInvInit, IdInvInit, AccountInvInit, MemberInvInit, HomeInvInit
   DEF PeopleInit, PeopleInv

\* A step is one part's; the others stand still, which is a step of theirs as well.
LEMMA PeopleInvNext == PeopleInv /\ [PeopleNext]_peopleVars => PeopleInv'
<1> SUFFICES ASSUME PeopleInv, [PeopleNext]_peopleVars PROVE PeopleInv'
    OBVIOUS
<1>1. /\ [IntakeNext]_intakeVars /\ [BoardNext]_boardVars /\ [MfaNext]_mfaVars
      /\ [IdNext]_idVars /\ [AccountNext]_accountVars /\ [MemberNext]_memberVars
      /\ [HomeNext]_homeVars
    BY DEF PeopleNext, peopleVars
<1> QED BY <1>1, IntakeInvNext, BoardInvNext, MfaInvNext, IdInvNext, AccountInvNext, MemberInvNext,
           HomeInvNext DEF PeopleInv

(* Whatever people do, in any part, rows and requests hold what the code may   *)
(* write: the seven parts' types together.                                     *)
THEOREM PeopleTypeCorrect == PeopleSpec => []PeopleTypeOK
<1>1. PeopleInv => PeopleTypeOK
    BY HomeInvTyped DEF PeopleInv, PeopleTypeOK, IntakeInv, BoardInv, MfaInv, IdInv, AccountInv,
                        MemberInv
<1> QED BY <1>1, PeopleInvInit, PeopleInvNext, PTL DEF PeopleSpec

(* What the run on people explores of homes agrees, in every instance.         *)
THEOREM PeopleAlwaysHoused == PeopleSpec => []PeopleAreHoused
<1>1. PeopleInv => PeopleAreHoused
    BY HomeInvAgrees, BoardInOrder DEF PeopleInv, PeopleAreHoused, HomesAgree
<1> QED BY <1>1, PeopleInvInit, PeopleInvNext, PTL DEF PeopleSpec
=============================================================================
