------------------------------- MODULE Intake -------------------------------
(***************************************************************************)
(* One intake draft, from the first page to the tenant record. Its pages   *)
(* load the draft, keep a copy, and save the whole copy back through PATCH *)
(* /api/drafts/[id], which merges it into the row it has just read; the    *)
(* commit checks the row it has read and then writes tenant, checklist,    *)
(* tenancy and draft one after the other, each a transaction of its own.   *)
(* Pages and commits overlap: tabs, reloads, a second device. The reading  *)
(* of a form writes the draft without asking for its owner or its step. A  *)
(* version is a set of answers; a signature is known by the version it was *)
(* given for, and a hash by the version it hashes.                         *)
(***************************************************************************)
EXTENDS Naturals, FiniteSets

CONSTANTS
    Versions,      \* sets of answers (a bound)
    NoVersion,     \* no signature, no hash
    Pages,         \* tabs that show the draft (a bound)
    Commits,       \* requests to POST /api/intake/commit (a bound)
    MaxSaves,      \* how often the draft is saved (a bound)
    MaxCommitFaults \* how often a commit ends half way (a bound)

ASSUME IntakeAssumption ==
    /\ NoVersion \notin Versions
    /\ MaxSaves \in Nat /\ MaxCommitFaults \in Nat

VARIABLES
    draft,     \* the row: step, canonical_hash, machine_state
    page,      \* what each tab holds, and what its PATCH is about to write
    commit,    \* what each commit has read, and what comes next
    tenants,   \* tenants[c]: the tenant record commit c created
    room,      \* who holds the active tenancy of the draft's room
    saves, commitFaults, \* saves and faults so far
    excuses    \* what may lead to a second tenant, or to an old signature

intakeVars == <<draft, page, commit, tenants, room, saves, commitFaults, excuses>>

TenantExcuses == {"reopened", "overlapped", "left_open"}
SignatureExcuses == {"reviewed_after_signing", "signed_late", "signature_put_back"}
Kinds == {"extract", "review", "verify"}  \* the voice page saves as extract does
StepOf == [extract |-> 2, review |-> 3, verify |-> 4]

State == [extracted: Versions, signed: Versions \cup {NoVersion}]
Closed == [at |-> "closed"]
Nobody == "nobody"
Somebody == "somebody"   \* a tenant who did not come from this draft
NotMade == [made |-> FALSE]
Waiting == [at |-> "waiting"]
Made(c) == tenants[c] # NotMade
UnderWay(c) == commit[c].at \in {"tenant", "checklist", "room", "draft"}
CommitFault == commitFaults < MaxCommitFaults /\ commitFaults' = commitFaults + 1

-----------------------------------------------------------------------------
OpenPage(p, kind) ==
    /\ page[p] = Closed
    /\ saves < MaxSaves
    /\ page' = [page EXCEPT ![p] = [at |-> "open", kind |-> kind,
                                    copy |-> draft.state, hash |-> draft.hash]]
    /\ UNCHANGED <<draft, commit, tenants, room, saves, commitFaults, excuses>>

\* What the page sends: the answers and whatever else its copy carries, or, from
\* the verify page, the copy with a signature.
Body(p, answers) ==
    IF page[p].kind = "verify"
    THEN [extracted |-> page[p].copy.extracted, signed |-> page[p].copy.extracted]
    ELSE [extracted |-> answers, signed |-> page[p].copy.signed]

\* PATCH merges the keys of the body over the row it has read: a page whose copy
\* has no signature keeps the row's.
Merged(body) ==
    [body EXCEPT !.signed = IF body.signed = NoVersion THEN draft.state.signed ELSE body.signed]

\* The verify page refuses to sign a copy that does not have its own hash.
Submit(p, answers) ==
    /\ page[p].at = "open"
    /\ IF page[p].kind = "verify"
       THEN answers = page[p].copy.extracted /\ answers = page[p].hash
       ELSE answers \in Versions
    /\ page' = [page EXCEPT ![p] = [at |-> "saving", kind |-> page[p].kind,
                                    put |-> Merged(Body(p, answers))]]
    /\ UNCHANGED <<draft, commit, tenants, room, saves, commitFaults, excuses>>

\* The row, by id, whatever its step: only the review page sends a hash.
Save(p) ==
    /\ page[p].at = "saving"
    /\ saves < MaxSaves
    /\ LET put == page[p].put
           kind == page[p].kind
       IN  /\ draft' = [step |-> StepOf[kind], state |-> put,
                        hash |-> IF kind = "review" THEN put.extracted ELSE draft.hash]
           /\ excuses' = excuses
                \cup {x \in {"reopened"} : draft.step = 5}
                \cup {x \in {"reviewed_again"} :
                        /\ kind = "review" /\ put.extracted # draft.hash
                        /\ \E c \in Commits : UnderWay(c) \/ Made(c)}
                \cup {x \in {"reviewed_after_signing"} :
                        kind = "review" /\ put.signed \notin {NoVersion, put.extracted}}
                \cup {x \in {"signed_late"} : kind = "verify" /\ put.signed # draft.hash}
                \cup {x \in {"signature_put_back"} :
                        kind = "extract" /\ put.signed \notin {NoVersion, draft.state.signed}}
    /\ saves' = saves + 1
    /\ page' = [page EXCEPT ![p] = Closed]
    /\ UNCHANGED <<commit, tenants, room, commitFaults>>

\* POST /api/intake/ocr puts what it read from a form in place of the whole
\* machine_state: the signature is gone, and so are the lead and the room. The
\* step and the hash stay.
ReadForm(answers) ==
    /\ saves < MaxSaves
    /\ saves' = saves + 1
    /\ draft' = [draft EXCEPT !.state = [extracted |-> answers, signed |-> NoVersion]]
    /\ UNCHANGED <<page, commit, tenants, room, commitFaults, excuses>>

-----------------------------------------------------------------------------
\* Variants of the three checks: step, signature and hash are not looked at.
NeverCompleted == FALSE
SignedOrNot == TRUE
AnyHash == TRUE
AlreadyCompleted == draft.step = 5
Signed == draft.state.signed # NoVersion
HashStands == draft.state.extracted = draft.hash

\* The row, read once, and the checks on it.
CommitReads(c) ==
    /\ commit[c] = Waiting
    /\ ~ AlreadyCompleted
    /\ Signed
    /\ HashStands
    /\ commit' = [commit EXCEPT ![c] = [at |-> "tenant", read |-> draft.state]]
    /\ excuses' = excuses \cup {x \in {"overlapped"} : \E d \in Commits : UnderWay(d)}
    /\ UNCHANGED <<draft, page, tenants, room, saves, commitFaults>>

\* tenant_signature_hash is unique: a tenant with these answers exists. (The
\* variant is a table without the constraint.)
NeverTaken(c) == FALSE
HashTaken(c) == \E d \in Commits : Made(d) /\ tenants[d].answers = commit[c].read.extracted

CreateTenant(c) ==
    /\ commit[c].at = "tenant"
    /\ ~ HashTaken(c)
    /\ tenants' = [tenants EXCEPT ![c] = [made |-> TRUE, answers |-> commit[c].read.extracted,
                                          signed |-> commit[c].read.signed]]
    /\ commit' = [commit EXCEPT ![c].at = "checklist"]
    /\ UNCHANGED <<draft, page, room, saves, commitFaults, excuses>>

\* The insert throws: 500, and nothing is written.
CreateRefused(c) ==
    /\ commit[c].at = "tenant"
    /\ HashTaken(c)
    /\ commit' = [commit EXCEPT ![c] = [at |-> "failed"]]
    /\ UNCHANGED <<draft, page, tenants, room, saves, commitFaults, excuses>>

CreateChecklist(c) ==
    /\ commit[c].at = "checklist"
    /\ commit' = [commit EXCEPT ![c].at = "room"]
    /\ UNCHANGED <<draft, page, tenants, room, saves, commitFaults, excuses>>

\* The tenancy in the draft's room. The partial unique index refuses it when the
\* room is taken: 409, and the draft stays open. Any other error is swallowed,
\* and a room that the draft does not name and its address does not tell is
\* passed over.
LinkRoom(c) ==
    /\ commit[c].at = "room"
    /\ \/ /\ room = Nobody
          /\ room' = c
          /\ commit' = [commit EXCEPT ![c].at = "draft"]
          /\ UNCHANGED excuses
       \/ /\ room # Nobody
          /\ commit' = [commit EXCEPT ![c] = [at |-> "refused"]]
          /\ excuses' = excuses \cup {"left_open"}
          /\ UNCHANGED room
       \/ /\ commit' = [commit EXCEPT ![c].at = "draft"]
          /\ UNCHANGED <<room, excuses>>
    /\ UNCHANGED <<draft, page, tenants, saves, commitFaults>>

\* Only the step: what a page has saved meanwhile stays.
CompleteDraft(c) ==
    /\ commit[c].at = "draft"
    /\ draft' = [draft EXCEPT !.step = 5]
    /\ commit' = [commit EXCEPT ![c] = [at |-> "done"]]
    /\ UNCHANGED <<page, tenants, room, saves, commitFaults, excuses>>

\* A statement throws, or the process is gone: what was written stays.
CommitEnds(c) ==
    /\ UnderWay(c)
    /\ CommitFault
    /\ commit' = [commit EXCEPT ![c] = [at |-> "failed"]]
    /\ excuses' = excuses \cup {x \in {"left_open"} : Made(c)}
    /\ UNCHANGED <<draft, page, tenants, room, saves>>

\* POST /api/tenancies: somebody else is given the room.
RoomTaken ==
    /\ room = Nobody
    /\ room' = Somebody
    /\ UNCHANGED <<draft, page, commit, tenants, saves, commitFaults, excuses>>

-----------------------------------------------------------------------------
IntakeInit ==
    /\ draft \in {[step |-> 1, hash |-> NoVersion,
                   state |-> [extracted |-> v, signed |-> NoVersion]] : v \in Versions}
    /\ page = [p \in Pages |-> Closed]
    /\ commit = [c \in Commits |-> Waiting]
    /\ tenants = [c \in Commits |-> NotMade]
    /\ room = Nobody
    /\ saves = 0 /\ commitFaults = 0 /\ excuses = {}

CommitStep(c) ==
    \/ CommitReads(c) \/ CreateTenant(c) \/ CreateRefused(c) \/ CreateChecklist(c)
    \/ LinkRoom(c) \/ CompleteDraft(c) \/ CommitEnds(c)

IntakeNext ==
    \/ \E p \in Pages :
          \/ \E kind \in Kinds : OpenPage(p, kind)
          \/ \E v \in Versions : Submit(p, v)
          \/ Save(p)
    \/ \E v \in Versions : ReadForm(v)
    \/ \E c \in Commits : CommitStep(c)
    \/ RoomTaken

IntakeSpec == IntakeInit /\ [][IntakeNext]_intakeVars

-----------------------------------------------------------------------------
(* Rows, tabs and requests hold what the code may write, and the room is held *)
(* by a tenant who exists.                                                    *)
IntakeTypeOK ==
    /\ draft \in [step: 1..5, hash: Versions \cup {NoVersion}, state: State]
    /\ page \in [Pages -> {Closed}
          \cup [at: {"open"}, kind: Kinds, copy: State, hash: Versions \cup {NoVersion}]
          \cup [at: {"saving"}, kind: Kinds, put: State]]
    /\ commit \in [Commits -> [at: {"waiting", "refused", "done", "failed"}]
          \cup [at: {"tenant", "checklist", "room", "draft"}, read: State]]
    /\ tenants \in [Commits -> {NotMade}
          \cup [made: {TRUE}, answers: Versions, signed: Versions]]
    /\ room \in {Nobody, Somebody} \cup {c \in Commits : Made(c)}
    /\ saves \in 0..MaxSaves /\ commitFaults \in 0..MaxCommitFaults
    /\ excuses \subseteq TenantExcuses \cup {"reviewed_again"} \cup SignatureExcuses

(* A draft becomes one tenant, however often its last page is loaded, two      *)
(* commits overlap, or a commit fails or is refused the room after its tenant  *)
(* was created (which leaves the draft open): the same answers are not taken   *)
(* twice. A second tenant takes both such a second commit (or a page that      *)
(* saved the completed draft again), and a review of other answers since a     *)
(* commit read the draft.                                                      *)
OneTenantPerIntake ==
    \/ Cardinality({c \in Commits : Made(c)}) <= 1
    \/ "reviewed_again" \in excuses /\ excuses \cap TenantExcuses # {}

(* A tenant record holds the answers its signature was given for (H4): pages   *)
(* that save answers over other ones, with an old copy or half of a newer row, *)
(* do not get past the hash. What does is named: the review page itself saved  *)
(* other answers under a signature; a signature came after another review; or  *)
(* a page put a signature back that the row no longer had.                     *)
CommittedAsSigned ==
    \A c \in Commits :
        Made(c) => \/ tenants[c].answers = tenants[c].signed
                   \/ excuses \cap SignatureExcuses # {}
=============================================================================
