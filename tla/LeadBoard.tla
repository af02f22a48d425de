----------------------------- MODULE LeadBoard ------------------------------
(***************************************************************************)
(* The board of leads: people who might become tenants. PATCH              *)
(* /api/leads/[id] reads a lead and then writes its stage by id; a tenant  *)
(* who is created, by intake or by hand, closes the lead they came from;   *)
(* and every look at the board first closes the leads whose person is a    *)
(* tenant already. A closing reads the open leads, picks one, and writes   *)
(* it by id in a transaction of its own, so all of these overlap. A lead   *)
(* may be deleted at any time; a tenant is archived and never deleted (the *)
(* column's ON DELETE SET NULL is not reached: what deletes tenants is the *)
(* wiping of a whole organisation, which switches the triggers off).       *)
(***************************************************************************)
EXTENDS Naturals, FiniteSets

CONSTANTS
    Leads,         \* rows of leads (a bound)
    People,        \* tenants who may be created (a bound)
    NobodyYet,     \* no tenant_id, no lead
    CarriedLead,   \* CarriedLead[t]: the lead t's draft carries, if any
    SameName,      \* pairs <<lead, tenant>> of one name
    SameContact,   \* pairs <<lead, tenant>> of one phone or e-mail
    Editors,       \* requests to PATCH that may overlap (a bound)
    Viewers,       \* looks at the board that may overlap (a bound)
    MaxEdits       \* how often the stage of a lead is edited (a bound)

ASSUME LeadBoardAssumption ==
    /\ NobodyYet \notin People \cup Leads
    /\ CarriedLead \in [People -> Leads \cup {NobodyYet}]
    /\ SameName \subseteq Leads \X People
    /\ SameContact \subseteq Leads \X People
    /\ MaxEdits \in Nat

VARIABLES
    lead,       \* lead[l]: stage and tenant_id
    moved,      \* tenants who exist
    archived,   \* those of them who are archived
    linker,     \* linker[t]: the link of a new tenant to a lead
    viewer,     \* viewer[g]: the open leads and the tenants a look has read
    editor,     \* editor[e]: the lead and the stage a PATCH has read
    edits,      \* edits so far
    editedLate  \* leads that an edit which is not a closing wrote after they closed

boardVars == <<lead, moved, archived, linker, viewer, editor, edits, editedLate>>

LeadStages == {"received", "viewing", "referenced", "offer", "moved_in", "lost"}
AtRest == [at |-> "rest"]
Deleted == [stage |-> "deleted", tenant |-> NobodyYet]
\* Variant of Present: a lead that was not found is taken for one.
FoundOrNot(l) == TRUE
Present(l) == lead[l] # Deleted
IsOpen(l) == lead[l].tenant = NobodyYet /\ lead[l].stage \notin {"moved_in", "lost", "deleted"}
OpenLeads == {l \in Leads : IsOpen(l)}

\* Leads whose sign-up has started: the gate nothing jumps, for a match by name.
Offers == {l \in OpenLeads : lead[l].stage = "offer"}

\* Variant of IsPerson: the contact details are the identity.
IsPersonByContact(l, t) == <<l, t>> \in SameContact
IsPerson(l, t) == <<l, t>> \in SameName

\* pick(): one that phone or e-mail confirms, or the only one of that name.
Picks(offers, t) ==
    LET byName == {l \in offers : IsPerson(l, t)}
        confirmed == {l \in byName : <<l, t>> \in SameContact}
    IN  IF confirmed # {} THEN confirmed
        ELSE IF Cardinality(byName) = 1 THEN byName ELSE {}

-----------------------------------------------------------------------------
\* What each edit does to a stage, where it writes it. A stage that the request
\* names (or that a reference, once received, stands for) is written as it is,
\* "moved_in" among them: no edit writes tenant_id.
EditedStage(action, stage) ==
    CASE action \in LeadStages -> action
      [] action = "convert" /\ stage \in {"received", "referenced", "viewing"} -> "offer"
      [] action = "book" /\ stage = "received" -> "viewing"
      [] action = "cancel" /\ stage = "viewing" -> "received"
      [] OTHER -> "as it was"

EditActions == LeadStages \cup {"convert", "book", "cancel"}

EditReads(e, l) ==
    /\ editor[e] = AtRest
    /\ Present(l)
    /\ edits < MaxEdits
    /\ edits' = edits + 1
    /\ editor' = [editor EXCEPT ![e] = [at |-> "write", lead |-> l, stage |-> lead[l].stage]]
    /\ UNCHANGED <<lead, moved, archived, linker, viewer, editedLate>>

\* By id. A lead that is gone is inserted, which its other columns refuse: 500.
EditWrites(e, action) ==
    /\ editor[e].at = "write"
    /\ LET l == editor[e].lead
           stage == EditedStage(action, editor[e].stage)
       IN  \/ /\ Present(l)
              /\ stage \in LeadStages
              /\ lead' = [lead EXCEPT ![l].stage = stage]
              /\ editedLate' = editedLate \cup {k \in {l} : lead[k].tenant # NobodyYet}
           \/ /\ ~ Present(l)
              /\ UNCHANGED <<lead, editedLate>>
    /\ editor' = [editor EXCEPT ![e] = AtRest]
    /\ UNCHANGED <<moved, archived, linker, viewer, edits>>

\* DELETE /api/leads/[id]
DeleteLead(l) ==
    /\ Present(l)
    /\ lead' = [lead EXCEPT ![l] = Deleted]
    /\ UNCHANGED <<moved, archived, linker, viewer, editor, edits, editedLate>>

-----------------------------------------------------------------------------
\* The commit of an intake, or POST /api/tenants.
TenantArrives(t) ==
    /\ t \notin moved
    /\ moved' = moved \cup {t}
    /\ linker' = [linker EXCEPT ![t] = [at |-> "read"]]
    /\ UNCHANGED <<lead, archived, viewer, editor, edits, editedLate>>

\* DELETE /api/tenants/[id]
ArchiveTenant(t) ==
    /\ t \in moved \ archived
    /\ archived' = archived \cup {t}
    /\ UNCHANGED <<lead, moved, linker, viewer, editor, edits, editedLate>>

\* The lead the draft carried, if it is still open, or the one it plainly is.
LinkReads(t) ==
    /\ linker[t].at = "read"
    /\ LET chosen == IF CarriedLead[t] \in OpenLeads THEN {CarriedLead[t]} ELSE Picks(Offers, t)
       IN  \/ \E l \in chosen : linker' = [linker EXCEPT ![t] = [at |-> "close", lead |-> l]]
           \/ chosen = {} /\ linker' = [linker EXCEPT ![t] = AtRest]
    /\ UNCHANGED <<lead, moved, archived, viewer, editor, edits, editedLate>>

\* By id: a lead that another closing was at is closed again, and one that is
\* gone makes the statement throw.
CloseLead(l, t) == lead' = [lead EXCEPT ![l] = [stage |-> "moved_in", tenant |-> t]]

LinkCloses(t) ==
    /\ linker[t].at = "close"
    /\ Present(linker[t].lead)
    /\ CloseLead(linker[t].lead, t)
    /\ linker' = [linker EXCEPT ![t] = AtRest]
    /\ UNCHANGED <<moved, archived, viewer, editor, edits, editedLate>>

\* Never throws: an error leaves the lead as it is.
LinkFails(t) ==
    /\ linker[t] # AtRest
    /\ linker' = [linker EXCEPT ![t] = AtRest]
    /\ UNCHANGED <<lead, moved, archived, viewer, editor, edits, editedLate>>

\* GET /api/leads: the open leads, of which only those at sign-up matter here. A
\* board without any is left alone.
BoardReads(g) ==
    /\ viewer[g] = AtRest
    /\ Offers # {}
    /\ viewer' = [viewer EXCEPT ![g] = [at |-> "tenants", offers |-> Offers, todo |-> {}]]
    /\ UNCHANGED <<lead, moved, archived, linker, editor, edits, editedLate>>

\* Variant of Unarchived: only the tenants whose own link is under way.
StillLinking == {t \in moved : linker[t] # AtRest}
Unarchived == moved \ archived

BoardReadsTenants(g) ==
    /\ viewer[g].at = "tenants"
    /\ viewer' = [viewer EXCEPT ![g].at = "walk", ![g].todo = Unarchived]
    /\ UNCHANGED <<lead, moved, archived, linker, editor, edits, editedLate>>

\* The next tenant: the lead that is closed leaves the list the look has read. One
\* that is gone ends the walk: the error is swallowed, and the board is shown.
BoardVisits(g, t) ==
    /\ viewer[g].at = "walk"
    /\ t \in viewer[g].todo
    /\ LET picked == Picks(viewer[g].offers, t)
       IN  \/ /\ picked = {}
              /\ viewer' = [viewer EXCEPT ![g].todo = @ \ {t}]
              /\ UNCHANGED lead
           \/ \E l \in picked :
                 \/ /\ Present(l)
                    /\ CloseLead(l, t)
                    /\ viewer' = [viewer EXCEPT ![g].todo = @ \ {t}, ![g].offers = @ \ {l}]
                 \/ /\ ~ Present(l)
                    /\ viewer' = [viewer EXCEPT ![g] = AtRest]
                    /\ UNCHANGED lead
    /\ UNCHANGED <<moved, archived, linker, editor, edits, editedLate>>

\* The walk is over.
BoardShown(g) ==
    /\ viewer[g].at = "walk"
    /\ viewer[g].todo = {}
    /\ viewer' = [viewer EXCEPT ![g] = AtRest]
    /\ UNCHANGED <<lead, moved, archived, linker, editor, edits, editedLate>>

-----------------------------------------------------------------------------
BoardInit ==
    /\ lead = [l \in Leads |-> [stage |-> "received", tenant |-> NobodyYet]]
    /\ moved = {} /\ archived = {}
    /\ linker = [t \in People |-> AtRest]
    /\ viewer = [g \in Viewers |-> AtRest]
    /\ editor = [e \in Editors |-> AtRest]
    /\ edits = 0 /\ editedLate = {}

Look(g) ==
    BoardReads(g) \/ BoardReadsTenants(g) \/ BoardShown(g) \/ \E t \in People : BoardVisits(g, t)

BoardNext ==
    \/ \E e \in Editors :
          \/ \E l \in Leads : EditReads(e, l)
          \/ \E action \in EditActions : EditWrites(e, action)
    \/ \E l \in Leads : DeleteLead(l)
    \/ \E t \in People :
          TenantArrives(t) \/ ArchiveTenant(t) \/ LinkReads(t) \/ LinkCloses(t) \/ LinkFails(t)
    \/ \E g \in Viewers : Look(g)

BoardSpec == BoardInit /\ [][BoardNext]_boardVars
\* The board is looked at again and again, and a look that has begun goes on.
BoardFairness == \A g \in Viewers : WF_boardVars(Look(g))

-----------------------------------------------------------------------------
(* Rows and requests hold what the code may write. *)
BoardTypeOK ==
    /\ lead \in [Leads -> {Deleted} \cup [stage: LeadStages, tenant: moved \cup {NobodyYet}]]
    /\ moved \subseteq People /\ archived \subseteq moved
    /\ linker \in [People -> {AtRest, [at |-> "read"]} \cup [at: {"close"}, lead: Leads]]
    /\ viewer \in [Viewers -> {AtRest}
          \cup [at: {"tenants", "walk"}, offers: SUBSET Leads, todo: SUBSET moved]]
    /\ editor \in [Editors -> {AtRest}
          \cup [at: {"write"}, lead: Leads, stage: LeadStages]]
    /\ edits \in 0..MaxEdits
    /\ editedLate \subseteq Leads

(* A lead that points at a tenant points at the one it became: the draft of    *)
(* that tenant carried it, or they have one name (and not only one phone,      *)
(* which once married three leads to one tenant). It stays closed unless an    *)
(* edit that read it before, or one that looks at no stage, wrote its stage    *)
(* afterwards.                                                                 *)
LeadsNameTheirTenant ==
    \A l \in Leads :
        lead[l].tenant # NobodyYet =>
             /\ CarriedLead[lead[l].tenant] = l \/ <<l, lead[l].tenant>> \in SameName
             /\ lead[l].stage = "moved_in" \/ l \in editedLate

(* "Heals the board": a lead at sign-up whose person is an unarchived tenant   *)
(* is closed in the end, although the link of a new tenant may fail, leads may *)
(* be deleted under a look, and looks, links and edits overlap, unless two     *)
(* such leads of one name cannot be told apart.                                *)
BoardHeals == <>[](\A t \in moved \ archived : Picks(Offers, t) = {})
=============================================================================
