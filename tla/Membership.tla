----------------------------- MODULE Membership -----------------------------
(***************************************************************************)
(* The people of one organisation: its admins change roles and remove      *)
(* people, take on a newcomer who asked for access or whom they invite,    *)
(* and the owner of the platform may remove anyone. Every handler reads    *)
(* what it decides on and writes afterwards; requests overlap and an       *)
(* approval may end half way.                                              *)
(***************************************************************************)
EXTENDS Naturals, FiniteSets

CONSTANTS
    Admins, Managers,   \* who is there at the start
    Newcomer,           \* someone without an account
    Asks,               \* rows of access_requests, all of the newcomer (a bound)
    Handlers,           \* requests at work at once (a bound)
    MaxHandled,         \* requests handled in all (a bound)
    NoOne

ASSUME MembershipAssumption ==
    /\ IsFiniteSet(Admins) /\ Admins # {}
    /\ Newcomer \notin Admins \cup Managers
    /\ Admins \cap Managers = {}
    /\ MaxHandled \in Nat
    /\ NoOne \notin Asks \cup Admins \cup Managers \cup {Newcomer}

VARIABLES
    role,       \* role[p] in the organisation; "none" before, "gone" after
    ask,        \* ask[k]: the status of a request for access
    asking,     \* rows that POST /api/auth/register is about to insert
    handler,    \* handler[h]: what a request is at and what it has read
    handled,    \* requests so far
    createdFor, \* requests for access an account was created for
    orphaned,   \* why the organisation has no admin, or is not there any more
    halfway,    \* requests whose approval ended after the account was created
    declinedMeanwhile \* requests declined while an approval was at work

memberVars ==
    <<role, ask, asking, handler, handled, createdFor, orphaned, halfway, declinedMeanwhile>>

Persons == Admins \cup Managers \cup {Newcomer}
Roles == {"admin", "manager", "other"}   \* other: support worker, contractor, tenant
Members == {p \in Persons : role[p] \in Roles}
AdminsNow == {p \in Persons : role[p] = "admin"}
Resting == [at |-> "rest"]
Starts(h, what) ==
    /\ handler[h] = Resting
    /\ handled < MaxHandled
    /\ handled' = handled + 1
    /\ handler' = [handler EXCEPT ![h] = what]
Rests(h) == handler' = [handler EXCEPT ![h] = Resting]

\* The admins, or the managers while there is no admin.
CanManageUsers(p) ==
    role[p] = "admin" \/ (role[p] = "manager" /\ AdminsNow = {})

-----------------------------------------------------------------------------
\* Variant of NotTheLast: everyone is counted, whatever their role.
NotAlone(target, new) == role[target] = "admin" /\ new # "admin" => Members # {target}
NotTheLast(target, new) ==
    role[target] = "admin" /\ new # "admin" => Cardinality(AdminsNow) > 1

\* PATCH or DELETE /api/profiles/[id] first looks at who asks.
Authorise(h, actor) ==
    /\ actor \in Members /\ CanManageUsers(actor)
    /\ Starts(h, [at |-> "authorised", actor |-> actor])
    /\ UNCHANGED <<role, ask, asking, createdFor, orphaned, halfway, declinedMeanwhile>>

\* Then at the person, and at how many admins there are.
CheckChange(h, target, new) ==
    /\ handler[h].at = "authorised"
    /\ target \in Members
    /\ target = handler[h].actor => new = "admin"
    /\ NotTheLast(target, new)
    /\ handler' = [handler EXCEPT ![h] =
          [at |-> "change", target |-> target, new |-> new, late |-> FALSE]]
    /\ UNCHANGED <<handled, role, ask, asking, createdFor, orphaned, halfway, declinedMeanwhile>>

\* Other changes that have counted the admins before this write of a role.
Late(h) ==
    [g \in Handlers |->
        IF g # h /\ handler[g].at = "change" THEN [handler[g] EXCEPT !.late = TRUE] ELSE handler[g]]

\* By id. A person who is gone by now is not written: the insert the audited write
\* falls back to lacks a name and throws.
WriteChange(h) ==
    /\ handler[h].at = "change"
    /\ LET c == handler[h]
           next == IF c.target \in Members THEN [role EXCEPT ![c.target] = c.new] ELSE role
       IN  /\ role' = next
           /\ orphaned' = IF \E p \in Persons : next[p] = "admin" THEN "no"
                          ELSE IF AdminsNow = {} THEN orphaned
                          ELSE IF c.late THEN "overlap" ELSE "guarded"
    /\ handler' = [Late(h) EXCEPT ![h] = Resting]
    /\ UNCHANGED <<handled, ask, asking, createdFor, halfway, declinedMeanwhile>>

\* DELETE /api/platform/profiles/[id] counts the other people, and not the admins.
CheckRemoval(h, target) ==
    /\ target \in Members
    /\ Starts(h, [at |-> "remove", target |-> target, all |-> Members = {target}])
    /\ UNCHANGED <<role, ask, asking, createdFor, orphaned, halfway, declinedMeanwhile>>

\* With nobody else the whole organisation goes, and whoever has joined since.
WriteRemoval(h) ==
    /\ handler[h].at = "remove"
    /\ LET gone == IF handler[h].all THEN Members ELSE Members \cap {handler[h].target}
       IN  /\ role' = [p \in Persons |-> IF p \in gone THEN "gone" ELSE role[p]]
           /\ orphaned' = IF handler[h].all THEN "dropped"
                          ELSE IF AdminsNow # {} /\ AdminsNow \subseteq gone THEN "owner"
                          ELSE orphaned
    /\ handler' = [Late(h) EXCEPT ![h] = Resting]
    /\ UNCHANGED <<handled, ask, asking, createdFor, halfway, declinedMeanwhile>>

-----------------------------------------------------------------------------
\* POST /api/auth/register: not for a member, nor while a request is pending, nor
\* to an organisation where nobody could approve.
AskReads(k) ==
    /\ ask[k] = "none" /\ k \notin asking
    /\ Newcomer \notin Members
    /\ \E p \in Persons : role[p] \in {"admin", "manager"}
    /\ \A j \in Asks : ask[j] # "pending"
    /\ asking' = asking \cup {k}
    /\ UNCHANGED <<handled, role, ask, handler, createdFor, orphaned, halfway, declinedMeanwhile>>

AskInserts(k) ==
    /\ k \in asking
    /\ asking' = asking \ {k}
    /\ ask' = [ask EXCEPT ![k] = "pending"]
    /\ UNCHANGED <<handled, role, handler, createdFor, orphaned, halfway, declinedMeanwhile>>

\* POST /api/access-requests, or POST /api/auth/invite with no request (NoOne).
CheckRequest(h, actor, k, verdict) ==
    /\ actor \in Members /\ CanManageUsers(actor)
    /\ IF k = NoOne THEN verdict = "approved" ELSE ask[k] = "pending"
    /\ Starts(h, [at |-> IF verdict = "approved" THEN "look" ELSE "decide",
                  ask |-> k, verdict |-> verdict])
    /\ UNCHANGED <<role, ask, asking, createdFor, orphaned, halfway, declinedMeanwhile>>

\* issueInvite: throws when the address has an account.
LookForAccount(h) ==
    /\ handler[h].at = "look"
    /\ IF Newcomer \notin Members THEN handler' = [handler EXCEPT ![h].at = "create"] ELSE Rests(h)
    /\ UNCHANGED <<handled, role, ask, asking, createdFor, orphaned, halfway, declinedMeanwhile>>

\* One account per address: the unique index refuses a second, and the foreign key
\* an organisation that was dropped.
CreateAccount(h, as) ==
    /\ handler[h].at = "create"
    /\ handler[h].ask # NoOne => as # "admin"
    /\ IF Newcomer \notin Members /\ orphaned # "dropped"
       THEN /\ role' = [role EXCEPT ![Newcomer] = as]
            /\ createdFor' = createdFor \cup ({handler[h].ask} \cap Asks)
            /\ orphaned' = IF as = "admin" THEN "no" ELSE orphaned
            /\ handler' = [handler EXCEPT ![h] =
                  [at |-> "record", ask |-> handler[h].ask, as |-> as, verdict |-> "approved"]]
       ELSE Rests(h) /\ UNCHANGED <<role, createdFor, orphaned>>
    /\ UNCHANGED <<handled, ask, asking, halfway, declinedMeanwhile>>

\* The audit row of the new account writes its role again; a failure is swallowed.
RecordAccount(h) ==
    /\ handler[h].at = "record"
    /\ LET vaulting == [at |-> "vault", ask |-> handler[h].ask, verdict |-> "approved"]
       IN  \/ /\ Newcomer \in Members
              /\ role' = [role EXCEPT ![Newcomer] = handler[h].as]
              /\ orphaned' = IF handler[h].as = "admin" THEN "no"
                             ELSE IF AdminsNow = {Newcomer} THEN "overlap" ELSE orphaned
              /\ handler' = [Late(h) EXCEPT ![h] = vaulting]
           \/ /\ handler' = [handler EXCEPT ![h] = vaulting]
              /\ UNCHANGED <<role, orphaned>>
    /\ UNCHANGED <<handled, ask, asking, createdFor, halfway, declinedMeanwhile>>

\* The vault's copy and the e-mail, which is never waited for.
VaultAndSend(h) ==
    /\ handler[h].at = "vault"
    /\ IF handler[h].ask = NoOne THEN Rests(h) ELSE handler' = [handler EXCEPT ![h].at = "decide"]
    /\ UNCHANGED <<handled, role, ask, asking, createdFor, orphaned, halfway, declinedMeanwhile>>

\* Variant of MayDecide: written by id alone.
AnyStatus(k) == TRUE
MayDecide(k) == ask[k] = "pending"

\* decideAccessRequest: only a request that is still pending.
Decide(h) ==
    /\ handler[h].at = "decide"
    /\ LET k == handler[h].ask
           atWork == \E g \in Handlers \ {h} :
               handler[g].at \in {"look", "create", "record", "vault", "decide"} /\ handler[g].ask = k
       IN  /\ ask' = IF MayDecide(k) THEN [ask EXCEPT ![k] = handler[h].verdict] ELSE ask
           /\ declinedMeanwhile' = IF handler[h].verdict = "declined" /\ MayDecide(k) /\ atWork
                                   THEN declinedMeanwhile \cup {k} ELSE declinedMeanwhile
    /\ Rests(h)
    /\ UNCHANGED <<handled, role, asking, createdFor, orphaned, halfway>>

\* A statement throws: what is written stays.
HandlerThrows(h) ==
    /\ handler[h] # Resting
    /\ Rests(h)
    /\ halfway' = IF handler[h].at \in {"record", "vault"} \/ (handler[h].at = "decide" /\ handler[h].verdict = "approved")
                  THEN halfway \cup ({handler[h].ask} \cap Asks) ELSE halfway
    /\ UNCHANGED <<handled, role, ask, asking, createdFor, orphaned, declinedMeanwhile>>

-----------------------------------------------------------------------------
MemberInit ==
    /\ role = [p \in Persons |-> IF p \in Admins THEN "admin"
                                 ELSE IF p \in Managers THEN "manager" ELSE "none"]
    /\ ask = [k \in Asks |-> "none"] /\ asking = {}
    /\ handler = [h \in Handlers |-> Resting] /\ handled = 0
    /\ createdFor = {}
    /\ orphaned = "no" /\ halfway = {} /\ declinedMeanwhile = {}

MemberNext ==
    \/ \E k \in Asks : AskReads(k) \/ AskInserts(k)
    \/ \E h \in Handlers :
          \/ \E actor \in Persons : Authorise(h, actor)
          \/ \E target \in Persons, new \in Roles \cup {"gone"} : CheckChange(h, target, new)
          \/ WriteChange(h)
          \/ \E target \in Persons : CheckRemoval(h, target)
          \/ WriteRemoval(h)
          \/ \E actor \in Persons, k \in Asks \cup {NoOne}, v \in {"approved", "declined"} :
                CheckRequest(h, actor, k, v)
          \/ LookForAccount(h) \/ \E as \in Roles : CreateAccount(h, as)
          \/ RecordAccount(h) \/ VaultAndSend(h) \/ Decide(h) \/ HandlerThrows(h)

MemberSpec == MemberInit /\ [][MemberNext]_memberVars

-----------------------------------------------------------------------------
(* People, requests and handlers hold what the code may write. *)
MemberTypeOK ==
    /\ role \in [Persons -> Roles \cup {"none", "gone"}]
    /\ ask \in [Asks -> {"none", "pending", "approved", "declined"}]
    /\ asking \subseteq Asks
    /\ handler \in [Handlers -> {Resting}
          \cup [at: {"authorised"}, actor: Persons]
          \cup [at: {"change"}, target: Persons, new: Roles \cup {"gone"}, late: BOOLEAN]
          \cup [at: {"remove"}, target: Persons, all: BOOLEAN]
          \cup [at: {"look", "create", "vault", "decide"}, ask: Asks \cup {NoOne},
                verdict: {"approved", "declined"}]
          \cup [at: {"record"}, ask: Asks \cup {NoOne}, as: Roles, verdict: {"approved"}]]
    /\ handled \in 0..MaxHandled
    /\ createdFor \subseteq Asks
    /\ orphaned \in {"no", "overlap", "guarded", "owner", "dropped"}
    /\ halfway \subseteq Asks /\ declinedMeanwhile \subseteq Asks

(* "Never the last admin": an organisation is without an admin only because  *)
(* two changes that had both counted the admins were written one after the   *)
(* other, the audit row of an account put back the role it was created with, *)
(* or the owner of the platform removed the last one or everyone. A request  *)
(* for access is approved only after an account was created for it; and an   *)
(* account was created for one that is not approved only if the approval     *)
(* ended half way or someone declined it meanwhile, whatever else is         *)
(* decided, invited, removed or written in between.                          *)
PeopleAreManaged ==
    /\ AdminsNow = {} => orphaned \in {"overlap", "owner", "dropped"}
    /\ \A k \in Asks :
          /\ ask[k] = "approved" => k \in createdFor
          /\ k \in createdFor /\ ask[k] # "approved" =>
                \/ k \in halfway \cup declinedMeanwhile
                \/ \E h \in Handlers : handler[h].at \in {"record", "vault", "decide"} /\ handler[h].ask = k
=============================================================================
