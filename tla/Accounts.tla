------------------------------ MODULE Accounts ------------------------------
(***************************************************************************)
(* The password of one account, the sessions it has opened, and the copy   *)
(* of it in the vault. A sign-in reads the hash, checks the password, may  *)
(* store it again in the newer form, and opens a session. An issued        *)
(* password, a reset link and a reset by the platform's owner each write   *)
(* the hash, end the sessions, and (the first only) supersede and store    *)
(* the vault's copy. Every step is a statement of its own; requests        *)
(* overlap and may end between any two of them.                            *)
(* A password is named by the request that chose it.                       *)
(***************************************************************************)
EXTENDS Sequences

CONSTANTS
    Calls,   \* requests about the account (a bound)
    Links,   \* reset links that may be open at once (a bound)
    First    \* the password the account starts with

ASSUME AccountsAssumption == First \notin Calls

VARIABLES
    profile,     \* password_hash (of which password, in the older form or not), role
    sessions,    \* user_sessions: the sign-in that opened each and what it had checked
    vault,       \* issued_credentials that are not superseded, oldest first
    links,       \* password_resets that are neither consumed nor expired
    call,        \* call[c]: the step a request is at
    crossed,     \* sign-ins that had checked a password before another was written
    sessionsOff, \* a change ended before it had ended the sessions, or was undone
    vaultOff     \* the last password was not issued, not by one request alone, or not vaulted

accountVars == <<profile, sessions, vault, links, call, crossed, sessionsOff, vaultOff>>

Passwords == Calls \cup {First}
New == [at |-> "new"]
Over == [at |-> "over"]
Sits(c, places) == call[c].at \in places
SigningIn == {c \in Calls : Sits(c, {"rehash", "session"})}
Issuing == {c \in Calls :
    Sits(c, {"sign_out", "supersede", "store"}) /\ call[c].kind = "issue"}
Finishes(c) == call' = [call EXCEPT ![c] = Over]

-----------------------------------------------------------------------------
\* POST /api/auth/login with the password of the account, or Google's callback.
CheckPassword(c) ==
    /\ Sits(c, {"new"})
    /\ \E place \in {"session"} \cup (IF profile.legacy THEN {"rehash"} ELSE {}) :
          call' = [call EXCEPT ![c] = [at |-> place, knew |-> profile.password]]
    /\ UNCHANGED <<profile, sessions, vault, links, crossed, sessionsOff, vaultOff>>

\* A hash in the older form is written again, whatever the row holds by now.
Rehash(c) ==
    /\ Sits(c, {"rehash"})
    /\ profile' = [profile EXCEPT !.password = call[c].knew, !.legacy = FALSE]
    /\ call' = [call EXCEPT ![c].at = "session"]
    /\ IF call[c].knew = profile.password
       THEN UNCHANGED <<crossed, sessionsOff, vaultOff>>
       ELSE /\ crossed' = crossed \cup (SigningIn \ {c})
            /\ sessionsOff' = TRUE /\ vaultOff' = TRUE
    /\ UNCHANGED <<sessions, vault, links>>

OpenSession(c) ==
    /\ Sits(c, {"session"})
    /\ sessions' = sessions \cup {[by |-> c, knew |-> call[c].knew]}
    /\ Finishes(c)
    /\ UNCHANGED <<profile, vault, links, crossed, sessionsOff, vaultOff>>

SignOut(s) ==
    /\ sessions' = sessions \ {s}
    /\ UNCHANGED <<profile, vault, links, call, crossed, sessionsOff, vaultOff>>

-----------------------------------------------------------------------------
\* An admin asks for a link: staff are told to ask their admin.
RequestLink(l) ==
    /\ profile.role = "admin"
    /\ links' = links \cup {l}
    /\ UNCHANGED <<profile, sessions, vault, call, crossed, sessionsOff, vaultOff>>

\* One statement claims a link; the hour may pass instead.
ClaimLink(c, l) ==
    /\ Sits(c, {"new"})
    /\ l \in links
    /\ links' = links \ {l}
    /\ call' = [call EXCEPT ![c] = [at |-> "set", kind |-> "link"]]
    /\ UNCHANGED <<profile, sessions, vault, crossed, sessionsOff, vaultOff>>

LinkExpires(l) ==
    /\ l \in links
    /\ links' = links \ {l}
    /\ UNCHANGED <<profile, sessions, vault, call, crossed, sessionsOff, vaultOff>>

\* The organisation's admin issues a password, not to an admin; the owner of the
\* platform, to anyone.
StartIssue(c) ==
    /\ Sits(c, {"new"})
    /\ \/ profile.role # "admin" /\ call' = [call EXCEPT ![c] = [at |-> "set", kind |-> "issue"]]
       \/ call' = [call EXCEPT ![c] = [at |-> "set", kind |-> "platform"]]
    /\ UNCHANGED <<profile, sessions, vault, links, crossed, sessionsOff, vaultOff>>

\* setPasswordHash: the first step of each of the three.
SetPassword(c) ==
    /\ Sits(c, {"set"})
    /\ profile' = [profile EXCEPT !.password = c, !.legacy = FALSE]
    /\ crossed' = crossed \cup SigningIn
    /\ vaultOff' = (call[c].kind # "issue" \/ Issuing # {})
    /\ call' = [call EXCEPT ![c].at = "sign_out"]
    /\ UNCHANGED <<sessions, vault, links, sessionsOff>>

\* deleteAllSessionsForProfile. Only an issued password goes to the vault.
EndSessions(c) ==
    /\ Sits(c, {"sign_out"})
    /\ sessions' = {}
    /\ sessionsOff' = FALSE
    /\ IF call[c].kind = "issue" THEN call' = [call EXCEPT ![c].at = "supersede"] ELSE Finishes(c)
    /\ UNCHANGED <<profile, vault, links, crossed, vaultOff>>

\* Variant of Superseded: the rows of before stay active.
NotSuperseded == vault
Superseded == <<>>

Supersede(c) ==
    /\ Sits(c, {"supersede"})
    /\ vault' = Superseded
    /\ call' = [call EXCEPT ![c].at = "store"]
    /\ UNCHANGED <<profile, sessions, links, crossed, sessionsOff, vaultOff>>

\* An instance without the vault's key writes nothing, and supersedes nothing either.
VaultNotOpen(c) ==
    /\ Sits(c, {"supersede"})
    /\ Finishes(c)
    /\ vaultOff' = TRUE
    /\ UNCHANGED <<profile, sessions, vault, links, crossed, sessionsOff>>

Store(c) ==
    /\ Sits(c, {"store"})
    /\ vault' = Append(vault, c)
    /\ Finishes(c)
    /\ UNCHANGED <<profile, sessions, links, crossed, sessionsOff, vaultOff>>

\* A statement throws or the process ends: what is written stays.
CallEnds(c) ==
    /\ ~Sits(c, {"new", "over"})
    /\ Finishes(c)
    /\ sessionsOff' = (sessionsOff \/ Sits(c, {"sign_out"}))
    /\ vaultOff' = (vaultOff \/ c \in Issuing)
    /\ UNCHANGED <<profile, sessions, vault, links, crossed>>

\* PATCH /api/profiles/[id].
ChangeRole ==
    /\ \E role \in {"admin", "staff"} \ {profile.role} : profile' = [profile EXCEPT !.role = role]
    /\ UNCHANGED <<sessions, vault, links, call, crossed, sessionsOff, vaultOff>>

\* The vault's copy, as GET /api/profiles/[id]/password shows it: not an admin's.
Revealed ==
    IF profile.role = "admin" \/ vault = <<>> THEN <<>> ELSE <<vault[Len(vault)]>>

-----------------------------------------------------------------------------
\* An account that was issued here, or one brought over with its older hash.
AccountInit ==
    /\ profile \in [password: {First}, legacy: BOOLEAN, role: {"admin", "staff"}]
    /\ vault = IF profile.legacy THEN <<>> ELSE <<First>>
    /\ vaultOff = profile.legacy
    /\ sessions = {} /\ links = {} /\ crossed = {}
    /\ call = [c \in Calls |-> New]
    /\ sessionsOff = FALSE

AccountNext ==
    \/ \E c \in Calls :
          \/ CheckPassword(c) \/ Rehash(c) \/ OpenSession(c)
          \/ (\E l \in Links : ClaimLink(c, l)) \/ StartIssue(c)
          \/ SetPassword(c) \/ EndSessions(c) \/ Supersede(c) \/ VaultNotOpen(c) \/ Store(c)
          \/ CallEnds(c)
    \/ \E s \in sessions : SignOut(s)
    \/ \E l \in Links : RequestLink(l) \/ LinkExpires(l)
    \/ ChangeRole

AccountSpec == AccountInit /\ [][AccountNext]_accountVars

-----------------------------------------------------------------------------
(* The account, its rows and the requests hold what the code may write. *)
AccountTypeOK ==
    /\ profile \in [password: Passwords, legacy: BOOLEAN, role: {"admin", "staff"}]
    /\ sessions \subseteq [by: Calls, knew: Passwords]
    /\ vault \in Seq(Passwords)
    /\ links \subseteq Links /\ crossed \subseteq Calls
    /\ call \in [Calls -> {New, Over}
          \cup [at: {"rehash", "session"}, knew: Passwords]
          \cup [at: {"set", "sign_out"}, kind: {"issue", "link", "platform"}]
          \cup [at: {"supersede", "store"}, kind: {"issue"}]]
    /\ sessionsOff \in BOOLEAN /\ vaultOff \in BOOLEAN

(* "Old one stops working everywhere, new one vaulted": once no change is at   *)
(* work, every session was opened by someone who knew the password of now,     *)
(* except by a sign-in that had checked before the change and opened after it; *)
(* and one row of the vault is active and is that password, unless it was not  *)
(* issued, two requests issued at once, one ended half way, or one found the   *)
(* vault not configured. No other overlap of sign-ins, resets, issues and      *)
(* changes of role breaks either.                                              *)
PasswordsAgree ==
    /\ ~sessionsOff /\ (\A c \in Calls : ~Sits(c, {"sign_out"})) =>
          \A s \in sessions : s.knew = profile.password \/ s.by \in crossed
    /\ ~vaultOff /\ Issuing = {} =>
          /\ vault = <<profile.password>>
          /\ Revealed \in {<<>>, <<profile.password>>}
=============================================================================
