---------------------------- MODULE SecondFactor ----------------------------
(***************************************************************************)
(* The second factor of one account: set-up issues a pending secret,       *)
(* confirm makes it live once the app has produced a code from it and      *)
(* returns recovery codes, disable removes it, and a sign-in whose         *)
(* password was right goes on through a challenge and a code. Every        *)
(* handler reads the account, checks the code against what it has read,    *)
(* and writes in a statement of its own; requests overlap.                 *)
(* The app holds the secrets it was shown; the recovery codes a confirm    *)
(* returns are one code, named by the request that returned it.            *)
(***************************************************************************)
EXTENDS Naturals, FiniteSets

CONSTANTS
    Secrets,      \* secrets that set-up may issue (a bound)
    NoSecret,
    Requests,     \* confirms, disables and sign-ins (a bound)
    NoCodes

ASSUME SecondFactorAssumption == NoSecret \notin Secrets /\ NoCodes \notin Requests

VARIABLES
    account,   \* totp_secret, totp_pending_secret, totp_recovery_hashes
    issued,    \* secrets that set-up has issued
    request,   \* what each request is at, and the recovery codes it read
    proven,    \* secrets from which a confirm has accepted a code
    held,      \* the recovery code of the confirm that answered last, until a disable
    accepted,  \* how often each recovery code was accepted
    excuse     \* that confirm wrote after another request had

mfaVars == <<account, issued, request, proven, held, accepted, excuse>>

Arrived == [at |-> "arrived"]
Done == [at |-> "done"]
NotEnrolled == [live |-> NoSecret, pending |-> NoSecret, recovery |-> {}]
Enabled(a) == a.live # NoSecret

At(r, place) == request[r].at = place
Goes(r, place) ==
    request' = [request EXCEPT ![r] =
                  [at |-> place, read |-> account.recovery, late |-> FALSE]]
Ends(r) == request' = [request EXCEPT ![r] = Done]

\* The requests of R as they stand once another one has written the account.
Overtaken(R) ==
    [q \in Requests |->
        IF q \notin R /\ At(q, "enable")
        THEN [request[q] EXCEPT !.late = TRUE] ELSE request[q]]

-----------------------------------------------------------------------------
\* POST /api/auth/mfa/setup: one statement.
Setup(s) ==
    /\ s \in Secrets \ issued
    /\ issued' = issued \cup {s}
    /\ account' = [account EXCEPT !.pending = s]
    /\ request' = Overtaken({})
    /\ UNCHANGED <<proven, held, accepted, excuse>>

\* POST /api/auth/mfa/confirm reads the account and checks the app's code.
ConfirmReads(r) ==
    /\ At(r, "arrived")
    /\ account.pending # NoSecret
    /\ proven' = proven \cup {account.pending}
    /\ Goes(r, "enable")
    /\ UNCHANGED <<account, issued, held, accepted, excuse>>

\* enableTotp: what is pending by now becomes live, if there is anything.
Enable(r) ==
    /\ At(r, "enable")
    /\ account' = IF account.pending = NoSecret THEN account
                  ELSE [live |-> account.pending, pending |-> NoSecret, recovery |-> {r}]
    /\ held' = r
    /\ excuse' = request[r].late
    /\ request' = [Overtaken({r}) EXCEPT ![r] = Done]
    /\ UNCHANGED <<issued, proven, accepted>>

\* POST /api/auth/mfa/disable: a code of the live secret, a recovery code, or
\* no second factor at all.
DisableReads(r) ==
    /\ At(r, "arrived")
    /\ \/ Goes(r, "disable")
       \/ Enabled(account) /\ Goes(r, "spend_to_disable")
    /\ UNCHANGED <<account, issued, proven, held, accepted, excuse>>

Disable(r) ==
    /\ At(r, "disable")
    /\ account' = NotEnrolled
    /\ held' = NoCodes
    /\ excuse' = FALSE
    /\ request' = [Overtaken({r}) EXCEPT ![r] = Done]
    /\ UNCHANGED <<issued, proven, accepted>>

\* POST /api/auth/login: the password was right; a challenge, or a session.
SignIn(r) ==
    /\ At(r, "arrived")
    /\ IF Enabled(account) THEN Goes(r, "challenged") ELSE Ends(r)
    /\ UNCHANGED <<account, issued, proven, held, accepted, excuse>>

\* POST /api/auth/mfa/verify reads the account: nothing left to check, a code
\* of the live secret, or a recovery code.
VerifyReads(r) ==
    /\ At(r, "challenged")
    /\ \/ Ends(r)
       \/ Enabled(account) /\ Goes(r, "spend_to_sign_in")
    /\ UNCHANGED <<account, issued, proven, held, accepted, excuse>>

\* The challenge is five minutes old.
ChallengeExpires(r) ==
    /\ At(r, "challenged")
    /\ Ends(r)
    /\ UNCHANGED <<account, issued, proven, held, accepted, excuse>>

\* As it would be if the code were looked for in what was read before.
OnceStored(r, b) == b \in request[r].read
\* The code is looked for and removed by one statement.
StillStored(r, b) == b \in account.recovery

\* consumeRecoveryCode.
SpendRecoveryCode(r, b) ==
    /\ request[r].at \in {"spend_to_disable", "spend_to_sign_in"}
    /\ IF StillStored(r, b)
       THEN /\ account' = [account EXCEPT !.recovery = @ \ {b}]
            /\ accepted' = [accepted EXCEPT ![b] = @ + 1]
            /\ IF At(r, "spend_to_disable") THEN Goes(r, "disable") ELSE Ends(r)
       ELSE /\ IF At(r, "spend_to_disable") THEN Ends(r) ELSE Goes(r, "challenged")
            /\ UNCHANGED <<account, accepted>>
    /\ UNCHANGED <<issued, proven, held, excuse>>

-----------------------------------------------------------------------------
MfaInit ==
    /\ account = NotEnrolled
    /\ issued = {} /\ proven = {}
    /\ request = [r \in Requests |-> Arrived]
    /\ held = NoCodes
    /\ accepted = [r \in Requests |-> 0]
    /\ excuse = FALSE

MfaNext ==
    \/ \E s \in Secrets : Setup(s)
    \/ \E r \in Requests :
          \/ ConfirmReads(r) \/ Enable(r)
          \/ DisableReads(r) \/ Disable(r)
          \/ SignIn(r) \/ VerifyReads(r) \/ ChallengeExpires(r)
          \/ \E b \in Requests \ {r} : SpendRecoveryCode(r, b)

MfaSpec == MfaInit /\ [][MfaNext]_mfaVars

-----------------------------------------------------------------------------
(* The account and its requests hold what the code may write.                *)
MfaTypeOK ==
    /\ account \in [live: issued \cup {NoSecret}, pending: issued \cup {NoSecret},
                    recovery: SUBSET Requests]
    /\ issued \subseteq Secrets /\ proven \subseteq issued
    /\ request \in [Requests -> {Arrived, Done}
          \cup [at: {"enable", "disable", "challenged", "spend_to_disable",
                     "spend_to_sign_in"},
                read: SUBSET Requests, late: BOOLEAN]]
    /\ held \in Requests \cup {NoCodes}
    /\ accepted \in [Requests -> Nat]
    /\ excuse \in BOOLEAN

(* Called only after the person proved a code from that secret: whoever was   *)
(* last told that the second factor is on has an app whose codes work, and    *)
(* recovery codes that are stored or were spent, unless a set-up, a confirm   *)
(* or a disable was written between that confirm's check and its write; and   *)
(* no recovery code opens anything twice, however sign-ins and disables race. *)
EnrolmentHolds ==
    /\ held # NoCodes /\ ~excuse =>
          /\ account.live \in proven
          /\ held \in account.recovery \/ accepted[held] = 1
    /\ \A b \in Requests : accepted[b] <= 1
=============================================================================
