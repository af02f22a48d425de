--------------------------- MODULE AccountProofs ----------------------------
(***************************************************************************)
(* Proofs about one account: its second factor, its password, sessions and *)
(* vault, and who of an organisation may manage the others. For any number *)
(* of overlapping requests, secrets, links, people and handlers.           *)
(***************************************************************************)
EXTENDS SecondFactor, Accounts, Membership, FiniteSetTheorems, TLAPS

-----------------------------------------------------------------------------
(* The second factor.                                                       *)
-----------------------------------------------------------------------------
MfaPlaces == {"enable", "disable", "challenged", "spend_to_disable", "spend_to_sign_in"}
MfaAtWork == [at: MfaPlaces, read: SUBSET Requests, late: BOOLEAN]
MfaRequest == {Arrived, Done} \cup MfaAtWork

\* Codes are those of a confirm that is over, and are stored or spent, not both.
CodesAreReturned ==
    /\ \A b \in Requests :
          b \in account.recovery \/ accepted[b] > 0 \/ held = b => request[b] = Done
    /\ \A b \in Requests : accepted[b] <= 1
    /\ \A b \in account.recovery : accepted[b] = 0
\* What a confirm that nobody has overtaken is about to make live is proven.
PendingIsProven ==
    \A r \in Requests : At(r, "enable") /\ ~ request[r].late => account.pending \in proven
HeldIsLive ==
    held # NoCodes /\ ~ excuse =>
        account.live \in proven /\ (held \in account.recovery \/ accepted[held] = 1)

MfaInv == MfaTypeOK /\ CodesAreReturned /\ PendingIsProven /\ HeldIsLive

LEMMA MfaShapes ==
    /\ Arrived \notin MfaAtWork /\ Done \notin MfaAtWork /\ Arrived # Done
    /\ Arrived.at = "arrived" /\ Done.at = "done"
    /\ Arrived \in MfaRequest /\ Done \in MfaRequest
BY DEF Arrived, Done, MfaAtWork, MfaRequest

\* A request at one of these places has a record with all three fields.
LEMMA MfaWorks ==
    ASSUME MfaTypeOK, NEW r \in Requests, request[r].at \in MfaPlaces
    PROVE  request[r] \in MfaAtWork /\ request[r] # Done
<1>1. request[r] \in {Arrived, Done} \cup MfaAtWork
    BY DEF MfaTypeOK, MfaAtWork, MfaPlaces
<1>2. request[r] # Arrived /\ request[r] # Done
    BY MfaShapes DEF MfaPlaces
<1> QED BY <1>1, <1>2

\* A write of the account marks the confirms that are about to write, no more.
LEMMA OvertakenRequests ==
    ASSUME MfaTypeOK, NEW R
    PROVE  /\ Overtaken(R) \in [Requests -> MfaRequest]
           /\ \A q \in Requests :
                /\ request[q] = Done => Overtaken(R)[q] = Done
                /\ Overtaken(R)[q].at = request[q].at
                /\ q \notin R /\ At(q, "enable") => Overtaken(R)[q].late
<1> SUFFICES ASSUME NEW q \in Requests
             PROVE  /\ Overtaken(R)[q] \in MfaRequest
                    /\ request[q] = Done => Overtaken(R)[q] = Done
                    /\ Overtaken(R)[q].at = request[q].at
                    /\ q \notin R /\ At(q, "enable") => Overtaken(R)[q].late
    BY DEF Overtaken
<1>1. request[q] \in MfaRequest
    BY DEF MfaTypeOK, MfaRequest, MfaAtWork, MfaPlaces
<1>2. CASE q \notin R /\ At(q, "enable")
    <2>1. request[q] \in MfaAtWork /\ request[q] # Done
        BY <1>2, MfaWorks DEF At, MfaPlaces
    <2>2. Overtaken(R)[q] = [request[q] EXCEPT !.late = TRUE]
        BY <1>2 DEF Overtaken
    <2> QED BY <1>2, <2>1, <2>2 DEF MfaAtWork, MfaRequest
<1>3. CASE ~ (q \notin R /\ At(q, "enable"))
    BY <1>1, <1>3 DEF Overtaken
<1> QED BY <1>2, <1>3

\* A request that is not over moves on and nothing is written.
LEMMA RequestMoves ==
    ASSUME MfaInv, NEW r \in Requests, request[r] # Done, NEW new \in MfaRequest,
           request' = [request EXCEPT ![r] = new],
           UNCHANGED <<account, issued, held, accepted, excuse>>,
           proven \subseteq proven', proven' \subseteq issued,
           new.at = "enable" => account.pending \in proven'
    PROVE  MfaInv'
<1>t. MfaTypeOK /\ CodesAreReturned /\ PendingIsProven /\ HeldIsLive
    BY DEF MfaInv
<1>1. request \in [Requests -> MfaRequest]
    BY <1>t DEF MfaTypeOK, MfaRequest, MfaAtWork, MfaPlaces
<1>2. request' \in [Requests -> MfaRequest]
    BY <1>1
<1>3. MfaTypeOK'
    BY <1>t, <1>2 DEF MfaTypeOK, MfaRequest, MfaAtWork, MfaPlaces
<1>4. CodesAreReturned'
    BY <1>t, <1>1 DEF CodesAreReturned
<1>5. PendingIsProven'
    <2> SUFFICES ASSUME NEW q \in Requests, request'[q].at = "enable", ~ request'[q].late
                 PROVE  account.pending \in proven'
        BY DEF PendingIsProven, At
    <2>1. CASE q = r
        BY <2>1, <1>1
    <2>2. CASE q # r
        BY <2>2, <1>1, <1>t DEF PendingIsProven, At
    <2> QED BY <2>1, <2>2
<1>6. HeldIsLive'
    BY <1>t DEF HeldIsLive
<1> QED BY <1>3, <1>4, <1>5, <1>6 DEF MfaInv

\* Going somewhere keeps what was read; nobody has overtaken the request yet.
LEMMA GoesIsTyped ==
    ASSUME MfaTypeOK, NEW r \in Requests, NEW place \in MfaPlaces, Goes(r, place)
    PROVE  \E new \in MfaAtWork :
              new.at = place /\ request' = [request EXCEPT ![r] = new]
<1> DEFINE new == [at |-> place, read |-> account.recovery, late |-> FALSE]
<1>1. new \in MfaAtWork
    BY DEF MfaTypeOK, MfaAtWork
<1>2. request' = [request EXCEPT ![r] = new]
    BY DEF Goes
<1> QED BY <1>1, <1>2

LEMMA SetupKeepsMfaInv == ASSUME MfaInv, NEW s \in Secrets, Setup(s) PROVE MfaInv'
<1>t. MfaTypeOK /\ CodesAreReturned /\ PendingIsProven /\ HeldIsLive
    BY DEF MfaInv
<1>s. /\ s \in Secrets \ issued /\ issued' = issued \cup {s}
      /\ account' = [account EXCEPT !.pending = s] /\ request' = Overtaken({})
      /\ UNCHANGED <<proven, held, accepted, excuse>>
    BY DEF Setup
<1>1. /\ request' \in [Requests -> MfaRequest]
      /\ \A q \in Requests : /\ request[q] = Done => request'[q] = Done
                             /\ request'[q].at = request[q].at
                             /\ At(q, "enable") => request'[q].late
    BY <1>t, <1>s, OvertakenRequests
<1>2. account'.recovery = account.recovery /\ account'.live = account.live
    BY <1>t, <1>s DEF MfaTypeOK
<1>3. MfaTypeOK'
    BY <1>t, <1>s, <1>1 DEF MfaTypeOK, MfaRequest, MfaAtWork, MfaPlaces
<1>4. CodesAreReturned'
    BY <1>t, <1>s, <1>1, <1>2 DEF CodesAreReturned
<1>5. PendingIsProven'
    BY <1>1 DEF PendingIsProven, At
<1>6. HeldIsLive'
    BY <1>t, <1>s, <1>2 DEF HeldIsLive
<1> QED BY <1>3, <1>4, <1>5, <1>6 DEF MfaInv

\* The other two writes of the account, by a request that ends there.
LEMMA EnableKeepsMfaInv == ASSUME MfaInv, NEW r \in Requests, Enable(r) PROVE MfaInv'
<1>t. MfaTypeOK /\ CodesAreReturned /\ PendingIsProven /\ HeldIsLive
    BY DEF MfaInv
<1>s. /\ At(r, "enable") /\ held' = r /\ excuse' = request[r].late
      /\ account' = IF account.pending = NoSecret THEN account
                    ELSE [live |-> account.pending, pending |-> NoSecret, recovery |-> {r}]
      /\ request' = [Overtaken({r}) EXCEPT ![r] = Done]
      /\ UNCHANGED <<issued, proven, accepted>>
    BY DEF Enable
<1>0. request[r] \in MfaAtWork /\ request[r] # Done
    BY <1>t, <1>s, MfaWorks DEF At, MfaPlaces
<1>1. /\ request' \in [Requests -> MfaRequest] /\ request'[r] = Done
      /\ \A q \in Requests : /\ request[q] = Done => request'[q] = Done
                             /\ request'[q].at = "enable" => request'[q].late
    BY <1>t, <1>s, OvertakenRequests, MfaShapes DEF At
<1>2. /\ account' \in [live: issued \cup {NoSecret}, pending: issued \cup {NoSecret},
                       recovery: SUBSET Requests]
      /\ account'.recovery \subseteq account.recovery \cup {r}
    BY <1>t, <1>s DEF MfaTypeOK
<1>3. MfaTypeOK'
    BY <1>t, <1>s, <1>0, <1>1, <1>2 DEF MfaTypeOK, MfaRequest, MfaAtWork, MfaPlaces
<1>4. CodesAreReturned'
    <2>1. accepted[r] = 0
        BY <1>t, <1>0 DEF CodesAreReturned, MfaTypeOK
    <2>2. \A b \in Requests :
            b \in account'.recovery \/ accepted[b] > 0 \/ b = r => request'[b] = Done
        BY <1>t, <1>1, <1>2 DEF CodesAreReturned
    <2> QED BY <1>t, <1>s, <1>2, <2>1, <2>2 DEF CodesAreReturned
<1>5. PendingIsProven'
    BY <1>1 DEF PendingIsProven, At
<1>6. HeldIsLive'
    <2> SUFFICES ASSUME ~ request[r].late
                 PROVE  account'.live \in proven /\ r \in account'.recovery
        BY <1>s DEF HeldIsLive
    <2>1. account.pending \in proven
        BY <1>t, <1>s DEF PendingIsProven
    <2>2. account.pending # NoSecret
        BY <1>t, <2>1, SecondFactorAssumption DEF MfaTypeOK
    <2> QED BY <1>s, <2>1, <2>2
<1> QED BY <1>3, <1>4, <1>5, <1>6 DEF MfaInv

LEMMA DisableKeepsMfaInv == ASSUME MfaInv, NEW r \in Requests, Disable(r) PROVE MfaInv'
<1>t. MfaTypeOK /\ CodesAreReturned /\ PendingIsProven /\ HeldIsLive
    BY DEF MfaInv
<1>s. /\ At(r, "disable") /\ account' = NotEnrolled /\ held' = NoCodes /\ excuse' = FALSE
      /\ request' = [Overtaken({r}) EXCEPT ![r] = Done]
      /\ UNCHANGED <<issued, proven, accepted>>
    BY DEF Disable
<1>1. /\ request' \in [Requests -> MfaRequest] /\ request'[r] = Done
      /\ \A q \in Requests : /\ request[q] = Done => request'[q] = Done
                             /\ request'[q].at = "enable" => request'[q].late
    BY <1>t, <1>s, OvertakenRequests, MfaShapes DEF At
<1>2. MfaTypeOK'
    BY <1>t, <1>s, <1>1 DEF MfaTypeOK, MfaRequest, MfaAtWork, MfaPlaces, NotEnrolled
<1>3. CodesAreReturned'
    BY <1>t, <1>s, <1>1, SecondFactorAssumption DEF CodesAreReturned, NotEnrolled
<1>4. PendingIsProven'
    BY <1>1 DEF PendingIsProven, At
<1>5. HeldIsLive'
    BY <1>s DEF HeldIsLive
<1> QED BY <1>2, <1>3, <1>4, <1>5 DEF MfaInv

\* A code that is stored is spent by the statement that finds it.
LEMMA SpendKeepsMfaInv ==
    ASSUME MfaInv, NEW r \in Requests, NEW b \in Requests, SpendRecoveryCode(r, b)
    PROVE  MfaInv'
<1>t. MfaTypeOK /\ CodesAreReturned /\ PendingIsProven /\ HeldIsLive
    BY DEF MfaInv
<1>0. request[r] # Done /\ request[r].at \in MfaPlaces
    BY <1>t, MfaWorks DEF SpendRecoveryCode, MfaPlaces
<1>1. PICK new \in MfaRequest :
          /\ request' = [request EXCEPT ![r] = new]
          /\ new.at # "enable"
    <2>1. Goes(r, "disable") \/ Goes(r, "challenged") \/ Ends(r)
        BY DEF SpendRecoveryCode
    <2>2. CASE Goes(r, "disable")
        BY <1>t, <2>2, GoesIsTyped DEF MfaRequest, MfaPlaces
    <2>3. CASE Goes(r, "challenged")
        BY <1>t, <2>3, GoesIsTyped DEF MfaRequest, MfaPlaces
    <2>4. CASE Ends(r)
        BY <2>4, MfaShapes DEF Ends
    <2> QED BY <2>1, <2>2, <2>3, <2>4
<1>2. CASE ~ StillStored(r, b)
    <2>1. UNCHANGED <<account, issued, held, accepted, excuse, proven>>
        BY <1>2 DEF SpendRecoveryCode
    <2>2. proven \subseteq issued
        BY <1>t DEF MfaTypeOK
    <2> QED BY <1>0, <1>1, <2>1, <2>2, RequestMoves
<1>3. CASE StillStored(r, b)
    <2>1. /\ account' = [account EXCEPT !.recovery = @ \ {b}]
          /\ accepted' = [accepted EXCEPT ![b] = @ + 1]
          /\ UNCHANGED <<issued, proven, held, excuse>>
        BY <1>3 DEF SpendRecoveryCode
    <2>2. /\ account'.recovery = account.recovery \ {b} /\ account'.live = account.live
          /\ account'.pending = account.pending
        BY <1>t, <2>1 DEF MfaTypeOK
    <2>3. /\ accepted[b] = 0 /\ accepted'[b] = 1 /\ request[b] = Done
          /\ \A q \in Requests \ {b} : accepted'[q] = accepted[q]
        BY <1>t, <1>3, <2>1 DEF MfaTypeOK, CodesAreReturned, StillStored
    <2>4. request \in [Requests -> MfaRequest]
        BY <1>t DEF MfaTypeOK, MfaRequest, MfaAtWork, MfaPlaces
    <2>5. \A q \in Requests : /\ request'[q] \in MfaRequest
                              /\ request[q] = Done => request'[q] = Done
                              /\ request'[q].at = "enable" => request'[q] = request[q]
        BY <1>0, <1>1, <2>4
    <2>6. MfaTypeOK'
        <3>1. request' \in [Requests -> MfaRequest]
            BY <1>1, <2>4
        <3>2. accepted' \in [Requests -> Nat]
            BY <1>t, <2>1 DEF MfaTypeOK
        <3>3. account' \in [live: issued \cup {NoSecret}, pending: issued \cup {NoSecret},
                            recovery: SUBSET Requests]
            BY <1>t, <2>1 DEF MfaTypeOK
        <3> QED BY <1>t, <2>1, <3>1, <3>2, <3>3
            DEF MfaTypeOK, MfaRequest, MfaAtWork, MfaPlaces
    <2>7. CodesAreReturned'
        BY <1>t, <2>1, <2>2, <2>3, <2>5 DEF CodesAreReturned
    <2>8. PendingIsProven'
        BY <1>t, <2>1, <2>2, <2>5 DEF PendingIsProven, At
    <2>9. HeldIsLive'
        BY <1>t, <2>1, <2>2, <2>3 DEF HeldIsLive, CodesAreReturned, MfaTypeOK
    <2> QED BY <2>6, <2>7, <2>8, <2>9 DEF MfaInv
<1> QED BY <1>2, <1>3

\* Requests that read the account, or leave: nothing is written.
LEMMA ReadsKeepMfaInv ==
    ASSUME MfaInv, NEW r \in Requests,
           \/ ConfirmReads(r) \/ DisableReads(r) \/ SignIn(r)
           \/ VerifyReads(r) \/ ChallengeExpires(r)
    PROVE  MfaInv'
<1>t. MfaTypeOK
    BY DEF MfaInv
<1>1. proven \subseteq issued
    BY <1>t DEF MfaTypeOK
<1>2. CASE ConfirmReads(r)
    <2>1. PICK new \in MfaAtWork : new.at = "enable" /\ request' = [request EXCEPT ![r] = new]
        BY <1>t, <1>2, GoesIsTyped DEF ConfirmReads, MfaPlaces
    <2>2. account.pending \in issued
        BY <1>t, <1>2 DEF ConfirmReads, MfaTypeOK
    <2>3. /\ request[r] # Done /\ new \in MfaRequest
          /\ UNCHANGED <<account, issued, held, accepted, excuse>>
          /\ proven' = proven \cup {account.pending}
        BY <1>2, MfaShapes DEF ConfirmReads, At, MfaRequest
    <2> QED BY <1>1, <2>1, <2>2, <2>3, RequestMoves
<1>3. CASE DisableReads(r) \/ SignIn(r) \/ VerifyReads(r) \/ ChallengeExpires(r)
    <2>1. /\ request[r] # Done
          /\ UNCHANGED <<account, issued, held, accepted, excuse, proven>>
        BY <1>3, MfaShapes DEF DisableReads, SignIn, VerifyReads, ChallengeExpires, At
    <2>2. \/ Ends(r)
          \/ \E place \in MfaPlaces \ {"enable"} : Goes(r, place)
        BY <1>3 DEF DisableReads, SignIn, VerifyReads, ChallengeExpires, MfaPlaces
    <2>3. CASE Ends(r)
        BY <1>1, <2>1, <2>3, RequestMoves, MfaShapes DEF Ends
    <2>4. ASSUME NEW place \in MfaPlaces \ {"enable"}, Goes(r, place)
          PROVE  MfaInv'
        <3>1. PICK new \in MfaAtWork : new.at = place /\ request' = [request EXCEPT ![r] = new]
            BY <1>t, <2>4, GoesIsTyped
        <3> QED BY <1>1, <2>1, <2>4, <3>1, RequestMoves DEF MfaRequest
    <2> QED BY <2>2, <2>3, <2>4
<1> QED BY <1>2, <1>3

LEMMA MfaInvInit == MfaInit => MfaInv
<1> SUFFICES ASSUME MfaInit PROVE MfaInv
    OBVIOUS
<1> USE DEF MfaInit
<1>1. MfaTypeOK
    BY DEF MfaTypeOK, NotEnrolled
<1>2. CodesAreReturned
    BY SecondFactorAssumption DEF CodesAreReturned, NotEnrolled
<1>3. PendingIsProven /\ HeldIsLive
    BY MfaShapes DEF PendingIsProven, HeldIsLive, At
<1> QED BY <1>1, <1>2, <1>3 DEF MfaInv

LEMMA MfaInvNext == MfaInv /\ [MfaNext]_mfaVars => MfaInv'
<1> SUFFICES ASSUME MfaInv, [MfaNext]_mfaVars PROVE MfaInv'
    OBVIOUS
<1>1. ASSUME NEW s \in Secrets, Setup(s) PROVE MfaInv'
    BY <1>1, SetupKeepsMfaInv
<1>2. ASSUME NEW r \in Requests, Enable(r) PROVE MfaInv'
    BY <1>2, EnableKeepsMfaInv
<1>3. ASSUME NEW r \in Requests, Disable(r) PROVE MfaInv'
    BY <1>3, DisableKeepsMfaInv
<1>4. ASSUME NEW r \in Requests,
             \/ ConfirmReads(r) \/ DisableReads(r) \/ SignIn(r)
             \/ VerifyReads(r) \/ ChallengeExpires(r)
      PROVE  MfaInv'
    BY <1>4, ReadsKeepMfaInv
<1>5. ASSUME NEW r \in Requests, NEW b \in Requests \ {r}, SpendRecoveryCode(r, b)
      PROVE  MfaInv'
    BY <1>5, SpendKeepsMfaInv
<1>6. CASE UNCHANGED mfaVars
    BY <1>6 DEF mfaVars, MfaInv, MfaTypeOK, CodesAreReturned, PendingIsProven, HeldIsLive, At
<1> QED BY <1>1, <1>2, <1>3, <1>4, <1>5, <1>6 DEF MfaNext

\* The account, its codes and its requests stay well formed, however set-ups,
\* confirms, disables and sign-ins of any number of tabs overlap.
THEOREM MfaTypeCorrect == MfaSpec => []MfaTypeOK
<1>1. MfaInv => MfaTypeOK
    BY DEF MfaInv
<1> QED BY <1>1, MfaInvInit, MfaInvNext, PTL DEF MfaSpec

\* Whoever was last told that the second factor is on holds an app and recovery
\* codes that work, unless another write came between that confirm's check and its
\* write; and consumeRecoveryCode lets no code open anything twice.
THEOREM EnrolmentAlwaysHolds == MfaSpec => []EnrolmentHolds
<1>1. MfaInv => EnrolmentHolds
    BY DEF MfaInv, CodesAreReturned, HeldIsLive, EnrolmentHolds
<1> QED BY <1>1, MfaInvInit, MfaInvNext, PTL DEF MfaSpec

-----------------------------------------------------------------------------
(* The password, the sessions and the vault.                                *)
-----------------------------------------------------------------------------
SigningCall == [at: {"rehash", "session"}, knew: Passwords]
ChangingCall == [at: {"set", "sign_out"}, kind: {"issue", "link", "platform"}]
VaultingCall == [at: {"supersede", "store"}, kind: {"issue"}]
CallType == {New, Over} \cup SigningCall \cup ChangingCall \cup VaultingCall

\* Every write of the hash catches the sign-ins that know another password.
SigningInKnows ==
    \A c \in Calls :
        Sits(c, {"rehash", "session"}) => call[c].knew = profile.password \/ c \in crossed
SessionsKnow ==
    ~ sessionsOff /\ (\A c \in Calls : ~ Sits(c, {"sign_out"})) =>
        \A s \in sessions : s.knew = profile.password \/ s.by \in crossed
\* One request issues at a time, the password is its own, and the vault is empty
\* from the moment it has superseded what was there.
VaultHolds ==
    ~ vaultOff =>
        \/ Issuing = {} /\ vault = <<profile.password>>
        \/ \E c \in Calls : /\ Issuing = {c} /\ profile.password = c
                            /\ Sits(c, {"store"}) => vault = <<>>

AccountInv == AccountTypeOK /\ SigningInKnows /\ SessionsKnow /\ VaultHolds

LEMMA CallShapes ==
    /\ New.at = "new" /\ Over.at = "over" /\ New \in CallType /\ Over \in CallType
    /\ \A x \in SigningCall : x.at \in {"rehash", "session"} /\ x.knew \in Passwords
    /\ \A x \in ChangingCall :
          x.at \in {"set", "sign_out"} /\ x.kind \in {"issue", "link", "platform"}
    /\ \A x \in VaultingCall : x.at \in {"supersede", "store"} /\ x.kind = "issue"
BY DEF New, Over, SigningCall, ChangingCall, VaultingCall, CallType

\* What a request's record holds, by the step it is at.
LEMMA CallAt ==
    ASSUME AccountTypeOK, NEW c \in Calls
    PROVE  /\ call[c] \in CallType
           /\ Sits(c, {"rehash", "session"}) => call[c] \in SigningCall
           /\ Sits(c, {"set", "sign_out"}) => call[c] \in ChangingCall
           /\ Sits(c, {"supersede", "store"}) => call[c] \in VaultingCall
<1>1. call[c] \in CallType
    BY DEF AccountTypeOK, CallType, SigningCall, ChangingCall, VaultingCall
<1>2. call[c] \in {New, Over} => call[c].at \in {"new", "over"}
    BY CallShapes
<1> QED BY <1>1, <1>2, CallShapes DEF Sits, CallType

\* One request moves: what is said of the others stays.
LEMMA OneCall ==
    ASSUME AccountTypeOK, NEW c \in Calls, NEW new \in CallType,
           call' = [call EXCEPT ![c] = new]
    PROVE  /\ call' \in [Calls -> CallType] /\ call'[c] = new
           /\ \A d \in Calls \ {c} : /\ call'[d] = call[d]
                                     /\ d \in Issuing' <=> d \in Issuing
           /\ c \in Issuing' <=>
                new.at \in {"sign_out", "supersede", "store"} /\ new.kind = "issue"
<1>1. call \in [Calls -> CallType]
    BY CallAt DEF AccountTypeOK
<1> QED BY <1>1 DEF Issuing, Sits

\* A request that writes no password, and neither was nor is about to be issuing.
LEMMA QuietCall ==
    ASSUME AccountInv, NEW c \in Calls, NEW new \in CallType,
           call' = [call EXCEPT ![c] = new],
           call[c].at \in {"new", "session"},
           new.at \in {"rehash", "session", "set", "over"},
           new.at \in {"rehash", "session"} => new.knew = profile.password,
           UNCHANGED <<profile, vault, crossed, sessionsOff, vaultOff>>,
           links' \subseteq Links,
           sessions' \subseteq [by: Calls, knew: Passwords],
           \A s \in sessions' \ sessions : s.knew = profile.password \/ s.by \in crossed
    PROVE  AccountInv'
<1>t. AccountTypeOK /\ SigningInKnows /\ SessionsKnow /\ VaultHolds
    BY DEF AccountInv
<1>1. /\ call' \in [Calls -> CallType] /\ call'[c] = new
      /\ \A d \in Calls \ {c} : call'[d] = call[d] /\ (d \in Issuing' <=> d \in Issuing)
      /\ c \in Issuing' <=>
            new.at \in {"sign_out", "supersede", "store"} /\ new.kind = "issue"
    BY <1>t, OneCall
<1>2. AccountTypeOK'
    BY <1>t, <1>1 DEF AccountTypeOK, CallType, SigningCall, ChangingCall, VaultingCall
<1>3. SigningInKnows'
    BY <1>t, <1>1 DEF SigningInKnows, Sits
<1>4. SessionsKnow'
    <2>1. \A d \in Calls : Sits(d, {"sign_out"}) => Sits(d, {"sign_out"})'
        BY <1>1 DEF Sits
    <2> QED BY <1>t, <2>1 DEF SessionsKnow
<1>5. Issuing' = Issuing /\ c \notin Issuing
    BY <1>1 DEF Issuing, Sits
<1>6. VaultHolds'
    BY <1>t, <1>1, <1>5 DEF VaultHolds, Sits
<1> QED BY <1>2, <1>3, <1>4, <1>6 DEF AccountInv

LEMMA SignInKeepsAccountInv ==
    ASSUME AccountInv, NEW c \in Calls, CheckPassword(c) \/ OpenSession(c)
    PROVE  AccountInv'
<1>t. AccountTypeOK /\ SigningInKnows
    BY DEF AccountInv
<1>0. /\ links \subseteq Links /\ sessions \subseteq [by: Calls, knew: Passwords]
      /\ profile.password \in Passwords
    BY <1>t DEF AccountTypeOK
<1>1. CASE CheckPassword(c)
    <2>1. PICK place \in {"session", "rehash"} :
              call' = [call EXCEPT ![c] = [at |-> place, knew |-> profile.password]]
        BY <1>1 DEF CheckPassword
    <2> DEFINE new == [at |-> place, knew |-> profile.password]
    <2>2. new \in CallType /\ new.at \in {"rehash", "session"} /\ new.knew = profile.password
        BY <1>0 DEF CallType, SigningCall
    <2>3. /\ call[c].at = "new"
          /\ UNCHANGED <<profile, sessions, vault, links, crossed, sessionsOff, vaultOff>>
        BY <1>1 DEF CheckPassword, Sits
    <2>4. call' = [call EXCEPT ![c] = new]
        BY <2>1
    <2> HIDE DEF new
    <2> QED BY <1>0, <2>2, <2>3, <2>4, QuietCall
<1>2. CASE OpenSession(c)
    <2> DEFINE s == [by |-> c, knew |-> call[c].knew]
    <2>1. /\ call[c].at = "session" /\ sessions' = sessions \cup {s}
          /\ call' = [call EXCEPT ![c] = Over]
          /\ UNCHANGED <<profile, vault, links, crossed, sessionsOff, vaultOff>>
        BY <1>2 DEF OpenSession, Sits, Finishes
    <2>2. call[c] \in SigningCall
        BY <1>t, <2>1, CallAt DEF Sits
    <2>3. s \in [by: Calls, knew: Passwords] /\ s.by = c /\ s.knew = call[c].knew
        BY <2>2, CallShapes
    <2>4. s.knew = profile.password \/ s.by \in crossed
        BY <1>t, <2>1, <2>3 DEF SigningInKnows, Sits
    <2> HIDE DEF s
    <2> QED BY <1>0, <2>1, <2>3, <2>4, CallShapes, QuietCall
<1> QED BY <1>1, <1>2

LEMMA StartKeepsAccountInv ==
    ASSUME AccountInv, NEW c \in Calls, StartIssue(c) \/ \E l \in Links : ClaimLink(c, l)
    PROVE  AccountInv'
<1>t. AccountTypeOK
    BY DEF AccountInv
<1>1. PICK kind \in {"issue", "link", "platform"} :
          call' = [call EXCEPT ![c] = [at |-> "set", kind |-> kind]]
    BY DEF StartIssue, ClaimLink
<1> DEFINE new == [at |-> "set", kind |-> kind]
<1>2. new \in CallType /\ new.at = "set"
    BY DEF CallType, ChangingCall
<1>3. /\ call[c].at = "new" /\ links' \subseteq Links
      /\ UNCHANGED <<profile, sessions, vault, crossed, sessionsOff, vaultOff>>
      /\ sessions \subseteq [by: Calls, knew: Passwords]
    BY <1>t DEF StartIssue, ClaimLink, Sits, AccountTypeOK
<1>4. call' = [call EXCEPT ![c] = new]
    BY <1>1
<1> HIDE DEF new
<1> QED BY <1>2, <1>3, <1>4, QuietCall

\* A session, a link or the role: no request moves and no password is written.
LEMMA OthersKeepAccountInv ==
    ASSUME AccountInv,
           \/ \E s \in sessions : SignOut(s)
           \/ \E l \in Links : RequestLink(l) \/ LinkExpires(l)
           \/ ChangeRole
           \/ UNCHANGED accountVars
    PROVE  AccountInv'
<1>t. AccountTypeOK /\ SigningInKnows /\ SessionsKnow /\ VaultHolds
    BY DEF AccountInv
<1>1. /\ UNCHANGED <<vault, call, crossed, sessionsOff, vaultOff>>
      /\ sessions' \subseteq sessions /\ links' \subseteq links \cup Links
    BY DEF SignOut, RequestLink, LinkExpires, ChangeRole, accountVars
<1>2. /\ profile' \in [password: Passwords, legacy: BOOLEAN, role: {"admin", "staff"}]
      /\ profile'.password = profile.password
    BY <1>t DEF SignOut, RequestLink, LinkExpires, ChangeRole, accountVars, AccountTypeOK
<1>3. AccountTypeOK'
    BY <1>t, <1>1, <1>2 DEF AccountTypeOK
<1>4. SigningInKnows'
    BY <1>t, <1>1, <1>2 DEF SigningInKnows, Sits
<1>5. SessionsKnow'
    BY <1>t, <1>1, <1>2 DEF SessionsKnow, Sits
<1>6. VaultHolds'
    BY <1>t, <1>1, <1>2 DEF VaultHolds, Sits, Issuing
<1> QED BY <1>3, <1>4, <1>5, <1>6 DEF AccountInv

LEMMA RehashKeepsAccountInv == ASSUME AccountInv, NEW c \in Calls, Rehash(c) PROVE AccountInv'
<1>t. AccountTypeOK /\ SigningInKnows /\ SessionsKnow /\ VaultHolds
    BY DEF AccountInv
<1> DEFINE new == [call[c] EXCEPT !.at = "session"]
<1>s. /\ call[c].at = "rehash"
      /\ profile' = [profile EXCEPT !.password = call[c].knew, !.legacy = FALSE]
      /\ call' = [call EXCEPT ![c].at = "session"]
      /\ UNCHANGED <<sessions, vault, links>>
    BY DEF Rehash, Sits
<1>0. call[c] \in SigningCall
    BY <1>t, <1>s, CallAt DEF Sits
<1>1. new \in CallType /\ new.at = "session" /\ new.knew = call[c].knew
    BY <1>0 DEF SigningCall, CallType
<1>2. call' = [call EXCEPT ![c] = new]
    BY <1>t, <1>s DEF AccountTypeOK
<1> HIDE DEF new
<1>3. /\ call' \in [Calls -> CallType] /\ call'[c] = new
      /\ \A d \in Calls \ {c} : call'[d] = call[d] /\ (d \in Issuing' <=> d \in Issuing)
      /\ c \in Issuing' <=>
            new.at \in {"sign_out", "supersede", "store"} /\ new.kind = "issue"
    BY <1>t, <1>1, <1>2, OneCall
<1>4. /\ profile' \in [password: Passwords, legacy: BOOLEAN, role: {"admin", "staff"}]
      /\ profile'.password = call[c].knew
    BY <1>t, <1>s, <1>0, CallShapes DEF AccountTypeOK
<1>5. Issuing' = Issuing /\ c \notin Issuing
    BY <1>s, <1>1, <1>3 DEF Issuing, Sits
<1>6. CASE call[c].knew = profile.password
    <2>1. UNCHANGED <<crossed, sessionsOff, vaultOff>> /\ profile'.password = profile.password
        BY <1>4, <1>6 DEF Rehash
    <2>2. AccountTypeOK'
        BY <1>t, <1>s, <1>3, <1>4, <2>1
            DEF AccountTypeOK, CallType, SigningCall, ChangingCall, VaultingCall
    <2>3. SigningInKnows'
        BY <1>t, <1>s, <1>1, <1>3, <2>1 DEF SigningInKnows, Sits
    <2>4. SessionsKnow'
        <3>1. \A d \in Calls : Sits(d, {"sign_out"}) => Sits(d, {"sign_out"})'
            BY <1>s, <1>3 DEF Sits
        <3> QED BY <1>t, <1>s, <2>1, <3>1 DEF SessionsKnow
    <2>5. VaultHolds'
        BY <1>t, <1>s, <1>1, <1>3, <1>5, <2>1 DEF VaultHolds, Sits
    <2> QED BY <2>2, <2>3, <2>4, <2>5 DEF AccountInv
<1>7. CASE call[c].knew # profile.password
    <2>1. crossed' = crossed \cup (SigningIn \ {c}) /\ sessionsOff' /\ vaultOff'
        BY <1>7 DEF Rehash
    <2>2. AccountTypeOK'
        BY <1>t, <1>s, <1>3, <1>4, <1>7
            DEF AccountTypeOK, CallType, SigningCall, ChangingCall, VaultingCall, Rehash, SigningIn
    <2>3. SigningInKnows'
        BY <1>1, <1>3, <1>4, <2>1 DEF SigningInKnows, Sits, SigningIn
    <2>4. SessionsKnow' /\ VaultHolds'
        BY <2>1 DEF SessionsKnow, VaultHolds
    <2> QED BY <2>2, <2>3, <2>4 DEF AccountInv
<1> QED BY <1>6, <1>7

LEMMA SetPasswordKeepsAccountInv ==
    ASSUME AccountInv, NEW c \in Calls, SetPassword(c) PROVE AccountInv'
<1>t. AccountTypeOK /\ SigningInKnows /\ SessionsKnow /\ VaultHolds
    BY DEF AccountInv
<1> DEFINE new == [call[c] EXCEPT !.at = "sign_out"]
<1>s. /\ call[c].at = "set"
      /\ profile' = [profile EXCEPT !.password = c, !.legacy = FALSE]
      /\ crossed' = crossed \cup SigningIn
      /\ vaultOff' = (call[c].kind # "issue" \/ Issuing # {})
      /\ call' = [call EXCEPT ![c].at = "sign_out"]
      /\ UNCHANGED <<sessions, vault, links, sessionsOff>>
    BY DEF SetPassword, Sits
<1>0. call[c] \in ChangingCall
    BY <1>t, <1>s, CallAt DEF Sits
<1>1. new \in CallType /\ new.at = "sign_out" /\ new.kind = call[c].kind
    BY <1>0 DEF ChangingCall, CallType
<1>2. call' = [call EXCEPT ![c] = new]
    BY <1>t, <1>s DEF AccountTypeOK
<1> HIDE DEF new
<1>3. /\ call' \in [Calls -> CallType] /\ call'[c] = new
      /\ \A d \in Calls \ {c} : call'[d] = call[d] /\ (d \in Issuing' <=> d \in Issuing)
      /\ c \in Issuing' <=>
            new.at \in {"sign_out", "supersede", "store"} /\ new.kind = "issue"
    BY <1>t, <1>1, <1>2, OneCall
<1>4. /\ profile' \in [password: Passwords, legacy: BOOLEAN, role: {"admin", "staff"}]
      /\ profile'.password = c
    BY <1>t, <1>s DEF AccountTypeOK, Passwords
<1>5. AccountTypeOK'
    BY <1>t, <1>s, <1>3, <1>4
        DEF AccountTypeOK, CallType, SigningCall, ChangingCall, VaultingCall, SigningIn
<1>6. SigningInKnows'
    BY <1>s, <1>1, <1>3 DEF SigningInKnows, Sits, SigningIn
<1>7. SessionsKnow'
    BY <1>1, <1>3 DEF SessionsKnow, Sits
<1>8. VaultHolds'
    <2> SUFFICES ASSUME ~ vaultOff' PROVE VaultHolds'
        BY DEF VaultHolds
    <2>1. call[c].kind = "issue" /\ Issuing = {}
        BY <1>s
    <2>2. Issuing' = {c}
        BY <1>1, <1>3, <2>1 DEF Issuing
    <2>3. ~ Sits(c, {"store"})'
        BY <1>1, <1>3 DEF Sits
    <2> QED BY <1>4, <2>2, <2>3 DEF VaultHolds
<1> QED BY <1>5, <1>6, <1>7, <1>8 DEF AccountInv

\* The three steps after it, of the one request that issues.
LEMMA EndSessionsKeepsAccountInv ==
    ASSUME AccountInv, NEW c \in Calls, EndSessions(c) PROVE AccountInv'
<1>t. AccountTypeOK /\ SigningInKnows /\ SessionsKnow /\ VaultHolds
    BY DEF AccountInv
<1>s. /\ call[c].at = "sign_out" /\ sessions' = {} /\ sessionsOff' = FALSE
      /\ IF call[c].kind = "issue" THEN call' = [call EXCEPT ![c].at = "supersede"]
                                   ELSE call' = [call EXCEPT ![c] = Over]
      /\ UNCHANGED <<profile, vault, links, crossed, vaultOff>>
    BY DEF EndSessions, Sits, Finishes
<1>0. call[c] \in ChangingCall
    BY <1>t, <1>s, CallAt DEF Sits
<1>1. PICK new \in CallType :
          /\ call' = [call EXCEPT ![c] = new]
          /\ new.at \in {"supersede", "over"}
          /\ c \in Issuing <=> new.at = "supersede" /\ new.kind = "issue"
    <2>1. CASE call[c].kind = "issue"
        <3> DEFINE new == [call[c] EXCEPT !.at = "supersede"]
        <3>1. new \in VaultingCall
            BY <1>0, <2>1 DEF ChangingCall, VaultingCall
        <3>2. call' = [call EXCEPT ![c] = new]
            BY <1>t, <1>s, <2>1 DEF AccountTypeOK
        <3>3. new.at = "supersede" /\ new.kind = "issue" /\ c \in Issuing
            BY <1>0, <1>s, <2>1 DEF ChangingCall, Issuing, Sits
        <3> QED BY <3>1, <3>2, <3>3 DEF CallType
    <2>2. CASE call[c].kind # "issue"
        BY <1>s, <2>2, CallShapes DEF Issuing
    <2> QED BY <2>1, <2>2
<1>3. /\ call' \in [Calls -> CallType] /\ call'[c] = new
      /\ \A d \in Calls \ {c} : call'[d] = call[d] /\ (d \in Issuing' <=> d \in Issuing)
      /\ c \in Issuing' <=>
            new.at \in {"sign_out", "supersede", "store"} /\ new.kind = "issue"
    BY <1>t, <1>1, OneCall
<1>4. Issuing' = Issuing
    BY <1>1, <1>3 DEF Issuing
<1>5. AccountTypeOK'
    BY <1>t, <1>s, <1>3 DEF AccountTypeOK, CallType, SigningCall, ChangingCall, VaultingCall
<1>6. SigningInKnows'
    BY <1>t, <1>s, <1>1, <1>3 DEF SigningInKnows, Sits
<1>7. SessionsKnow'
    BY <1>s DEF SessionsKnow
<1>8. VaultHolds'
    BY <1>t, <1>s, <1>1, <1>3, <1>4 DEF VaultHolds, Sits
<1> QED BY <1>5, <1>6, <1>7, <1>8 DEF AccountInv

LEMMA SupersedeKeepsAccountInv ==
    ASSUME AccountInv, NEW c \in Calls, Supersede(c) PROVE AccountInv'
<1>t. AccountTypeOK /\ SigningInKnows /\ SessionsKnow /\ VaultHolds
    BY DEF AccountInv
<1> DEFINE new == [call[c] EXCEPT !.at = "store"]
<1>s. /\ call[c].at = "supersede" /\ vault' = <<>>
      /\ call' = [call EXCEPT ![c].at = "store"]
      /\ UNCHANGED <<profile, sessions, links, crossed, sessionsOff, vaultOff>>
    BY DEF Supersede, Sits, Superseded
<1>0. call[c] \in VaultingCall
    BY <1>t, <1>s, CallAt DEF Sits
<1>1. new \in CallType /\ new.at = "store" /\ new.kind = "issue" /\ c \in Issuing
    BY <1>0, <1>s DEF VaultingCall, CallType, Issuing, Sits
<1>2. call' = [call EXCEPT ![c] = new]
    BY <1>t, <1>s DEF AccountTypeOK
<1> HIDE DEF new
<1>3. /\ call' \in [Calls -> CallType] /\ call'[c] = new
      /\ \A d \in Calls \ {c} : call'[d] = call[d] /\ (d \in Issuing' <=> d \in Issuing)
      /\ c \in Issuing' <=>
            new.at \in {"sign_out", "supersede", "store"} /\ new.kind = "issue"
    BY <1>t, <1>1, <1>2, OneCall
<1>4. Issuing' = Issuing
    BY <1>1, <1>3 DEF Issuing
<1>5. AccountTypeOK'
    BY <1>t, <1>s, <1>3 DEF AccountTypeOK, CallType, SigningCall, ChangingCall, VaultingCall
<1>6. SigningInKnows'
    BY <1>t, <1>s, <1>1, <1>3 DEF SigningInKnows, Sits
<1>7. SessionsKnow'
    <2>1. \A d \in Calls : Sits(d, {"sign_out"}) => Sits(d, {"sign_out"})'
        BY <1>s, <1>3 DEF Sits
    <2> QED BY <1>t, <1>s, <2>1 DEF SessionsKnow
<1>8. VaultHolds'
    BY <1>t, <1>s, <1>1, <1>4 DEF VaultHolds
<1> QED BY <1>5, <1>6, <1>7, <1>8 DEF AccountInv

LEMMA StoreKeepsAccountInv == ASSUME AccountInv, NEW c \in Calls, Store(c) PROVE AccountInv'
<1>t. AccountTypeOK /\ SigningInKnows /\ SessionsKnow /\ VaultHolds
    BY DEF AccountInv
<1>s. /\ call[c].at = "store" /\ vault' = Append(vault, c)
      /\ call' = [call EXCEPT ![c] = Over]
      /\ UNCHANGED <<profile, sessions, links, crossed, sessionsOff, vaultOff>>
    BY DEF Store, Sits, Finishes
<1>0. call[c] \in VaultingCall /\ c \in Issuing
    BY <1>t, <1>s, CallAt, CallShapes DEF Sits, Issuing
<1>3. /\ call' \in [Calls -> CallType] /\ call'[c] = Over
      /\ \A d \in Calls \ {c} : call'[d] = call[d] /\ (d \in Issuing' <=> d \in Issuing)
      /\ c \notin Issuing'
    BY <1>t, <1>s, CallShapes, OneCall
<1>4. Issuing' = Issuing \ {c}
    BY <1>3 DEF Issuing
<1>5. AccountTypeOK'
    <2>1. vault' \in Seq(Passwords)
        BY <1>t, <1>s DEF AccountTypeOK, Passwords
    <2> QED BY <1>t, <1>s, <1>3, <2>1
        DEF AccountTypeOK, CallType, SigningCall, ChangingCall, VaultingCall
<1>6. SigningInKnows'
    BY <1>t, <1>s, <1>3, CallShapes DEF SigningInKnows, Sits
<1>7. SessionsKnow'
    <2>1. \A d \in Calls : Sits(d, {"sign_out"}) => Sits(d, {"sign_out"})'
        BY <1>s, <1>3 DEF Sits
    <2> QED BY <1>t, <1>s, <2>1 DEF SessionsKnow
<1>8. VaultHolds'
    <2> SUFFICES ASSUME ~ vaultOff PROVE Issuing' = {} /\ vault' = <<profile.password>>
        BY <1>s DEF VaultHolds
    <2>1. Issuing = {c} /\ profile.password = c /\ vault = <<>>
        BY <1>t, <1>s, <1>0 DEF VaultHolds, Sits
    <2> QED BY <1>4, <1>s, <2>1
<1> QED BY <1>5, <1>6, <1>7, <1>8 DEF AccountInv

\* What ends half way is remembered by what it leaves wrong.
LEMMA CallEndsKeepsAccountInv ==
    ASSUME AccountInv, NEW c \in Calls, CallEnds(c) PROVE AccountInv'
<1>t. AccountTypeOK /\ SigningInKnows /\ SessionsKnow /\ VaultHolds
    BY DEF AccountInv
<1>s. /\ call' = [call EXCEPT ![c] = Over]
      /\ sessionsOff' = (sessionsOff \/ Sits(c, {"sign_out"}))
      /\ vaultOff' = (vaultOff \/ c \in Issuing)
      /\ UNCHANGED <<profile, sessions, vault, links, crossed>>
    BY DEF CallEnds, Finishes
<1>3. /\ call' \in [Calls -> CallType] /\ call'[c] = Over
      /\ \A d \in Calls \ {c} : call'[d] = call[d] /\ (d \in Issuing' <=> d \in Issuing)
      /\ c \notin Issuing'
    BY <1>t, <1>s, CallShapes, OneCall
<1>5. AccountTypeOK'
    <2>1. sessionsOff' \in BOOLEAN /\ vaultOff' \in BOOLEAN
        BY <1>t, <1>s DEF AccountTypeOK, Sits
    <2> QED BY <1>t, <1>s, <1>3, <2>1
        DEF AccountTypeOK, CallType, SigningCall, ChangingCall, VaultingCall
<1>6. SigningInKnows'
    BY <1>t, <1>s, <1>3, CallShapes DEF SigningInKnows, Sits
<1>7. SessionsKnow'
    <2>1. \A d \in Calls \ {c} : Sits(d, {"sign_out"}) => Sits(d, {"sign_out"})'
        BY <1>3 DEF Sits
    <2> QED BY <1>t, <1>s, <2>1 DEF SessionsKnow
<1>8. VaultHolds'
    <2> SUFFICES ASSUME ~ vaultOff, c \notin Issuing PROVE VaultHolds'
        BY <1>s DEF VaultHolds
    <2>1. Issuing' = Issuing
        BY <1>3 DEF Issuing
    <2> QED BY <1>t, <1>s, <1>3, <2>1 DEF VaultHolds, Sits
<1> QED BY <1>5, <1>6, <1>7, <1>8 DEF AccountInv

\* A request that finds the vault not configured leaves the rows as one that ends does.
LEMMA VaultNotOpenIsAnEnd ==
    ASSUME AccountTypeOK, NEW c \in Calls, VaultNotOpen(c) PROVE CallEnds(c)
<1>1. /\ call[c].at = "supersede" /\ Finishes(c) /\ vaultOff' = TRUE
      /\ UNCHANGED <<profile, sessions, vault, links, crossed, sessionsOff>>
    BY DEF VaultNotOpen, Sits
<1>2. call[c].kind = "issue"
    BY <1>1 DEF AccountTypeOK, New, Over
<1>3. c \in Issuing /\ ~ Sits(c, {"new", "over"}) /\ ~ Sits(c, {"sign_out"})
    BY <1>1, <1>2 DEF Issuing, Sits
<1>4. sessionsOff' = (sessionsOff \/ Sits(c, {"sign_out"}))
    BY <1>1, <1>3 DEF AccountTypeOK
<1>5. vaultOff' = (vaultOff \/ c \in Issuing)
    BY <1>1, <1>3
<1> QED BY <1>1, <1>3, <1>4, <1>5 DEF CallEnds

LEMMA AccountInvInit == AccountInit => AccountInv
<1> SUFFICES ASSUME AccountInit PROVE AccountInv
    OBVIOUS
<1> USE DEF AccountInit
<1>1. profile.password = First /\ profile.legacy \in BOOLEAN
    OBVIOUS
<1>2. AccountTypeOK
    <2>1. profile \in [password: Passwords, legacy: BOOLEAN, role: {"admin", "staff"}]
        BY DEF Passwords
    <2>2. <<First>> \in Seq(Passwords) /\ <<>> \in Seq(Passwords)
        BY DEF Passwords
    <2>3. vault \in Seq(Passwords) /\ vaultOff \in BOOLEAN
        BY <1>1, <2>2
    <2> QED BY <2>1, <2>3 DEF AccountTypeOK
<1>3. \A c \in Calls : call[c].at = "new"
    BY CallShapes
<1>4. SigningInKnows /\ SessionsKnow
    BY <1>3 DEF SigningInKnows, SessionsKnow, Sits
<1>5. VaultHolds
    BY <1>1, <1>3 DEF VaultHolds, Issuing, Sits
<1> QED BY <1>2, <1>4, <1>5 DEF AccountInv

LEMMA AccountInvNext == AccountInv /\ [AccountNext]_accountVars => AccountInv'
<1> SUFFICES ASSUME AccountInv, [AccountNext]_accountVars PROVE AccountInv'
    OBVIOUS
<1>1. ASSUME NEW c \in Calls,
             \/ CheckPassword(c) \/ Rehash(c) \/ OpenSession(c)
             \/ (\E l \in Links : ClaimLink(c, l)) \/ StartIssue(c)
             \/ SetPassword(c) \/ EndSessions(c) \/ Supersede(c) \/ Store(c) \/ CallEnds(c)
      PROVE  AccountInv'
    BY <1>1, SignInKeepsAccountInv, RehashKeepsAccountInv, StartKeepsAccountInv,
       SetPasswordKeepsAccountInv, EndSessionsKeepsAccountInv, SupersedeKeepsAccountInv,
       StoreKeepsAccountInv, CallEndsKeepsAccountInv
<1>3. ASSUME NEW c \in Calls, VaultNotOpen(c) PROVE AccountInv'
    BY <1>3, VaultNotOpenIsAnEnd, CallEndsKeepsAccountInv DEF AccountInv
<1>2. CASE \/ \E s \in sessions : SignOut(s)
           \/ \E l \in Links : RequestLink(l) \/ LinkExpires(l)
           \/ ChangeRole
           \/ UNCHANGED accountVars
    BY <1>2, OthersKeepAccountInv
<1> QED BY <1>1, <1>2, <1>3 DEF AccountNext

\* The account's rows and requests stay well formed, however sign-ins, resets,
\* issues and changes of role overlap or end half way.
THEOREM AccountTypeCorrect == AccountSpec => []AccountTypeOK
<1>1. AccountInv => AccountTypeOK
    BY DEF AccountInv
<1> QED BY <1>1, AccountInvInit, AccountInvNext, PTL DEF AccountSpec

\* Once no change of the password is at work, every session knew the password of
\* now or crossed a change, and the vault holds that password alone, save for the
\* changes the property names: for any number of overlapping requests and links.
THEOREM PasswordsAlwaysAgree == AccountSpec => []PasswordsAgree
<1>1. AccountInv => PasswordsAgree
    <2> SUFFICES ASSUME AccountInv PROVE PasswordsAgree
        OBVIOUS
    <2>1. ~ vaultOff /\ Issuing = {} => vault = <<profile.password>>
        BY DEF AccountInv, VaultHolds
    <2>2. vault = <<profile.password>> => Revealed \in {<<>>, <<profile.password>>}
        BY DEF Revealed
    <2> QED BY <2>1, <2>2 DEF AccountInv, SessionsKnow, PasswordsAgree
<1> QED BY <1>1, AccountInvInit, AccountInvNext, PTL DEF AccountSpec

-----------------------------------------------------------------------------
(* Who manages an organisation, and who was let in.                         *)
-----------------------------------------------------------------------------
Authorised == [at: {"authorised"}, actor: Persons]
Changing == [at: {"change"}, target: Persons, new: Roles \cup {"gone"}, late: BOOLEAN]
Removing == [at: {"remove"}, target: Persons, all: BOOLEAN]
Approving ==
    [at: {"look", "create", "vault", "decide"}, ask: Asks \cup {NoOne},
     verdict: {"approved", "declined"}]
Recording == [at: {"record"}, ask: Asks \cup {NoOne}, as: Roles, verdict: {"approved"}]
HandlerType == {Resting} \cup Authorised \cup Changing \cup Removing \cup Approving \cup Recording

\* A change that nobody has overtaken leaves an admin, and is about a member.
ChangeLeavesAnAdmin ==
    \A h \in Handlers :
        handler[h].at = "change" /\ ~ handler[h].late =>
            /\ handler[h].target \in Members
            /\ role[handler[h].target] = "admin" /\ handler[h].new # "admin" =>
                  \E p \in Persons \ {handler[h].target} : role[p] = "admin"
ManagedOrExcused == AdminsNow = {} => orphaned \in {"overlap", "owner", "dropped"}

\* A handler at work on request k; one that approves it; one that has created the
\* account.
HandlingAt == {"look", "create", "record", "vault", "decide"}
Handles(x, k) == x.at \in HandlingAt /\ x.ask = k
Approves(x, k) == Handles(x, k) /\ x.verdict = "approved"
HasCreated(x, k) == Approves(x, k) /\ x.at \in {"record", "vault", "decide"}
\* Only a decision may decline, and it is about a request.
WellAsked(x) ==
    /\ x.at \in {"look", "create", "vault"} => x.verdict = "approved"
    /\ x.at = "decide" => x.ask \in Asks

DecisionsAreAsked == \A h \in Handlers : WellAsked(handler[h])
\* What is about to be inserted has no status, and what is being handled has one.
AskedBeforeHandled ==
    /\ \A k \in asking : ask[k] = "none"
    /\ \A h \in Handlers, k \in Asks : Handles(handler[h], k) => ask[k] # "none"
ApprovalStands ==
    \A h \in Handlers, k \in Asks :
        Approves(handler[h], k) => ask[k] \in {"pending", "approved"} \/ k \in declinedMeanwhile
CreatedBeforeApproved ==
    \A k \in Asks :
        ask[k] = "approved" \/ (\E h \in Handlers : HasCreated(handler[h], k)) => k \in createdFor
CreatedIsFollowed ==
    \A k \in createdFor :
        \/ ask[k] = "approved" \/ k \in halfway \cup declinedMeanwhile
        \/ \E h \in Handlers : HasCreated(handler[h], k)

AdminInv == ChangeLeavesAnAdmin /\ ManagedOrExcused
AskInv ==
    /\ DecisionsAreAsked /\ AskedBeforeHandled /\ ApprovalStands
    /\ CreatedBeforeApproved /\ CreatedIsFollowed
MemberInv == MemberTypeOK /\ AdminInv /\ AskInv

LEMMA HandlerShapes ==
    /\ Resting.at = "rest"
    /\ \A x \in Authorised : x.at = "authorised"
    /\ \A x \in Changing : x.at = "change"
    /\ \A x \in Removing : x.at = "remove"
    /\ \A x \in Approving : x.at \in {"look", "create", "vault", "decide"}
    /\ \A x \in Recording : x.at = "record" /\ x.verdict = "approved"
BY DEF Resting, Authorised, Changing, Removing, Approving, Recording

\* What a handler's record holds, by the step it is at.
LEMMA HandlerAt ==
    ASSUME MemberTypeOK, NEW h \in Handlers
    PROVE  /\ handler[h] \in HandlerType
           /\ handler[h].at = "authorised" => handler[h] \in Authorised
           /\ handler[h].at = "change" => handler[h] \in Changing
           /\ handler[h].at = "remove" => handler[h] \in Removing
           /\ handler[h].at \in {"look", "create", "vault", "decide"} => handler[h] \in Approving
           /\ handler[h].at = "record" => handler[h] \in Recording
<1>1. handler[h] \in HandlerType
    BY DEF MemberTypeOK, HandlerType, Authorised, Changing, Removing, Approving, Recording
<1> QED BY <1>1, HandlerShapes DEF HandlerType

\* One handler moves; a write of a role marks the other changes, no more.
LEMMA OneHandler ==
    ASSUME MemberTypeOK, NEW h \in Handlers, NEW new \in HandlerType,
           \/ handler' = [handler EXCEPT ![h] = new]
           \/ handler' = [Late(h) EXCEPT ![h] = new]
    PROVE  /\ handler' \in [Handlers -> HandlerType] /\ handler'[h] = new
           /\ \A g \in Handlers \ {h} :
                /\ handler'[g].at = handler[g].at
                /\ handler[g].at # "change" => handler'[g] = handler[g]
           /\ handler' = [handler EXCEPT ![h] = new] =>
                \A g \in Handlers \ {h} : handler'[g] = handler[g]
           /\ handler' = [Late(h) EXCEPT ![h] = new] =>
                \A g \in Handlers \ {h} : handler[g].at = "change" => handler'[g].late
<1>1. handler \in [Handlers -> HandlerType]
    BY HandlerAt DEF MemberTypeOK
<1>2. \A g \in Handlers \ {h} :
        /\ Late(h)[g] \in HandlerType
        /\ Late(h)[g].at = handler[g].at
        /\ handler[g].at # "change" => Late(h)[g] = handler[g]
        /\ handler[g].at = "change" => Late(h)[g].late
    <2> SUFFICES ASSUME NEW g \in Handlers \ {h}
                 PROVE  /\ Late(h)[g] \in HandlerType
                        /\ Late(h)[g].at = handler[g].at
                        /\ handler[g].at # "change" => Late(h)[g] = handler[g]
                        /\ handler[g].at = "change" => Late(h)[g].late
        OBVIOUS
    <2>1. CASE handler[g].at = "change"
        <3>1. handler[g] \in Changing /\ Late(h)[g] = [handler[g] EXCEPT !.late = TRUE]
            BY <2>1, HandlerAt DEF Late
        <3>2. Late(h)[g] \in Changing /\ Late(h)[g].late /\ Late(h)[g].at = "change"
            BY <3>1 DEF Changing
        <3> QED BY <2>1, <3>2 DEF HandlerType
    <2>2. CASE handler[g].at # "change"
        BY <1>1, <2>2 DEF Late
    <2> QED BY <2>1, <2>2
<1>3. Late(h) = [g \in Handlers |-> Late(h)[g]]
    BY DEF Late
<1>4. CASE handler' = [handler EXCEPT ![h] = new]
    <2>1. \A g \in Handlers \ {h} : handler'[g] = handler[g]
        BY <1>1, <1>4
    <2>2. handler' \in [Handlers -> HandlerType] /\ handler'[h] = new
        BY <1>1, <1>4
    <2>3. handler' = [Late(h) EXCEPT ![h] = new] =>
            \A g \in Handlers \ {h} : handler[g].at = "change" => handler'[g].late
        BY <1>2, <1>3
    <2> QED BY <2>1, <2>2, <2>3
<1>5. CASE handler' = [Late(h) EXCEPT ![h] = new]
    <2>1. \A g \in Handlers \ {h} : handler'[g] = Late(h)[g]
        BY <1>3, <1>5
    <2>2. handler'[h] = new
        BY <1>3, <1>5
    <2>3. handler' \in [Handlers -> HandlerType]
        BY <1>2, <1>3, <1>5, <2>1, <2>2
    <2>4. handler' = [handler EXCEPT ![h] = new] =>
            \A g \in Handlers \ {h} : handler'[g] = handler[g]
        BY <1>1
    <2> QED BY <1>2, <2>1, <2>2, <2>3, <2>4
<1> QED BY <1>4, <1>5

\* No role changes and the handler that moves is not left with a change.
LEMMA RolesStand ==
    ASSUME MemberTypeOK, AdminInv, NEW h \in Handlers, NEW new \in HandlerType,
           handler' = [handler EXCEPT ![h] = new], new.at # "change",
           UNCHANGED <<role, orphaned>>
    PROVE  AdminInv'
<1>1. /\ handler'[h] = new
      /\ \A g \in Handlers \ {h} : handler'[g] = handler[g]
    BY OneHandler
<1> QED BY <1>1 DEF AdminInv, ChangeLeavesAnAdmin, ManagedOrExcused, Members, AdminsNow

\* A role is written: all that counted the admins before is late by now.
LEMMA RolesWritten ==
    ASSUME MemberTypeOK, NEW h \in Handlers, NEW new \in HandlerType,
           handler' = [Late(h) EXCEPT ![h] = new], new.at # "change"
    PROVE  ChangeLeavesAnAdmin'
<1>1. /\ handler'[h] = new
      /\ \A g \in Handlers \ {h} : handler'[g].at = handler[g].at
                                   /\ (handler[g].at = "change" => handler'[g].late)
    BY OneHandler
<1> QED BY <1>1 DEF ChangeLeavesAnAdmin

\* A handler moves, and the requests for access stay as they are.
LEMMA AsksStand ==
    ASSUME MemberTypeOK, AskInv, NEW h \in Handlers, NEW new \in HandlerType,
           \/ handler' = [handler EXCEPT ![h] = new]
           \/ handler' = [Late(h) EXCEPT ![h] = new],
           UNCHANGED <<ask, asking, declinedMeanwhile>>,
           createdFor \subseteq createdFor', createdFor' \subseteq Asks, halfway \subseteq halfway',
           WellAsked(new),
           \A k \in Asks :
              /\ Handles(new, k) => ask[k] # "none"
              /\ Approves(new, k) => ask[k] \in {"pending", "approved"} \/ k \in declinedMeanwhile
              /\ HasCreated(new, k) => k \in createdFor'
              /\ HasCreated(handler[h], k) =>
                    HasCreated(new, k) \/ k \in halfway' \/ ask[k] = "approved"
              /\ k \in createdFor' \ createdFor => HasCreated(new, k)
    PROVE  AskInv'
<1>t. /\ DecisionsAreAsked /\ AskedBeforeHandled /\ ApprovalStands
      /\ CreatedBeforeApproved /\ CreatedIsFollowed
    BY DEF AskInv
<1>1. /\ handler'[h] = new
      /\ \A g \in Handlers \ {h} : /\ handler'[g].at = handler[g].at
                                   /\ handler[g].at # "change" => handler'[g] = handler[g]
    BY OneHandler
<1>2. \A g \in Handlers \ {h} :
        /\ WellAsked(handler'[g]) <=> WellAsked(handler[g])
        /\ \A k \in Asks : /\ Handles(handler'[g], k) <=> Handles(handler[g], k)
                           /\ Approves(handler'[g], k) <=> Approves(handler[g], k)
                           /\ HasCreated(handler'[g], k) <=> HasCreated(handler[g], k)
    BY <1>1 DEF WellAsked, Handles, Approves, HasCreated, HandlingAt
<1>3. DecisionsAreAsked'
    BY <1>t, <1>1, <1>2 DEF DecisionsAreAsked, WellAsked
<1>4. AskedBeforeHandled'
    BY <1>t, <1>1, <1>2 DEF AskedBeforeHandled, Handles
<1>5. ApprovalStands'
    BY <1>t, <1>1, <1>2 DEF ApprovalStands, Approves, Handles
<1>6. CreatedBeforeApproved'
    BY <1>t, <1>1, <1>2 DEF CreatedBeforeApproved, HasCreated, Approves, Handles
<1>7. CreatedIsFollowed'
    <2> SUFFICES ASSUME NEW k \in createdFor', ask[k] # "approved",
                        k \notin halfway' \cup declinedMeanwhile
                 PROVE  \E g \in Handlers : HasCreated(handler'[g], k)
        BY DEF CreatedIsFollowed, HasCreated, Approves, Handles
    <2>1. CASE k \notin createdFor
        BY <1>1, <2>1
    <2>2. CASE k \in createdFor
        <3>1. PICK g \in Handlers : HasCreated(handler[g], k)
            BY <1>t, <2>2 DEF CreatedIsFollowed
        <3>2. CASE g = h
            BY <1>1, <3>1, <3>2
        <3>3. CASE g # h
            BY <1>2, <3>1, <3>3
        <3> QED BY <3>2, <3>3
    <2> QED BY <2>1, <2>2
<1> QED BY <1>3, <1>4, <1>5, <1>6, <1>7 DEF AskInv

\* A handler that is at work on no request, before and after.
LEMMA NotAsking ==
    ASSUME NEW x, x.at \notin HandlingAt
    PROVE  /\ WellAsked(x)
           /\ \A k \in Asks : ~ Handles(x, k) /\ ~ Approves(x, k) /\ ~ HasCreated(x, k)
BY DEF WellAsked, Handles, Approves, HasCreated, HandlingAt

\* Those who ask, count or are about to be removed: nobody is written.
LEMMA QuietHandler ==
    ASSUME MemberInv, NEW h \in Handlers, NEW new \in HandlerType,
           handler' = [handler EXCEPT ![h] = new],
           handler[h].at \notin HandlingAt, new.at \notin HandlingAt \cup {"change"},
           handled' \in 0..MaxHandled,
           UNCHANGED <<role, ask, asking, createdFor, orphaned, halfway, declinedMeanwhile>>
    PROVE  MemberInv'
<1>t. MemberTypeOK /\ AdminInv /\ AskInv
    BY DEF MemberInv
<1>1. handler' \in [Handlers -> HandlerType]
    BY <1>t, OneHandler
<1>2. MemberTypeOK'
    BY <1>t, <1>1 DEF MemberTypeOK, HandlerType, Authorised, Changing, Removing, Approving,
        Recording
<1>3. AdminInv'
    BY <1>t, RolesStand
<1>4. AskInv'
    <2>1. createdFor \subseteq Asks
        BY <1>t DEF MemberTypeOK
    <2> QED BY <1>t, <2>1, NotAsking, AsksStand
<1> QED BY <1>2, <1>3, <1>4 DEF MemberInv

LEMMA AuthoriseKeepsMemberInv ==
    ASSUME MemberInv, NEW h \in Handlers, NEW p \in Persons,
           Authorise(h, p) \/ CheckRemoval(h, p)
    PROVE  MemberInv'
<1>1. PICK new \in HandlerType :
          /\ Starts(h, new) /\ new.at \in {"authorised", "remove"}
    <2>1. CASE Authorise(h, p)
        <3>1. [at |-> "authorised", actor |-> p] \in HandlerType
            BY DEF HandlerType, Authorised
        <3> QED BY <2>1, <3>1 DEF Authorise
    <2>2. CASE CheckRemoval(h, p)
        <3>1. [at |-> "remove", target |-> p, all |-> Members = {p}] \in HandlerType
            BY DEF HandlerType, Removing
        <3> QED BY <2>2, <3>1 DEF CheckRemoval
    <2> QED BY <2>1, <2>2
<1>2. /\ handler' = [handler EXCEPT ![h] = new] /\ handler[h].at = "rest"
      /\ handled' \in 0..MaxHandled
    BY <1>1, HandlerShapes, MembershipAssumption DEF Starts, MemberInv, MemberTypeOK
<1>3. UNCHANGED <<role, ask, asking, createdFor, orphaned, halfway, declinedMeanwhile>>
    BY DEF Authorise, CheckRemoval
<1> QED BY <1>1, <1>2, <1>3, QuietHandler DEF HandlingAt

\* More than one admin: another than the one who is about to change.
LEMMA MoreThanOneAdmin ==
    ASSUME NEW t, Cardinality(AdminsNow) > 1
    PROVE  \E p \in AdminsNow : p # t
<1>1. Cardinality({}) = 0 /\ Cardinality({t}) = 1
    BY FS_EmptySet, FS_Singleton
<1>2. AdminsNow # {} /\ AdminsNow # {t}
    BY <1>1
<1> QED BY <1>2

LEMMA CheckChangeKeepsMemberInv ==
    ASSUME MemberInv, NEW h \in Handlers, NEW t \in Persons, NEW n \in Roles \cup {"gone"},
           CheckChange(h, t, n)
    PROVE  MemberInv'
<1>t. MemberTypeOK /\ AdminInv /\ AskInv
    BY DEF MemberInv
<1> DEFINE new == [at |-> "change", target |-> t, new |-> n, late |-> FALSE]
<1>s. /\ handler[h].at = "authorised" /\ t \in Members /\ NotTheLast(t, n)
      /\ handler' = [handler EXCEPT ![h] = new]
      /\ UNCHANGED <<handled, role, ask, asking, createdFor, orphaned, halfway,
                     declinedMeanwhile>>
    BY DEF CheckChange
<1>1. new \in HandlerType /\ new.at = "change" /\ new.target = t /\ new.new = n
    BY DEF HandlerType, Changing
<1> HIDE DEF new
<1>2. /\ handler' \in [Handlers -> HandlerType] /\ handler'[h] = new
      /\ \A g \in Handlers \ {h} : handler'[g] = handler[g]
    BY <1>t, <1>s, <1>1, OneHandler
<1>3. MemberTypeOK'
    BY <1>t, <1>s, <1>2 DEF MemberTypeOK, HandlerType, Authorised, Changing, Removing,
        Approving, Recording
<1>4. role[t] = "admin" /\ n # "admin" => \E p \in Persons \ {t} : role[p] = "admin"
    BY <1>s, MoreThanOneAdmin DEF NotTheLast, AdminsNow
<1>5. AdminInv'
    BY <1>t, <1>s, <1>1, <1>2, <1>4
        DEF AdminInv, ChangeLeavesAnAdmin, ManagedOrExcused, Members, AdminsNow
<1>6. AskInv'
    <2>1. createdFor \subseteq Asks
        BY <1>t DEF MemberTypeOK
    <2>2. handler[h].at \notin HandlingAt /\ new.at \notin HandlingAt
        BY <1>s, <1>1 DEF HandlingAt
    <2> QED BY <1>t, <1>s, <1>1, <2>1, <2>2, NotAsking, AsksStand
<1> QED BY <1>3, <1>5, <1>6 DEF MemberInv

\* The two writes of a role that a person asked for.
LEMMA WriteChangeKeepsMemberInv ==
    ASSUME MemberInv, NEW h \in Handlers, WriteChange(h) PROVE MemberInv'
<1>t. MemberTypeOK /\ AdminInv /\ AskInv
    BY DEF MemberInv
<1> DEFINE c == handler[h]
           next == IF c.target \in Members THEN [role EXCEPT ![c.target] = c.new] ELSE role
<1>s. /\ c.at = "change" /\ role' = next
      /\ orphaned' = IF \E p \in Persons : next[p] = "admin" THEN "no"
                     ELSE IF AdminsNow = {} THEN orphaned
                     ELSE IF c.late THEN "overlap" ELSE "guarded"
      /\ handler' = [Late(h) EXCEPT ![h] = Resting]
      /\ UNCHANGED <<handled, ask, asking, createdFor, halfway, declinedMeanwhile>>
    BY DEF WriteChange
<1>0. c \in Changing
    BY <1>t, <1>s, HandlerAt
<1>1. next \in [Persons -> Roles \cup {"none", "gone"}]
    BY <1>t, <1>0 DEF MemberTypeOK, Changing
<1>2. handler' \in [Handlers -> HandlerType]
    BY <1>t, <1>s, OneHandler DEF HandlerType
<1>3. orphaned' \in {"no", "overlap", "guarded", "owner", "dropped"}
    BY <1>t, <1>s DEF MemberTypeOK
<1>4. MemberTypeOK'
    BY <1>t, <1>s, <1>1, <1>2, <1>3 DEF MemberTypeOK, HandlerType, Authorised, Changing,
        Removing, Approving, Recording
<1>5. ChangeLeavesAnAdmin'
    BY <1>t, <1>s, RolesWritten, HandlerShapes DEF HandlerType
<1>6. ManagedOrExcused'
    <2> SUFFICES ASSUME ~ \E p \in Persons : next[p] = "admin"
                 PROVE  orphaned' \in {"overlap", "owner", "dropped"}
        BY <1>s DEF ManagedOrExcused, AdminsNow
    <2>1. CASE AdminsNow = {}
        BY <1>t, <1>s, <2>1 DEF AdminInv, ManagedOrExcused
    <2>2. CASE AdminsNow # {} /\ c.late
        BY <1>s, <2>2
    <2>3. CASE AdminsNow # {} /\ ~ c.late
        <3>1. /\ c.target \in Members
              /\ role[c.target] = "admin" /\ c.new # "admin" =>
                    \E p \in Persons \ {c.target} : role[p] = "admin"
            BY <1>t, <1>s, <2>3 DEF AdminInv, ChangeLeavesAnAdmin
        <3>2. /\ next[c.target] = c.new
              /\ \A p \in Persons \ {c.target} : next[p] = role[p]
            BY <1>t, <3>1 DEF MemberTypeOK, Members
        <3>3. c.new # "admin" /\ ~ \E p \in Persons \ {c.target} : role[p] = "admin"
            BY <3>1, <3>2 DEF Members
        <3> QED BY <2>3, <3>1, <3>3 DEF AdminsNow
    <2> QED BY <2>1, <2>2, <2>3
<1>7. AskInv'
    <2>1. createdFor \subseteq Asks
        BY <1>t DEF MemberTypeOK
    <2>2. c.at \notin HandlingAt /\ Resting.at \notin HandlingAt /\ Resting \in HandlerType
        BY <1>s, HandlerShapes DEF HandlingAt, HandlerType
    <2> QED BY <1>t, <1>s, <2>1, <2>2, NotAsking, AsksStand
<1> QED BY <1>4, <1>5, <1>6, <1>7 DEF MemberInv, AdminInv

LEMMA WriteRemovalKeepsMemberInv ==
    ASSUME MemberInv, NEW h \in Handlers, WriteRemoval(h) PROVE MemberInv'
<1>t. MemberTypeOK /\ AdminInv /\ AskInv
    BY DEF MemberInv
<1> DEFINE gone == IF handler[h].all THEN Members ELSE Members \cap {handler[h].target}
<1>s. /\ handler[h].at = "remove"
      /\ role' = [p \in Persons |-> IF p \in gone THEN "gone" ELSE role[p]]
      /\ orphaned' = IF handler[h].all THEN "dropped"
                     ELSE IF AdminsNow # {} /\ AdminsNow \subseteq gone THEN "owner"
                     ELSE orphaned
      /\ handler' = [Late(h) EXCEPT ![h] = Resting]
      /\ UNCHANGED <<handled, ask, asking, createdFor, halfway, declinedMeanwhile>>
    BY DEF WriteRemoval
<1>1. role' \in [Persons -> Roles \cup {"none", "gone"}]
    BY <1>t, <1>s DEF MemberTypeOK
<1>2. handler' \in [Handlers -> HandlerType]
    BY <1>t, <1>s, OneHandler DEF HandlerType
<1>3. orphaned' \in {"no", "overlap", "guarded", "owner", "dropped"}
    BY <1>t, <1>s DEF MemberTypeOK
<1>4. MemberTypeOK'
    BY <1>t, <1>s, <1>1, <1>2, <1>3 DEF MemberTypeOK, HandlerType, Authorised, Changing,
        Removing, Approving, Recording
<1>5. ChangeLeavesAnAdmin'
    BY <1>t, <1>s, RolesWritten, HandlerShapes DEF HandlerType
<1>6. ManagedOrExcused'
    <2> SUFFICES ASSUME AdminsNow' = {}
                 PROVE  orphaned' \in {"overlap", "owner", "dropped"}
        BY DEF ManagedOrExcused
    <2>1. AdminsNow \subseteq gone
        BY <1>s DEF AdminsNow
    <2> HIDE DEF gone
    <2> QED BY <1>t, <1>s, <2>1 DEF AdminInv, ManagedOrExcused
<1>7. AskInv'
    <2>1. createdFor \subseteq Asks
        BY <1>t DEF MemberTypeOK
    <2>2. handler[h].at \notin HandlingAt /\ Resting.at \notin HandlingAt /\ Resting \in HandlerType
        BY <1>s, HandlerShapes DEF HandlingAt, HandlerType
    <2> QED BY <1>t, <1>s, <2>1, <2>2, NotAsking, AsksStand
<1> QED BY <1>4, <1>5, <1>6, <1>7 DEF MemberInv, AdminInv

-----------------------------------------------------------------------------
\* A person is let in: the steps of an approval.
LEMMA CheckRequestKeepsMemberInv ==
    ASSUME MemberInv, NEW h \in Handlers, NEW p \in Persons, NEW k \in Asks \cup {NoOne},
           NEW v \in {"approved", "declined"}, CheckRequest(h, p, k, v)
    PROVE  MemberInv'
<1>t. MemberTypeOK /\ AdminInv /\ AskInv
    BY DEF MemberInv
<1> DEFINE new == [at |-> IF v = "approved" THEN "look" ELSE "decide", ask |-> k, verdict |-> v]
<1>s. /\ IF k = NoOne THEN v = "approved" ELSE ask[k] = "pending"
      /\ handler[h] = Resting /\ handled < MaxHandled /\ handled' = handled + 1
      /\ handler' = [handler EXCEPT ![h] = new]
      /\ UNCHANGED <<role, ask, asking, createdFor, orphaned, halfway, declinedMeanwhile>>
    BY DEF CheckRequest, Starts
<1>1. new \in Approving /\ new.ask = k /\ new.verdict = v
    BY DEF Approving
<1>2. new.at \in {"look", "decide"} /\ (new.at = "look" <=> v = "approved")
    OBVIOUS
<1> HIDE DEF new
<1>3. new \in HandlerType
    BY <1>1 DEF HandlerType
<1>4. handler' \in [Handlers -> HandlerType]
    BY <1>t, <1>s, <1>3, OneHandler
<1>5. handled' \in 0..MaxHandled
    BY <1>t, <1>s, MembershipAssumption DEF MemberTypeOK
<1>6. MemberTypeOK'
    BY <1>t, <1>s, <1>4, <1>5 DEF MemberTypeOK, HandlerType, Authorised, Changing, Removing,
        Approving, Recording
<1>7. AdminInv'
    BY <1>t, <1>s, <1>2, <1>3, RolesStand
<1>8. AskInv'
    <2>1. WellAsked(new)
        BY <1>s, <1>1, <1>2 DEF WellAsked
    <2>2. \A j \in Asks : Handles(new, j) => ask[j] = "pending"
        BY <1>s, <1>1, MembershipAssumption DEF Handles
    <2>3. \A j \in Asks : ~ HasCreated(new, j) /\ ~ HasCreated(handler[h], j)
        BY <1>s, <1>1, <1>2, HandlerShapes DEF HasCreated, Approves
    <2>4. createdFor \subseteq Asks
        BY <1>t DEF MemberTypeOK
    <2> QED BY <1>t, <1>s, <1>3, <2>1, <2>2, <2>3, <2>4, AsksStand DEF Approves
<1> QED BY <1>6, <1>7, <1>8 DEF MemberInv

\* A handler that approves moves on, or rests before it has created an account.
LEMMA LookKeepsMemberInv ==
    ASSUME MemberInv, NEW h \in Handlers, LookForAccount(h) PROVE MemberInv'
<1>t. MemberTypeOK /\ AdminInv /\ AskInv
    BY DEF MemberInv
<1> DEFINE new == [handler[h] EXCEPT !.at = "create"]
<1>s. /\ handler[h].at = "look"
      /\ IF Newcomer \notin Members THEN handler' = [handler EXCEPT ![h].at = "create"]
                                    ELSE handler' = [handler EXCEPT ![h] = Resting]
      /\ UNCHANGED <<handled, role, ask, asking, createdFor, orphaned, halfway,
                     declinedMeanwhile>>
    BY DEF LookForAccount, Rests
<1>0. handler[h] \in Approving /\ handler[h].verdict = "approved"
    BY <1>t, <1>s, HandlerAt DEF AskInv, DecisionsAreAsked, WellAsked
<1>1. /\ new \in Approving /\ new.at = "create" /\ new.ask = handler[h].ask
      /\ new.verdict = "approved"
    BY <1>0 DEF Approving
<1>2. \/ handler' = [handler EXCEPT ![h] = new]
      \/ handler' = [handler EXCEPT ![h] = Resting]
    BY <1>t, <1>s DEF MemberTypeOK
<1> HIDE DEF new
<1>3. PICK x \in {new, Resting} : handler' = [handler EXCEPT ![h] = x]
    BY <1>2
<1>4. x \in HandlerType /\ x.at \in {"create", "rest"} /\ WellAsked(x)
    BY <1>1, HandlerShapes DEF HandlerType, WellAsked
<1>5. handler' \in [Handlers -> HandlerType]
    BY <1>t, <1>3, <1>4, OneHandler
<1>6. MemberTypeOK'
    BY <1>t, <1>s, <1>5 DEF MemberTypeOK, HandlerType, Authorised, Changing, Removing,
        Approving, Recording
<1>7. AdminInv'
    BY <1>t, <1>s, <1>3, <1>4, RolesStand
<1>8. AskInv'
    <2>1. \A k \in Asks : /\ Handles(x, k) => Handles(handler[h], k) /\ Approves(handler[h], k)
                          /\ ~ HasCreated(x, k) /\ ~ HasCreated(handler[h], k)
        BY <1>s, <1>0, <1>1, <1>4, HandlerShapes DEF Handles, Approves, HasCreated, HandlingAt
    <2>2. \A k \in Asks :
            /\ Handles(x, k) => ask[k] # "none"
            /\ Approves(x, k) => ask[k] \in {"pending", "approved"} \/ k \in declinedMeanwhile
        BY <1>t, <2>1 DEF AskInv, AskedBeforeHandled, ApprovalStands, Approves
    <2>3. createdFor \subseteq Asks
        BY <1>t DEF MemberTypeOK
    <2> QED BY <1>t, <1>s, <1>3, <1>4, <2>1, <2>2, <2>3, AsksStand
<1> QED BY <1>6, <1>7, <1>8 DEF MemberInv

LEMMA CreateAccountKeepsMemberInv ==
    ASSUME MemberInv, NEW h \in Handlers, NEW as \in Roles, CreateAccount(h, as)
    PROVE  MemberInv'
<1>t. MemberTypeOK /\ AdminInv /\ AskInv
    BY DEF MemberInv
<1>s. /\ handler[h].at = "create"
      /\ UNCHANGED <<handled, ask, asking, halfway, declinedMeanwhile>>
    BY DEF CreateAccount
<1>0. handler[h] \in Approving /\ handler[h].verdict = "approved"
    BY <1>t, <1>s, HandlerAt DEF AskInv, DecisionsAreAsked, WellAsked
<1>f. createdFor \subseteq Asks
    BY <1>t DEF MemberTypeOK
<1>1. CASE Newcomer \notin Members /\ orphaned # "dropped"
    <2> DEFINE new == [at |-> "record", ask |-> handler[h].ask, as |-> as, verdict |-> "approved"]
    <2>1. /\ role' = [role EXCEPT ![Newcomer] = as]
          /\ createdFor' = createdFor \cup ({handler[h].ask} \cap Asks)
          /\ orphaned' = IF as = "admin" THEN "no" ELSE orphaned
          /\ handler' = [handler EXCEPT ![h] = new]
        BY <1>1 DEF CreateAccount
    <2>2. /\ new \in HandlerType /\ new.at = "record" /\ new.ask = handler[h].ask
          /\ new.verdict = "approved"
        BY <1>0 DEF HandlerType, Recording, Approving
    <2> HIDE DEF new
    <2>3. /\ handler' \in [Handlers -> HandlerType] /\ handler'[h] = new
          /\ \A g \in Handlers \ {h} : handler'[g] = handler[g]
        BY <1>t, <2>1, <2>2, OneHandler
    <2>4. MemberTypeOK'
        <3>1. Newcomer \in Persons /\ role' \in [Persons -> Roles \cup {"none", "gone"}]
            BY <1>t, <2>1 DEF MemberTypeOK, Persons
        <3> QED BY <1>t, <1>s, <2>1, <2>3, <3>1 DEF MemberTypeOK, HandlerType, Authorised,
                Changing, Removing, Approving, Recording
    <2>5. /\ role'[Newcomer] = as /\ Newcomer \in Persons
          /\ \A p \in Persons \ {Newcomer} : role'[p] = role[p]
        BY <1>t, <2>1 DEF MemberTypeOK, Persons
    <2>6. role[Newcomer] # "admin"
        BY <1>1, <2>5 DEF Members, Roles
    <2>7. ChangeLeavesAnAdmin'
        <3> SUFFICES ASSUME NEW g \in Handlers, handler'[g].at = "change", ~ handler'[g].late
                     PROVE  /\ handler'[g].target \in Members'
                            /\ role'[handler'[g].target] = "admin" /\ handler'[g].new # "admin" =>
                                 \E p \in Persons \ {handler'[g].target} : role'[p] = "admin"
            BY DEF ChangeLeavesAnAdmin
        <3>1. g # h /\ handler'[g] = handler[g]
            BY <2>2, <2>3
        <3>2. /\ handler[g].target \in Members
              /\ role[handler[g].target] = "admin" /\ handler[g].new # "admin" =>
                    \E p \in Persons \ {handler[g].target} : role[p] = "admin"
            BY <1>t, <3>1 DEF AdminInv, ChangeLeavesAnAdmin
        <3>3. handler[g].target # Newcomer
            BY <1>1, <3>2
        <3>4. \A p \in Persons : role[p] = "admin" => role'[p] = "admin"
            BY <2>5, <2>6
        <3> QED BY <2>5, <3>1, <3>2, <3>3, <3>4 DEF Members
    <2>8. ManagedOrExcused'
        <3>1. \A p \in Persons : role[p] = "admin" => role'[p] = "admin"
            BY <2>5, <2>6
        <3> QED BY <1>t, <2>1, <2>5, <3>1 DEF AdminInv, ManagedOrExcused, AdminsNow
    <2>9. AskInv'
        <3>1. \A k \in Asks :
                /\ ~ HasCreated(handler[h], k)
                /\ Handles(new, k) <=> handler[h].ask = k
                /\ HasCreated(new, k) <=> handler[h].ask = k
                /\ Handles(handler[h], k) <=> handler[h].ask = k
                /\ Approves(handler[h], k) <=> handler[h].ask = k
            BY <1>s, <1>0, <2>2 DEF HasCreated, Approves, Handles, HandlingAt
        <3>2. \A k \in Asks :
                handler[h].ask = k =>
                    /\ ask[k] # "none"
                    /\ ask[k] \in {"pending", "approved"} \/ k \in declinedMeanwhile
            BY <1>t, <3>1 DEF AskInv, AskedBeforeHandled, ApprovalStands
        <3>3. WellAsked(new)
            BY <2>2 DEF WellAsked
        <3>4. \A k \in Asks :
                /\ k \in createdFor' \ createdFor => HasCreated(new, k)
                /\ HasCreated(new, k) => k \in createdFor'
            BY <2>1, <3>1
        <3>5. /\ createdFor \subseteq createdFor' /\ createdFor' \subseteq Asks
              /\ \A k \in Asks : Handles(new, k) => ask[k] # "none"
              /\ \A k \in Asks : Approves(new, k) =>
                    ask[k] \in {"pending", "approved"} \/ k \in declinedMeanwhile
            BY <1>f, <2>1, <3>1, <3>2 DEF Approves
        <3> QED BY <1>t, <1>s, <2>1, <2>2, <3>1, <3>3, <3>4, <3>5, AsksStand
    <2> QED BY <2>4, <2>7, <2>8, <2>9 DEF MemberInv, AdminInv
<1>2. CASE ~ (Newcomer \notin Members /\ orphaned # "dropped")
    <2>1. /\ handler' = [handler EXCEPT ![h] = Resting]
          /\ UNCHANGED <<role, createdFor, orphaned>>
        BY <1>2 DEF CreateAccount, Rests
    <2>2. Resting \in HandlerType /\ Resting.at = "rest"
        BY HandlerShapes DEF HandlerType
    <2>3. handler' \in [Handlers -> HandlerType]
        BY <1>t, <2>1, <2>2, OneHandler
    <2>4. MemberTypeOK'
        BY <1>t, <1>s, <2>1, <2>3 DEF MemberTypeOK, HandlerType, Authorised, Changing, Removing,
            Approving, Recording
    <2>5. AdminInv'
        BY <1>t, <2>1, <2>2, RolesStand
    <2>6. \A k \in Asks : ~ HasCreated(handler[h], k)
        BY <1>s DEF HasCreated
    <2>7. AskInv'
        <3>1. Resting.at \notin HandlingAt
            BY <2>2 DEF HandlingAt
        <3> QED BY <1>t, <1>s, <1>f, <2>1, <2>2, <2>6, <3>1, NotAsking, AsksStand
    <2> QED BY <2>4, <2>5, <2>7 DEF MemberInv
<1> QED BY <1>1, <1>2

LEMMA RecordAccountKeepsMemberInv ==
    ASSUME MemberInv, NEW h \in Handlers, RecordAccount(h) PROVE MemberInv'
<1>t. MemberTypeOK /\ AdminInv /\ AskInv
    BY DEF MemberInv
<1> DEFINE new == [at |-> "vault", ask |-> handler[h].ask, verdict |-> "approved"]
<1>s. /\ handler[h].at = "record"
      /\ \/ /\ role' = [role EXCEPT ![Newcomer] = handler[h].as]
            /\ orphaned' = IF handler[h].as = "admin" THEN "no"
                           ELSE IF AdminsNow = {Newcomer} THEN "overlap" ELSE orphaned
            /\ handler' = [Late(h) EXCEPT ![h] = new]
         \/ handler' = [handler EXCEPT ![h] = new] /\ UNCHANGED <<role, orphaned>>
      /\ UNCHANGED <<handled, ask, asking, createdFor, halfway, declinedMeanwhile>>
    BY DEF RecordAccount
<1>0. /\ handler[h].as \in Roles /\ handler[h].ask \in Asks \cup {NoOne}
      /\ handler[h].verdict = "approved"
    BY <1>t, <1>s, HandlerAt DEF Recording
<1>1. /\ new \in HandlerType /\ new.at = "vault" /\ new.ask = handler[h].ask
      /\ new.verdict = "approved"
    BY <1>0 DEF HandlerType, Approving
<1> HIDE DEF new
<1>2. handler' \in [Handlers -> HandlerType]
    BY <1>t, <1>s, <1>1, OneHandler
<1>3. MemberTypeOK'
    <2>1. role' \in [Persons -> Roles \cup {"none", "gone"}]
        BY <1>t, <1>s, <1>0 DEF MemberTypeOK
    <2> QED BY <1>t, <1>s, <1>2, <2>1 DEF MemberTypeOK, HandlerType, Authorised, Changing,
            Removing, Approving, Recording
<1>4. AdminInv'
    <2>1. CASE handler' = [handler EXCEPT ![h] = new] /\ UNCHANGED <<role, orphaned>>
        BY <1>t, <1>1, <2>1, RolesStand
    <2>2. CASE /\ role' = [role EXCEPT ![Newcomer] = handler[h].as]
               /\ orphaned' = IF handler[h].as = "admin" THEN "no"
                              ELSE IF AdminsNow = {Newcomer} THEN "overlap" ELSE orphaned
               /\ handler' = [Late(h) EXCEPT ![h] = new]
        <3>1. ChangeLeavesAnAdmin'
            BY <1>t, <1>1, <2>2, RolesWritten
        <3>2. /\ Newcomer \in Persons /\ role'[Newcomer] = handler[h].as
              /\ \A p \in Persons \ {Newcomer} : role'[p] = role[p]
            BY <1>t, <2>2 DEF MemberTypeOK, Persons
        <3>3. AdminsNow' = {} => AdminsNow \subseteq {Newcomer} /\ handler[h].as # "admin"
            BY <3>2 DEF AdminsNow
        <3>4. ManagedOrExcused'
            BY <1>t, <2>2, <3>3 DEF AdminInv, ManagedOrExcused
        <3> QED BY <3>1, <3>4 DEF AdminInv
    <2> QED BY <1>s, <2>1, <2>2
<1>5. AskInv'
    <2>1. \A k \in Asks :
            /\ Handles(new, k) <=> Handles(handler[h], k)
            /\ Approves(new, k) <=> Approves(handler[h], k)
            /\ HasCreated(new, k) <=> HasCreated(handler[h], k)
        BY <1>s, <1>0, <1>1 DEF Handles, Approves, HasCreated, HandlingAt
    <2>2. \A k \in Asks :
            /\ Handles(new, k) => ask[k] # "none"
            /\ Approves(new, k) => ask[k] \in {"pending", "approved"} \/ k \in declinedMeanwhile
            /\ HasCreated(new, k) => k \in createdFor
        BY <1>t, <2>1 DEF AskInv, AskedBeforeHandled, ApprovalStands, CreatedBeforeApproved
    <2>3. WellAsked(new) /\ createdFor \subseteq Asks
        BY <1>t, <1>1 DEF WellAsked, MemberTypeOK
    <2> QED BY <1>t, <1>s, <1>1, <2>1, <2>2, <2>3, AsksStand
<1> QED BY <1>3, <1>4, <1>5 DEF MemberInv

LEMMA VaultAndSendKeepsMemberInv ==
    ASSUME MemberInv, NEW h \in Handlers, VaultAndSend(h) PROVE MemberInv'
<1>t. MemberTypeOK /\ AdminInv /\ AskInv
    BY DEF MemberInv
<1> DEFINE new == [handler[h] EXCEPT !.at = "decide"]
<1>s. /\ handler[h].at = "vault"
      /\ IF handler[h].ask = NoOne THEN handler' = [handler EXCEPT ![h] = Resting]
                                   ELSE handler' = [handler EXCEPT ![h].at = "decide"]
      /\ UNCHANGED <<handled, role, ask, asking, createdFor, orphaned, halfway,
                     declinedMeanwhile>>
    BY DEF VaultAndSend, Rests
<1>0. handler[h] \in Approving /\ handler[h].verdict = "approved"
    BY <1>t, <1>s, HandlerAt DEF AskInv, DecisionsAreAsked, WellAsked
<1>1. /\ new \in Approving /\ new.at = "decide" /\ new.ask = handler[h].ask
      /\ new.verdict = "approved"
    BY <1>0 DEF Approving
<1>2. PICK x \in {new, Resting} :
          /\ handler' = [handler EXCEPT ![h] = x]
          /\ x = Resting <=> handler[h].ask = NoOne
    <2>1. new # Resting
        BY <1>1, HandlerShapes
    <2>2. CASE handler[h].ask = NoOne
        BY <1>s, <2>2
    <2>3. CASE handler[h].ask # NoOne
        <3>1. handler' = [handler EXCEPT ![h] = new]
            BY <1>t, <1>s, <2>3 DEF MemberTypeOK
        <3> QED BY <2>1, <2>3, <3>1
    <2> QED BY <2>2, <2>3
<1> HIDE DEF new
<1>3. /\ x \in HandlerType /\ x.at \in {"decide", "rest"}
      /\ x = new \/ handler[h].ask = NoOne
    BY <1>1, <1>2, HandlerShapes DEF HandlerType
<1>4. handler' \in [Handlers -> HandlerType]
    BY <1>t, <1>2, <1>3, OneHandler
<1>5. MemberTypeOK'
    BY <1>t, <1>s, <1>4 DEF MemberTypeOK, HandlerType, Authorised, Changing, Removing,
        Approving, Recording
<1>6. AdminInv'
    BY <1>t, <1>s, <1>2, <1>3, RolesStand
<1>7. AskInv'
    <2>1. \A k \in Asks :
            /\ Handles(x, k) => Handles(handler[h], k)
            /\ Approves(x, k) => Approves(handler[h], k)
            /\ HasCreated(x, k) <=> HasCreated(handler[h], k)
        BY <1>s, <1>0, <1>1, <1>2, <1>3, HandlerShapes, MembershipAssumption
            DEF Handles, Approves, HasCreated, HandlingAt
    <2>2. \A k \in Asks :
            /\ Handles(x, k) => ask[k] # "none"
            /\ Approves(x, k) => ask[k] \in {"pending", "approved"} \/ k \in declinedMeanwhile
            /\ HasCreated(x, k) => k \in createdFor
        BY <1>t, <2>1 DEF AskInv, AskedBeforeHandled, ApprovalStands, CreatedBeforeApproved
    <2>3. WellAsked(x) /\ createdFor \subseteq Asks
        BY <1>t, <1>0, <1>1, <1>2, HandlerShapes DEF WellAsked, MemberTypeOK, Approving
    <2> QED BY <1>t, <1>s, <1>2, <1>3, <2>1, <2>2, <2>3, AsksStand
<1> QED BY <1>5, <1>6, <1>7 DEF MemberInv

\* decideAccessRequest writes a pending request only; a decline under an approval
\* that is at work is remembered.
LEMMA DecideKeepsMemberInv ==
    ASSUME MemberInv, NEW h \in Handlers, Decide(h) PROVE MemberInv'
<1>t. /\ MemberTypeOK /\ AdminInv /\ AskInv
      /\ DecisionsAreAsked /\ AskedBeforeHandled /\ ApprovalStands
      /\ CreatedBeforeApproved /\ CreatedIsFollowed
    BY DEF MemberInv, AskInv
<1>s. /\ handler[h].at = "decide"
      /\ handler' = [handler EXCEPT ![h] = Resting]
      /\ UNCHANGED <<handled, role, asking, createdFor, orphaned, halfway>>
    BY DEF Decide, Rests
<1>0. handler[h] \in Approving /\ handler[h].ask \in Asks
    BY <1>t, <1>s, HandlerAt DEF DecisionsAreAsked, WellAsked
<1>1. PICK k \in Asks : k = handler[h].ask
    BY <1>0
<1>2. PICK v \in {"approved", "declined"} : v = handler[h].verdict
    BY <1>0 DEF Approving
<1>3. /\ ask' = IF ask[k] = "pending" THEN [ask EXCEPT ![k] = v] ELSE ask
      /\ declinedMeanwhile \subseteq declinedMeanwhile'
      /\ declinedMeanwhile' \subseteq declinedMeanwhile \cup {k}
      /\ v = "declined" /\ ask[k] = "pending"
            /\ (\E g \in Handlers \ {h} : Handles(handler[g], k)) => k \in declinedMeanwhile'
    BY <1>1, <1>2 DEF Decide, MayDecide, Handles, HandlingAt
<1>4. /\ handler' \in [Handlers -> HandlerType] /\ handler'[h] = Resting
      /\ \A g \in Handlers \ {h} : handler'[g] = handler[g]
    BY <1>t, <1>s, OneHandler DEF HandlerType
<1>5. MemberTypeOK'
    BY <1>t, <1>s, <1>3, <1>4 DEF MemberTypeOK, HandlerType, Authorised, Changing, Removing,
        Approving, Recording
<1>6. AdminInv'
    BY <1>t, <1>s, RolesStand, HandlerShapes DEF HandlerType
<1>7. /\ \A j \in Asks : ask'[j] = ask[j] \/ (j = k /\ ask[k] = "pending" /\ ask'[k] = v)
      /\ WellAsked(Resting)
      /\ \A j : ~ Handles(Resting, j) /\ ~ Approves(Resting, j) /\ ~ HasCreated(Resting, j)
    BY <1>t, <1>3, HandlerShapes
        DEF MemberTypeOK, WellAsked, Handles, Approves, HasCreated, HandlingAt
<1>8. Handles(handler[h], k) /\ (v = "approved" => HasCreated(handler[h], k))
    BY <1>s, <1>1, <1>2 DEF Handles, Approves, HasCreated, HandlingAt
<1>9. DecisionsAreAsked'
    BY <1>t, <1>4, <1>7 DEF DecisionsAreAsked, WellAsked
<1>10. AskedBeforeHandled'
    <2>1. \A j \in Asks : ask[j] # "none" => ask'[j] # "none"
        BY <1>2, <1>7
    <2>2. \A g \in Handlers, j \in Asks : Handles(handler'[g], j) => Handles(handler[g], j)
        BY <1>4, <1>7
    <2>3. \A j \in asking : j \in Asks /\ j # k
        BY <1>t, <1>8 DEF AskedBeforeHandled, MemberTypeOK
    <2> QED BY <1>t, <1>s, <1>7, <2>1, <2>2, <2>3 DEF AskedBeforeHandled, Handles
<1>11. ApprovalStands'
    <2> SUFFICES ASSUME NEW g \in Handlers, NEW j \in Asks, Approves(handler'[g], j)
                 PROVE  ask'[j] \in {"pending", "approved"} \/ j \in declinedMeanwhile'
        BY DEF ApprovalStands, Approves, Handles
    <2>1. g # h /\ Approves(handler[g], j) /\ Handles(handler[g], j)
        BY <1>4, <1>7 DEF Approves
    <2>2. ask[j] \in {"pending", "approved"} \/ j \in declinedMeanwhile
        BY <1>t, <2>1 DEF ApprovalStands
    <2>3. CASE ask'[j] = ask[j]
        BY <1>3, <2>2, <2>3
    <2>4. CASE j = k /\ ask[k] = "pending" /\ ask'[k] = v
        BY <1>2, <1>3, <2>1, <2>4
    <2> QED BY <1>7, <2>3, <2>4
<1>12. CreatedBeforeApproved'
    <2> SUFFICES ASSUME NEW j \in Asks,
                        ask'[j] = "approved" \/ \E g \in Handlers : HasCreated(handler'[g], j)
                 PROVE  j \in createdFor
        BY <1>s DEF CreatedBeforeApproved, HasCreated, Approves, Handles
    <2>1. CASE \E g \in Handlers : HasCreated(handler'[g], j)
        BY <1>t, <1>4, <1>7, <2>1 DEF CreatedBeforeApproved
    <2>2. CASE ask'[j] = "approved" /\ ask'[j] = ask[j]
        BY <1>t, <2>2 DEF CreatedBeforeApproved
    <2>3. CASE ask'[j] = "approved" /\ j = k /\ ask'[k] = v
        BY <1>t, <1>8, <2>3 DEF CreatedBeforeApproved
    <2> QED BY <1>7, <2>1, <2>2, <2>3
<1>13. CreatedIsFollowed'
    <2> SUFFICES ASSUME NEW j \in createdFor, ask'[j] # "approved",
                        j \notin halfway \cup declinedMeanwhile'
                 PROVE  \E g \in Handlers : HasCreated(handler'[g], j)
        BY <1>s DEF CreatedIsFollowed, HasCreated, Approves, Handles
    <2>0. j \in Asks /\ j \notin halfway \cup declinedMeanwhile
        BY <1>t, <1>3 DEF MemberTypeOK
    <2>1. ask[j] # "approved"
        BY <1>7, <2>0
    <2>2. PICK g \in Handlers : HasCreated(handler[g], j)
        BY <1>t, <2>0, <2>1 DEF CreatedIsFollowed
    <2>3. CASE g # h
        BY <1>4, <2>2, <2>3
    <2>4. CASE g = h
        <3>1. j = k /\ v = "approved"
            BY <1>1, <1>2, <2>2, <2>4 DEF HasCreated, Approves, Handles
        <3>2. ask[k] # "pending"
            BY <1>t, <1>3, <3>1 DEF MemberTypeOK
        <3>3. Approves(handler[h], k)
            BY <2>2, <2>4, <3>1 DEF HasCreated
        <3> QED BY <1>t, <2>0, <2>1, <3>1, <3>2, <3>3 DEF ApprovalStands
    <2> QED BY <2>3, <2>4
<1> QED BY <1>5, <1>6, <1>9, <1>10, <1>11, <1>12, <1>13 DEF MemberInv, AskInv

LEMMA ThrowsKeepsMemberInv ==
    ASSUME MemberInv, NEW h \in Handlers, HandlerThrows(h) PROVE MemberInv'
<1>t. MemberTypeOK /\ AdminInv /\ AskInv
    BY DEF MemberInv
<1>s. /\ handler' = [handler EXCEPT ![h] = Resting]
      /\ halfway \subseteq halfway'
      /\ handler[h].at \in {"record", "vault"}
            \/ (handler[h].at = "decide" /\ handler[h].verdict = "approved")
         => {handler[h].ask} \cap Asks \subseteq halfway'
      /\ halfway' \subseteq halfway \cup Asks
      /\ UNCHANGED <<handled, role, ask, asking, createdFor, orphaned, declinedMeanwhile>>
    BY DEF HandlerThrows, Rests
<1>1. Resting \in HandlerType /\ Resting.at = "rest" /\ Resting.at \notin HandlingAt
    BY HandlerShapes DEF HandlerType, HandlingAt
<1>2. handler' \in [Handlers -> HandlerType]
    BY <1>t, <1>s, <1>1, OneHandler
<1>3. MemberTypeOK'
    BY <1>t, <1>s, <1>2 DEF MemberTypeOK, HandlerType, Authorised, Changing, Removing,
        Approving, Recording
<1>4. AdminInv'
    BY <1>t, <1>s, <1>1, RolesStand
<1>5. AskInv'
    <2>1. \A k \in Asks : HasCreated(handler[h], k) => k \in halfway'
        BY <1>s DEF HasCreated, Approves, Handles
    <2>2. createdFor \subseteq Asks
        BY <1>t DEF MemberTypeOK
    <2> QED BY <1>t, <1>s, <1>1, <2>1, <2>2, NotAsking, AsksStand
<1> QED BY <1>3, <1>4, <1>5 DEF MemberInv

\* A request for access is put: the handlers stand still.
LEMMA AskKeepsMemberInv ==
    ASSUME MemberInv, NEW k \in Asks, AskReads(k) \/ AskInserts(k) PROVE MemberInv'
<1>t. /\ MemberTypeOK /\ AdminInv
      /\ DecisionsAreAsked /\ AskedBeforeHandled /\ ApprovalStands
      /\ CreatedBeforeApproved /\ CreatedIsFollowed
    BY DEF MemberInv, AskInv
<1>s. /\ UNCHANGED <<handled, role, handler, createdFor, orphaned, halfway, declinedMeanwhile>>
      /\ ask[k] = "none"
      /\ \/ ask' = ask /\ asking' = asking \cup {k}
         \/ ask' = [ask EXCEPT ![k] = "pending"] /\ asking' = asking \ {k}
    BY <1>t DEF AskReads, AskInserts, AskedBeforeHandled
<1>1. /\ ask' \in [Asks -> {"none", "pending", "approved", "declined"}]
      /\ \A j \in Asks : ask'[j] = ask[j] \/ (j = k /\ ask'[j] = "pending")
      /\ \A j \in asking' : ask'[j] = "none" /\ j \in Asks
    BY <1>t, <1>s DEF MemberTypeOK, AskedBeforeHandled
<1>2. MemberTypeOK'
    BY <1>t, <1>s, <1>1 DEF MemberTypeOK
<1>3. AdminInv'
    BY <1>t, <1>s DEF AdminInv, ChangeLeavesAnAdmin, ManagedOrExcused, Members, AdminsNow
<1>4. DecisionsAreAsked' /\ AskedBeforeHandled'
    BY <1>t, <1>s, <1>1 DEF DecisionsAreAsked, AskedBeforeHandled, Handles, WellAsked
<1>5. ApprovalStands'
    BY <1>t, <1>s, <1>1 DEF ApprovalStands, Approves, Handles
<1>6. CreatedBeforeApproved'
    BY <1>t, <1>s, <1>1 DEF CreatedBeforeApproved, HasCreated, Approves, Handles
<1>7. CreatedIsFollowed'
    <2>1. createdFor \subseteq Asks
        BY <1>t DEF MemberTypeOK
    <2> QED BY <1>t, <1>s, <1>1, <2>1 DEF CreatedIsFollowed, HasCreated, Approves, Handles
<1> QED BY <1>2, <1>3, <1>4, <1>5, <1>6, <1>7 DEF MemberInv, AskInv

-----------------------------------------------------------------------------
LEMMA MemberInvInit == MemberInit => MemberInv
<1> SUFFICES ASSUME MemberInit PROVE MemberInv
    OBVIOUS
<1> USE DEF MemberInit
<1>1. MemberTypeOK
    BY MembershipAssumption DEF MemberTypeOK, Roles
<1>2. AdminsNow # {}
    BY MembershipAssumption DEF AdminsNow, Persons
<1>3. \A h \in Handlers : handler[h].at = "rest"
    BY HandlerShapes
<1>4. AdminInv
    BY <1>2, <1>3 DEF AdminInv, ChangeLeavesAnAdmin, ManagedOrExcused
<1>5. AskInv
    BY <1>3 DEF AskInv, DecisionsAreAsked, AskedBeforeHandled, ApprovalStands,
        CreatedBeforeApproved, CreatedIsFollowed, WellAsked, Handles, Approves, HasCreated,
        HandlingAt
<1> QED BY <1>1, <1>4, <1>5 DEF MemberInv

LEMMA MemberInvNext == MemberInv /\ [MemberNext]_memberVars => MemberInv'
<1> SUFFICES ASSUME MemberInv, [MemberNext]_memberVars PROVE MemberInv'
    OBVIOUS
<1>1. ASSUME NEW k \in Asks, AskReads(k) \/ AskInserts(k) PROVE MemberInv'
    BY <1>1, AskKeepsMemberInv
<1>2. ASSUME NEW h \in Handlers, NEW p \in Persons, Authorise(h, p) \/ CheckRemoval(h, p)
      PROVE  MemberInv'
    BY <1>2, AuthoriseKeepsMemberInv
<1>3. ASSUME NEW h \in Handlers, NEW p \in Persons, NEW n \in Roles \cup {"gone"},
             CheckChange(h, p, n)
      PROVE  MemberInv'
    BY <1>3, CheckChangeKeepsMemberInv
<1>4. ASSUME NEW h \in Handlers, WriteChange(h) \/ WriteRemoval(h) PROVE MemberInv'
    BY <1>4, WriteChangeKeepsMemberInv, WriteRemovalKeepsMemberInv
<1>5. ASSUME NEW h \in Handlers, NEW p \in Persons, NEW k \in Asks \cup {NoOne},
             NEW v \in {"approved", "declined"}, CheckRequest(h, p, k, v)
      PROVE  MemberInv'
    BY <1>5, CheckRequestKeepsMemberInv
<1>6. ASSUME NEW h \in Handlers, NEW as \in Roles, CreateAccount(h, as) PROVE MemberInv'
    BY <1>6, CreateAccountKeepsMemberInv
<1>7. ASSUME NEW h \in Handlers,
             \/ LookForAccount(h) \/ RecordAccount(h) \/ VaultAndSend(h)
             \/ Decide(h) \/ HandlerThrows(h)
      PROVE  MemberInv'
    BY <1>7, LookKeepsMemberInv, RecordAccountKeepsMemberInv, VaultAndSendKeepsMemberInv,
       DecideKeepsMemberInv, ThrowsKeepsMemberInv
<1>8. CASE UNCHANGED memberVars
    BY <1>8 DEF memberVars, MemberInv, MemberTypeOK, AdminInv, ChangeLeavesAnAdmin,
        ManagedOrExcused, Members, AdminsNow, AskInv, DecisionsAreAsked, AskedBeforeHandled,
        ApprovalStands, CreatedBeforeApproved, CreatedIsFollowed, WellAsked, Handles, Approves,
        HasCreated
<1> QED BY <1>1, <1>2, <1>3, <1>4, <1>5, <1>6, <1>7, <1>8 DEF MemberNext

\* People, requests for access and handlers stay well formed, however changes,
\* removals, approvals and invitations overlap.
THEOREM MemberTypeCorrect == MemberSpec => []MemberTypeOK
<1>1. MemberInv => MemberTypeOK
    BY DEF MemberInv
<1> QED BY <1>1, MemberInvInit, MemberInvNext, PTL DEF MemberSpec

\* The guard on the last admin fails only where a role was written between its
\* count and its write, or where the owner of the platform bypasses it; and a
\* request for access is approved exactly when an account was made for it, but for
\* approvals that ended half way or were declined meanwhile.
THEOREM PeopleAlwaysManaged == MemberSpec => []PeopleAreManaged
<1>1. MemberInv => PeopleAreManaged
    <2> SUFFICES ASSUME MemberInv PROVE PeopleAreManaged
        OBVIOUS
    <2>1. AdminsNow = {} => orphaned \in {"overlap", "owner", "dropped"}
        BY DEF MemberInv, AdminInv, ManagedOrExcused
    <2>2. \A k \in Asks : ask[k] = "approved" => k \in createdFor
        BY DEF MemberInv, AskInv, CreatedBeforeApproved
    <2>3. \A k \in createdFor :
            \/ ask[k] = "approved" \/ k \in halfway \cup declinedMeanwhile
            \/ \E h \in Handlers : HasCreated(handler[h], k)
        BY DEF MemberInv, AskInv, CreatedIsFollowed
    <2> QED BY <2>1, <2>2, <2>3 DEF PeopleAreManaged, HasCreated, Approves, Handles
<1> QED BY <1>1, MemberInvInit, MemberInvNext, PTL DEF MemberSpec

=============================================================================
