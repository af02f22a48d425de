------------------------------ MODULE MCPeople ------------------------------
(***************************************************************************)
(* What people do through the web app: intake, the lead board, identity    *)
(* checks, the second factor and the password of an account, who is in an  *)
(* organisation, and who lives where. They share no rows in these models:  *)
(* each behaviour explores one of them, the others stay where they start.  *)
(***************************************************************************)
EXTENDS Intake, LeadBoard, SecondFactor, IdChecks, Accounts, Membership, Homes, TLC

CONSTANTS Parts, l1, l2, t1, t2

VARIABLE part \* what this behaviour explores

\* t2 carries the lead it was; t1 has the name of both leads, t2 a phone of each.
MCCarriedLead == t1 :> NobodyYet @@ t2 :> l2
MCSameName == {<<l1, t1>>, <<l2, t1>>}
MCSameContact == {<<l1, t1>>, <<l2, t2>>, <<l1, t2>>}

peopleVars ==
    <<part, intakeVars, boardVars, mfaVars, idVars, accountVars, memberVars, homeVars>>

\* The intake starts with any extract and the account in any form; the parts that
\* stand still, with one.
PeopleInit ==
    /\ part \in Parts
    /\ IntakeInit /\ BoardInit /\ MfaInit /\ IdInit /\ AccountInit /\ MemberInit /\ HomeInit
    /\ part # "intake" =>
          draft.state.extracted = CHOOSE v \in Versions : TRUE
    /\ part # "account" => ~profile.legacy /\ profile.role = "staff"

PeopleNext ==
    /\ UNCHANGED part
    /\ \/ /\ part = "intake" /\ IntakeNext
          /\ UNCHANGED <<boardVars, mfaVars, idVars, accountVars, memberVars, homeVars>>
       \/ /\ part = "board" /\ BoardNext
          /\ UNCHANGED <<intakeVars, mfaVars, idVars, accountVars, memberVars, homeVars>>
       \/ /\ part = "mfa" /\ MfaNext
          /\ UNCHANGED <<intakeVars, boardVars, idVars, accountVars, memberVars, homeVars>>
       \/ /\ part = "checks" /\ IdNext
          /\ UNCHANGED <<intakeVars, boardVars, mfaVars, accountVars, memberVars, homeVars>>
       \/ /\ part = "account" /\ AccountNext
          /\ UNCHANGED <<intakeVars, boardVars, mfaVars, idVars, memberVars, homeVars>>
       \/ /\ part = "members" /\ MemberNext
          /\ UNCHANGED <<intakeVars, boardVars, mfaVars, idVars, accountVars, homeVars>>
       \/ /\ part = "homes" /\ HomeNext
          /\ UNCHANGED <<intakeVars, boardVars, mfaVars, idVars, accountVars, memberVars>>

\* The board is looked at again and again; the provider calls until it is heard.
PeopleFairness ==
    /\ \A g \in Viewers : WF_boardVars(part = "board" /\ Look(g))
    /\ \A k \in Checks : \A news \in News : WF_idVars(part = "checks" /\ Webhook(k, news))

PeopleSpec == PeopleInit /\ [][PeopleNext]_peopleVars /\ PeopleFairness

(* Every part's state is well typed.                                         *)
PeopleTypeOK ==
    /\ IntakeTypeOK /\ BoardTypeOK /\ MfaTypeOK /\ IdTypeOK
    /\ AccountTypeOK /\ MemberTypeOK /\ HomeTypeOK

(* Tenants, rooms and the board of the journey agree (Homes' HomesAgree) where  *)
(* homes are explored; elsewhere they stand still, and the board is costly.     *)
PeopleAreHoused == part = "homes" => HomesAgree

(* What people wait for comes: the board puts a tenant's lead right            *)
(* (LeadBoard's BoardHeals), and a provider's conclusion reaches its check     *)
(* (IdChecks' ConclusionsArrive).                                              *)
PeopleSettle == BoardHeals /\ ConclusionsArrive
=============================================================================
