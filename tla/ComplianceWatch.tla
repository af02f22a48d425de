-------------------------- MODULE ComplianceWatch ---------------------------
(***************************************************************************)
(* The alerts about the certificates one home must hold. A run reads the   *)
(* certificates, then the open alerts, and for each required certificate   *)
(* resolves, creates or changes one alert. Every statement is a            *)
(* transaction of its own; an open alert is unique per name and kind, and  *)
(* a write that would break this throws and ends the run.                  *)
(***************************************************************************)
EXTENDS Integers

CONSTANTS
    CertNames,      \* certificates the home must hold
    CertBase,       \* their names without the class they are for
    CertDays,       \* days until an expiry date that the calendar passes (a bound)
    NotHeld,        \* stands for no certificate
    CertRuns,       \* runs of the agent that may overlap (a bound)
    MaxAlerts,      \* alerts that are open or in the hands of a run (a bound)
    MaxCertChanges, \* how often certificates change (a bound)
    MaxCertFaults   \* how often a run ends half way (a bound)

ASSUME CertAssumption ==
    /\ CertDays \subseteq Int
    /\ NotHeld \notin Int
    /\ MaxAlerts \in Nat /\ MaxCertChanges \in Nat /\ MaxCertFaults \in Nat

Bases == {CertBase[n] : n \in CertNames}
AlertIds == 1..MaxAlerts

VARIABLES
    held,         \* days the latest certificate of each base has left, if any
    alerts,       \* rows of compliance_alerts; what a closed one says is not told apart
    certRun,      \* what each run is at
    certChanges, certFaults, \* changes and faults so far
    doubled,      \* two alerts of one name were open at once
    overtaken     \* runs under whose walk another run wrote

certVars == <<held, alerts, certRun, certChanges, certFaults, doubled, overtaken>>

Valid == "valid"
Kinds == {"expiring_90", "expiring_60", "expiring_30", "expiring_7", "expired", "missing"}

\* certificateStatus of the domain
AlertKind(days) ==
    CASE days = NotHeld -> "missing"
      [] days # NotHeld /\ days < 0 -> "expired"
      [] days \in 0..7 -> "expiring_7"
      [] days \in 8..30 -> "expiring_30"
      [] days \in 31..60 -> "expiring_60"
      [] days \in 61..90 -> "expiring_90"
      [] OTHER -> Valid

Closed == [name |-> "none", kind |-> Valid]
Open == {a \in AlertIds : alerts[a] # Closed}
OpenFor(b) == {a \in Open : CertBase[alerts[a].name] = b}

\* seen: the open alert find() returns for each base, 0 for none, and its kind.
NoneSeen == [id |-> 0, kind |-> Valid]
CertOff == [at |-> "off", days |-> <<>>, seen |-> <<>>, left |-> {}]

-----------------------------------------------------------------------------
\* A certificate is recorded, of which only the latest expiry counts, or days pass.
CertificateChanges(b, days) ==
    /\ held[b] # days
    /\ certChanges < MaxCertChanges
    /\ certChanges' = certChanges + 1
    /\ held' = [held EXCEPT ![b] = days]
    /\ UNCHANGED <<alerts, certRun, certFaults, doubled, overtaken>>

ReadCertificates(r) ==
    /\ certRun[r] = CertOff
    /\ certRun' = [certRun EXCEPT ![r].at = "certs", ![r].days = held]
    /\ UNCHANGED <<held, alerts, certChanges, certFaults, doubled, overtaken>>

\* The query has no order: any open alert of a base may be the one that is found.
ReadAlerts(r) ==
    /\ certRun[r].at = "certs"
    /\ \E seen \in [Bases -> {0} \cup Open] :
          /\ \A b \in Bases : IF OpenFor(b) = {} THEN seen[b] = 0 ELSE seen[b] \in OpenFor(b)
          /\ certRun' = [certRun EXCEPT
                ![r].at = "walk", ![r].left = CertNames,
                ![r].seen = [b \in Bases |-> IF seen[b] = 0 THEN NoneSeen
                                ELSE [id |-> seen[b], kind |-> alerts[seen[b]].kind]]]
    /\ overtaken' = overtaken \ {r}
    /\ UNCHANGED <<held, alerts, certChanges, certFaults, doubled>>

\* The unique index on open alerts; the variant leaves it out.
NeverCollides(a, name, kind) == FALSE
Collides(a, name, kind) ==
    \E o \in Open \ {a} : alerts[o].name = name /\ alerts[o].kind = kind

\* A row of its own for a new alert, not one a run still refers to.
Free == {a \in AlertIds \ Open :
            \A r \in CertRuns : \A b \in DOMAIN certRun[r].seen : certRun[r].seen[b].id # a}
NextId == CHOOSE a \in Free : \A b \in Free : a <= b
Create(name, kind) == [alerts EXCEPT ![NextId] = [name |-> name, kind |-> kind]]
Resolve(a) == [alerts EXCEPT ![a] = Closed]

\* The update of one row in place; the variant opens another row.
ChangeByNewRow(a, kind) ==
    IF a \in Open /\ Free # {} THEN Create(alerts[a].name, kind) ELSE alerts
ChangeKind(a, kind) == IF a \in Open THEN [alerts EXCEPT ![a].kind = kind] ELSE alerts

\* One required certificate, from what was read when the run began; the write is
\* by id. Past MaxAlerts the run gives up (a bound).
CheckCertificate(r, n) ==
    LET b == CertBase[n]
        kind == AlertKind(certRun[r].days[b])
        seen == certRun[r].seen[b]
        refused == \/ seen = NoneSeen /\ (Collides(0, n, kind) \/ Free = {})
                   \/ /\ seen # NoneSeen /\ kind # seen.kind
                      /\ seen.id \in Open /\ Collides(seen.id, alerts[seen.id].name, kind)
        done == IF certRun[r].left = {n} THEN CertOff ELSE [certRun[r] EXCEPT !.left = @ \ {n}]
    IN  /\ certRun[r].at = "walk"
        /\ n \in certRun[r].left
        /\ \/ /\ kind = Valid
              /\ alerts' = IF seen = NoneSeen THEN alerts ELSE Resolve(seen.id)
              /\ certRun' = [certRun EXCEPT ![r] = done]
           \/ /\ kind # Valid /\ refused
              /\ certRun' = [certRun EXCEPT ![r] = CertOff]
              /\ UNCHANGED alerts
           \/ /\ kind # Valid /\ ~ refused
              /\ alerts' = IF seen = NoneSeen THEN Create(n, kind)
                           ELSE IF kind = seen.kind THEN alerts
                           ELSE ChangeKind(seen.id, kind)
              /\ certRun' = [certRun EXCEPT ![r] = done]
        /\ doubled' = (doubled \/ \E o, p \in AlertIds :
              o # p /\ alerts'[o] # Closed /\ alerts'[o].name = alerts'[p].name)
        /\ overtaken' = IF alerts' = alerts THEN overtaken
                        ELSE overtaken \cup {q \in CertRuns \ {r} : certRun[q].at = "walk"}
        /\ UNCHANGED <<held, certChanges, certFaults>>

CertRunEnds(r) ==
    /\ certRun[r] # CertOff
    /\ certFaults < MaxCertFaults
    /\ certFaults' = certFaults + 1
    /\ certRun' = [certRun EXCEPT ![r] = CertOff]
    /\ UNCHANGED <<held, alerts, certChanges, doubled, overtaken>>

-----------------------------------------------------------------------------
CertInit ==
    /\ held = [b \in Bases |-> NotHeld]
    /\ alerts = [a \in AlertIds |-> Closed]
    /\ certRun = [r \in CertRuns |-> CertOff]
    /\ certChanges = 0 /\ certFaults = 0 /\ doubled = FALSE /\ overtaken = {}

CertStep(r) ==
    \/ ReadCertificates(r) \/ ReadAlerts(r)
    \/ \E n \in CertNames : CheckCertificate(r, n)

CertNext ==
    \/ \E b \in Bases, days \in CertDays : CertificateChanges(b, days)
    \/ \E r \in CertRuns : CertStep(r) \/ CertRunEnds(r)

CertSpec == CertInit /\ [][CertNext]_certVars

-----------------------------------------------------------------------------
(* Rows and runs hold what the code may write, and no two open alerts are of *)
(* one name and kind.                                                        *)
CertTypeOK ==
    /\ held \in [Bases -> CertDays \cup {NotHeld}]
    /\ alerts \in [AlertIds -> {Closed} \cup [name: CertNames, kind: Kinds]]
    /\ \A a, b \in Open : a # b => alerts[a] # alerts[b]
    /\ \A r \in CertRuns :
          /\ certRun[r].at \in {"off", "certs", "walk"}
          /\ certRun[r].at # "off" => certRun[r].days \in [Bases -> CertDays \cup {NotHeld}]
          /\ certRun[r].at = "walk" => \A b \in Bases : certRun[r].seen[b].id \in {0} \cup AlertIds
          /\ certRun[r].left \subseteq CertNames
    /\ certChanges \in 0..MaxCertChanges /\ certFaults \in 0..MaxCertFaults
    /\ doubled \in BOOLEAN /\ overtaken \subseteq CertRuns

SoleBases == {b \in Bases : \A m, n \in CertNames : CertBase[m] = b /\ CertBase[n] = b => m = n}
Shows(b, days) == {alerts[a].kind : a \in OpenFor(b)} = {AlertKind(days)} \ {Valid}
AlertMatches(b) == Shows(b, held[b])

(* compliance-watch.ts:9-13: an alert of the right kind is left alone, a new   *)
(* kind updates the same row and never collides, a valid certificate resolves. *)
(* A run that walks to its end, none writing meanwhile and no two alerts of    *)
(* one name open, is refused nothing: whatever it leaves to do it does, and    *)
(* then the open alerts of each base say what the certificates did when it     *)
(* read them. Two required names that share a base are left to the code's      *)
(* find(), which takes either; Free is empty only at the bound on rows.        *)
WalkTakesEffect(r) ==
    /\ certRun[r].at = "walk" /\ certRun'[r] = CertOff /\ certFaults' = certFaults
    /\ r \notin overtaken /\ ~ doubled /\ Free # {}
    => /\ \E n \in CertNames : certRun[r].left = {n}
       /\ \A b \in SoleBases, days \in CertDays \cup {NotHeld} :
             days = certRun[r].days[b] => Shows(b, days)'

WalksTakeEffect == [][\A r \in CertRuns : WalkTakesEffect(r)]_certVars

(* When certificates and calendar stand still, the open alerts come to say   *)
(* what the certificates do: a run that worked from an old read is put right *)
(* by a later one, unless two overlapping runs once opened two alerts of one *)
(* name. Then a change of kind may collide with the other one and throw in   *)
(* every run from then on. Where two required names share a base, one of     *)
(* their two alerts may also be left as it was.                              *)
CertsWatched == doubled \/ \A b \in SoleBases : AlertMatches(b)
=============================================================================
