SPECIFICATION PeopleSpec
CHECK_DEADLOCK FALSE
CONSTANTS
    Parts = {"intake", "board", "mfa", "checks", "account", "members", "homes"}
    Versions = {v1, v2}
    NoVersion = NoVersion
    Pages = {p1, p2}
    Commits = {c1, c2}
    MaxSaves = 3
    MaxCommitFaults = 1
    l1 = l1
    l2 = l2
    t1 = t1
    t2 = t2
    Leads = {l1, l2}
    People = {t1, t2}
    NobodyYet = NobodyYet
    CarriedLead <- MCCarriedLead
    SameName <- MCSameName
    SameContact <- MCSameContact
    Editors = {e1}
    Viewers = {g1}
    MaxEdits = 2
    Secrets = {s1, s2}
    NoSecret = NoSecret
    NoCodes = NoCodes
    Requests = {r1, r2, r3, r4}
    Checks = {k1, k2}
    Polls = {q1, q2}
    MaxPolls = 3
    NoRow = NoRow
    Calls = {a1, a2, a3}
    Links = {k1}
    First = First
    Admins = {m1}
    Managers = {}
    Newcomer = n1
    Asks = {k1, k2}
    Handlers = {h1, h2}
    MaxHandled = 4
    NoOne = NoOne
    Tenants = {h1, h2}
    Walkers = {h1}
    Rooms = {x1, x2}
    WithPortal = {x1}
    Papers = {"signed_up", "claim_done", "email_sent"}
    Tenancies = {y1, y2}
    Desks = {d1, d2}
    MaxDeskRequests = 3
INVARIANTS
    PeopleTypeOK
    OneTenantPerIntake
    CommittedAsSigned
    LeadsNameTheirTenant
    EnrolmentHolds
    PasswordsAgree
    PeopleAreManaged
    PeopleAreHoused
PROPERTY PeopleSettle
