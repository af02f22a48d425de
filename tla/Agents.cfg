SPECIFICATION AgentsSpec
CONSTANTS
    Parts = {"renewal", "tickets", "notes", "laws", "certificates"}
    RenewalRuns = {r1, r2}
    Underwriters = {u1, u2}
    MaxCycles = 2
    MaxRenewalFaults = 1
    Tickets = {k1, k2}
    TriageRuns = {r1, r2}
    MaxTriageFaults = 1
    n1 = n1
    n2 = n2
    Notes = {n1, n2}
    TableOf <- MCTableOf
    p1 = p1
    p2 = p2
    Texts = {p1, p2}
    TextOf <- MCTextOf
    MemoryRuns = {r1, r2}
    MaxMemoryFaults = 1
    l1 = l1
    l2 = l2
    h1 = h1
    h2 = h2
    Laws = {l1, l2}
    Homes = {h1, h2}
    Concerns <- MCConcerns
    WatchRuns = {r1, r2}
    MaxLawFaults = 1
    CertNames <- MCCertNames
    CertBase <- MCCertBase
    CertDays <- MCCertDays
    NotHeld = NotHeld
    CertRuns = {r1, r2}
    MaxAlerts = 3
    MaxCertChanges = 1
    MaxCertFaults = 1
INVARIANTS
    AgentsTypeOK
    CycleDecidedOnce
    TicketHandledOnce
    PromisesAreLifted
    LawsAreMapped
PROPERTIES
    AgentsCatchUp
    AgentsLiftOnce
    WalksTakeEffect
