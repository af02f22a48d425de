SPECIFICATION LedgerSpec
CONSTANTS
    Parts = {"arrears", "charges", "bank", "stripe"}
    LadderRuns = {r1, r2}
    MaxCases = 6
    UnitClasses = {"residential", "supported"}
    Days = {6, 14}
    MaxUpsets = 1
    MonthLengths <- MCMonthLengths
    Frequencies = {"monthly", "four_weekly"}
    StartDates = {0, 28, 31}
    Todays = {28, 60, 100}
    ChargeRuns = {r1, r2}
    HandDates = {40}
    MarkDates = {28}
    MaxMishaps = 2
    o1 = o1
    o2 = o2
    t1 = t1
    t2 = t2
    Orgs = {o1, o2}
    Txs = {t1, t2}
    Evidence <- MCEvidence
    FeedRuns = {r1, r2}
    Clerks = {q1, q2}
    MaxFeedFaults = 1
    RentSessions = {s1, s2}
    SubSessions = {u1}
    Deliveries = {d1, d2}
    MaxStripeFaults = 2
INVARIANTS
    LedgerTypeOK
    OneOpenCase
    RemindedOnce
    EveryPeriodCharged
    BankPaidOnce
    ResolutionMatchesLedger
    CardEventActsOnce
PROPERTIES
    LadderFollowsDebt
    LedgerCatchesUp
