SPECIFICATION FairSpec
CONSTANTS
    Calls = {c1, c2, c3}
    Records = {r1, r2}
    NoCall = NoCall
    Genesis = Genesis
    Orgs = {o1}
    NoOrg = NoOrg
    Fetchers = {c1}
    Bare = {c2}
    MaxClock = 2
CHECK_DEADLOCK FALSE
INVARIANTS TypeOK PrevIsEarlierRow InOrderBreaksAtGaps
PROPERTY CallsEnd
