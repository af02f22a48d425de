SPECIFICATION Spec
CONSTANTS
    Calls = {c1, c2}
    Records = {r1}
    NoCall = NoCall
    Genesis = Genesis
    Orgs = {o1}
    NoOrg = NoOrg
    Fetchers = {}
    Bare = {}
    MaxClock = 2
CHECK_DEADLOCK FALSE
INVARIANT NoFalseAlarm
