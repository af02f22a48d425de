SPECIFICATION Spec
CONSTANTS
    Calls = {c1, c2, c3}
    Records = {r1}
    NoCall = NoCall
    Genesis = Genesis
    Orgs = {o1}
    NoOrg = NoOrg
    Fetchers = {c2, c3}
    Bare = {}
    MaxClock = 2
CHECK_DEADLOCK FALSE
INVARIANT NeverForks
