SPECIFICATION FairSpec
CONSTANTS
    Stamps = {s1, s2}
    Linked = {s1}
    Workers = {w1, w2}
    Slots = {k1}
    Managers = {m1, m2}
    NoStamp = NoStamp
    Limit = 2
    MaxRetry = 2
    MaxResets = 2
    MaxFaults = 1
CHECK_DEADLOCK FALSE
INVARIANTS TypeOK StatusMatchesChain
PROPERTIES StampsAreWorkItems StampsSettle
