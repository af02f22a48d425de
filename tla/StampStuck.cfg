SPECIFICATION FairSpec
CONSTANTS
    Stamps = {s1, s2}
    Linked = {s1}
    Workers = {w1}
    Slots = {k1}
    Managers = {m1}
    NoStamp = NoStamp
    Limit = 2
    MaxRetry = 2
    MaxResets = 0
    MaxFaults = 1
CHECK_DEADLOCK FALSE
PROPERTY NeverStuckProcessing
