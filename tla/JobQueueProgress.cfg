SPECIFICATION FairSpec
CONSTANTS
    Workers = {w1, w2}
    Slots = {s1}
    Tasks = {agent}
    Registered = {agent}
    NoTask = NoTask
    JobIds = {j1, j2}
    ClaimLimit = 2
    MaxRetries = 2
    MaxBucket = 0
    MaxFaults = 1
PROPERTIES NeverStuckProcessing RetriesUnlessClash
