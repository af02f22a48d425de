SPECIFICATION Spec
CONSTANTS
    Workers = {w1, w2}
    Slots = {s1}
    Tasks = {agent, legacy}
    Registered = {agent}
    NoTask = NoTask
    JobIds = {j1, j2}
    ClaimLimit = 2
    MaxRetries = 2
    MaxBucket = 1
    MaxFaults = 1
SYMMETRY Symmetry
INVARIANTS TypeOK RetriesDecideDeadLetter
PROPERTY JobsAreWorkItems
