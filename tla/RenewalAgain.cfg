SPECIFICATION RenewalSpec
CONSTANTS
    RenewalRuns = {r1}
    Underwriters = {u1}
    MaxCycles = 2
    MaxRenewalFaults = 0
INVARIANT QuotedOncePerRenewal
