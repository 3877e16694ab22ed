CONSTANTS
    Job = {c}
    Manual = {}
    Node = {n1, n2}
    Matching = {}
    FilterType = "exclude"
    Suffix = {s1}
    RatioNum = 1
    RatioDen = 2
    NoJob = NoJob
    MaxFaults = 0
    MaxRestarts = 0
    MaxTroubles = 1
    Mixed = TRUE
    MaxDeletions = 0
SPECIFICATION Spec
INVARIANT FailedMeansBelowRatio
CHECK_DEADLOCK FALSE
