CONSTANTS
    Job = {m1, m2}
    Manual = {m1, m2}
    Node = {n1}
    Matching = {}
    FilterType = "exclude"
    Suffix = {s1}
    RatioNum = 1
    RatioDen = 1
    NoJob = NoJob
    MaxFaults = 2
    MaxRestarts = 1
    MaxTroubles = 3
    Mixed = FALSE
    MaxDeletions = 0
SPECIFICATION FairSpec
INVARIANT NoJobForgotten
PROPERTIES NewJobStarts JobFinishes
CHECK_DEADLOCK FALSE
