CONSTANTS
    Job = {c}
    Manual = {}
    Node = {n1, n2}
    Matching = {}
    FilterType = "exclude"
    Suffix = {s1, s2}
    RatioNum = 1
    RatioDen = 1
    NoJob = NoJob
    MaxFaults = 1
    MaxRestarts = 1
    MaxTroubles = 1
    Mixed = TRUE
    MaxDeletions = 1
SPECIFICATION Spec
SYMMETRY NodeSymmetry
INVARIANTS TypeOK OnePodPerNode PodsOnlyOfStartedJobs VerdictIsFinal CompletedMeansEveryNodeDone
PROPERTIES VerdictAwaitsPods ImplementsLifecycle
CHECK_DEADLOCK FALSE
