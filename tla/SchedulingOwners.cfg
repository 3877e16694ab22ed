CONSTANTS
    Job = {j1, j2, j3}
    FirstReconcile = FirstReconcile
    ImageList = ImageList
    None = None
    CollectorEnabled = TRUE
    Unreliable <- Calls
    MaxFaults = 1
    MaxUpdates = 1
    MaxRestarts = 1
    MaxChanges = 1
SPECIFICATION FairSpec
INVARIANTS TypeOK FinishedJobIsAwaited CollectorIsAwake
PROPERTIES DeadlineStands DeletedWhenDue FinishedJobsGo CollectionRecurs
CHECK_DEADLOCK FALSE
