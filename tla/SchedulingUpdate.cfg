CONSTANTS
    Job = {j1, j2, j3}
    FirstReconcile = FirstReconcile
    ImageList = ImageList
    None = None
    CollectorEnabled = FALSE
    Unreliable <- Calls
    MaxFaults = 0
    MaxUpdates = 2
    MaxRestarts = 0
    MaxChanges = 2
SPECIFICATION FairSpec
PROPERTIES UpdatedListRuns
CHECK_DEADLOCK FALSE
