CONSTANTS
    Null = Null
    Document <- Documents
    First <- Oldest
    MaxEdits = 1
    MaxCrashes = 0
SPECIFICATION FairSpec
PROPERTY RunningJobKeepsConfiguration
CHECK_DEADLOCK FALSE
