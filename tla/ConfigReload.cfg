CONSTANTS
    Null = Null
    Document <- Documents
    First <- Oldest
    MaxEdits = 2
    MaxCrashes = 1
SPECIFICATION FairSpec
INVARIANTS TypeOK ComponentsFollow RuntimeIsComplete AcceptedIsInForce
PROPERTIES MigrationKeepsMeaning ChangeTakesEffect ManagerReturns PutOffIsPrompted
CHECK_DEADLOCK FALSE
