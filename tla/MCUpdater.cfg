SPECIFICATION FairSpec
CONSTANTS
    MaxRelease = 3
    MaxFailures = 1
    MaxCrashes = 1
INVARIANTS
    UpdateTypeOK
    ServedDatabaseFits
    RollbackIsExact
 
