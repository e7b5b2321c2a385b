SPECIFICATION FairSpec
CONSTANTS
    Period = 2
    Modes <- OnlyOn
    Retentions = {1}
    InitSpec <- KeepOne
    InitCRD = "installed"
    MaxTime = 6
    MaxEdits = 0
    MaxFaults = 1
    MaxRestarts = 1
    MaxDeletes = 1
CHECK_DEADLOCK FALSE
INVARIANTS
    TypeOK
    OneSnapshotPerRun
    ListMirrorsRetention
PROPERTIES
    RunsTaken
