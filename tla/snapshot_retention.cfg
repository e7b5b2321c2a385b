SPECIFICATION Spec
CONSTANTS
    Period = 1
    Modes <- AllModes
    Retentions = {1, 2}
    InitSpec <- KeepTwo
    InitCRD = "absent"
    MaxTime = 3
    MaxEdits = 1
    MaxFaults = 1
    MaxRestarts = 1
    MaxDeletes = 0
CHECK_DEADLOCK FALSE
INVARIANTS
    RetentionEnforced
PROPERTIES
    BackupsKept
