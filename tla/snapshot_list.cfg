SPECIFICATION Spec
CONSTANTS
    Period = 1
    Modes <- OnlyOn
    Retentions = {1, 2}
    InitSpec <- KeepTwo
    InitCRD = "installed"
    MaxTime = 4
    MaxEdits = 1
    MaxFaults = 0
    MaxRestarts = 0
    MaxDeletes = 0
CHECK_DEADLOCK FALSE
INVARIANTS
    ListMirrors
