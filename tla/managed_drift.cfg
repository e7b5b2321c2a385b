SPECIFICATION Spec
CONSTANTS
    LoopOrder <- ReconcileOrder
    Wants <- ExposedWants
    InitWant <- Exposed
    Absent = Absent
    Invalid = Invalid
    MaxGen = 1
    MaxFaults = 0
    MaxRestarts = 1
    MaxDrift = 1
CHECK_DEADLOCK FALSE
INVARIANTS
    QuiescentConverged
