SPECIFICATION Spec
CONSTANTS
    LoopOrder <- SecretOrder
    Wants <- EditWants
    InitWant <- Changed
    Absent = Absent
    Invalid = Invalid
    MaxGen = 2
    MaxFaults = 0
    MaxRestarts = 0
    MaxDrift = 0
CHECK_DEADLOCK FALSE
INVARIANTS
    ManagedListComplete
