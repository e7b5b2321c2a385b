SPECIFICATION FairSpec
CONSTANTS
    LoopOrder <- SecretOrder
    Wants <- BrokenWants
    InitWant <- Changed
    Absent = Absent
    Invalid = Invalid
    MaxGen = 2
    MaxFaults = 1
    MaxRestarts = 0
    MaxDrift = 0
CHECK_DEADLOCK FALSE
INVARIANTS
    TypeOK
    QuiescentConverged
    NoPhantomManaged
PROPERTIES
    ReadyVerdictCurrent
    MintedValueStable
    Converges
    FailureReported
