SPECIFICATION FairSpec
CONSTANTS
    NameOrder <- MCNameOrder
    Items <- MCItems
    TokenKeys <- MCTokenKeys
    Shipped <- MCShipped
    Specs <- MCSpecs
    InitSpecs <- MCInitSpecs
    MaxEdits = 2
    MaxFaults = 2
INVARIANTS
    TypeOK
    ProxyEnvHidden
    FailureReported
PROPERTIES
    ServesDeclared
    ExactWhenUndisturbed
    ResumedTracked
    AgentUsesProxy
    DefaultsFillGaps
    StartCompletes
CHECK_DEADLOCK FALSE
