SPECIFICATION Spec
CONSTANTS
    NameOrder <- MCNameOrder
    Items <- MCItems
    TokenKeys <- MCTokenKeys
    Shipped <- MCShipped
    Specs <- ProxySpecs
    InitSpecs <- ProxySpecs
    MaxEdits = 0
    MaxFaults = 0
INVARIANTS
    UserScriptsLast
CHECK_DEADLOCK FALSE
