SPECIFICATION Spec
CONSTANTS
    NameOrder <- MCNameOrder
    Items <- MCItems
    TokenKeys <- MCTokenKeys
    Shipped <- MCShipped
    Specs <- SmallSpecs
    InitSpecs <- SmallSpecs
    MaxEdits = 0
    MaxFaults = 1
PROPERTIES
    WorkspaceCopied
CHECK_DEADLOCK FALSE
