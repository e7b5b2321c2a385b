SPECIFICATION Spec
CONSTANTS
    NameOrder <- MCNameOrder
    Items <- MCItems
    TokenKeys <- MCTokenKeys
    Shipped <- MCShipped
    Specs <- BareSpecs
    InitSpecs <- BareSpecs
    MaxEdits = 0
    MaxFaults = 1
PROPERTIES
    ProfilesCreated
CHECK_DEADLOCK FALSE
