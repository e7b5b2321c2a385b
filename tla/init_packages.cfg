SPECIFICATION Spec
CONSTANTS
    NameOrder <- MCNameOrder
    Items <- MCItems
    TokenKeys <- MCTokenKeys
    Shipped <- MCShipped
    Specs <- PackageSpecs
    InitSpecs <- PackageInit
    MaxEdits = 2
    MaxFaults = 0
PROPERTIES
    PackagesMatch
CHECK_DEADLOCK FALSE
