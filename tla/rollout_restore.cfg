SPECIFICATION Spec
CONSTANTS
    MaxRev = 2
    Sources = {"none","snapshot"}
    Replicas = {0, 1}
    PendingRevs = {}
    UnreadyRevs = {1}
    MaxFaults = 1
    MaxRestarts = 1
    MaxEvictions = 1
CHECK_DEADLOCK FALSE
INVARIANTS
    TypeOK
    RestOnSpec
PROPERTIES
    VolumeBeforeReshape
