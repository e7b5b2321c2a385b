SPECIFICATION FairSpec
CONSTANTS
    MaxRev = 2
    Sources = {"none"}
    Replicas = {1}
    PendingRevs = {1}
    UnreadyRevs = {}
    MaxFaults = 0
    MaxRestarts = 1
    MaxEvictions = 0
CHECK_DEADLOCK FALSE
PROPERTIES
    RolloutCompletes
