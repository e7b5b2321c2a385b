SPECIFICATION FairSpec
CONSTANTS
    MaxRev = 2
    Sources = {"none"}
    Replicas = {1}
    PendingRevs = {}
    UnreadyRevs = {1}
    MaxFaults = 0
    MaxRestarts = 0
    MaxEvictions = 0
CHECK_DEADLOCK FALSE
PROPERTIES
    RolloutCompletes
