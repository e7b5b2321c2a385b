SPECIFICATION FairSpec
CONSTANTS
    MaxRev = 3
    Sources = {"none"}
    Replicas = {1}
    PendingRevs = {2}
    UnreadyRevs = {}
    MaxFaults = 0
    MaxRestarts = 0
    MaxEvictions = 0
CHECK_DEADLOCK FALSE
PROPERTIES
    RolloutCompletes
