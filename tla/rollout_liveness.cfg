SPECIFICATION FairSpec
CONSTANTS
    MaxRev = 3
    Sources = {"none"}
    Replicas = {1}
    PendingRevs = {2}
    UnreadyRevs = {3}
    MaxFaults = 1
    MaxRestarts = 1
    MaxEvictions = 0
CHECK_DEADLOCK FALSE
PROPERTIES
    ReadyPodReplaced
    StuckPodReplaced
    RunningIsShown
