SPECIFICATION FairSpec
CONSTANTS
    Jobs = {j1}
    Foreign = {x1}
    Replicas = {p1, p2}
    MaxDeliver = 2
    MaxCopies = 2
    MaxFaults = 2
    MaxStops = 1
INVARIANTS
    ClaimedOnce
    StoppedIsQuiet
PROPERTIES
    JobWakes
CHECK_DEADLOCK FALSE
