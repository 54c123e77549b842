SPECIFICATION FairSpec
CONSTANTS
    MaxEnts = 1
    MaxCommits = 0
    MaxLaunches = 0
    MaxTime = 0
    MaxOnline = 0
    MaxFaults = 1
    BatchLimit = 2
PROPERTIES ActivationCompletes
CHECK_DEADLOCK FALSE
