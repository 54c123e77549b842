SPECIFICATION Spec
CONSTANTS
    MaxEnts = 2
    MaxCommits = 2
    MaxLaunches = 1
    MaxTime = 2
    MaxOnline = 1
    MaxFaults = 1
    BatchLimit = 2
INVARIANTS
    TimeExact
    SyncedMeansEqual
    ReceiptsAgree
PROPERTIES
    WriterSpec
    CompletionSticks
CHECK_DEADLOCK FALSE
