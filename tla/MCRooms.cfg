SPECIFICATION FairSpec
CONSTANTS
    NWorkers = 2
    MaxLate = 1
    MaxMishaps = 1
INVARIANTS
    RecordedOnce
    OutcomeTrue
    OnlyEndedRoomsClosed
    NothingLeftOpen
PROPERTIES
    RecordingsSettle
CHECK_DEADLOCK FALSE
