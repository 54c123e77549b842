SPECIFICATION FairSpec
CONSTANTS
    v1 = v1
    ingest1 = ingest1
    cleanup1 = cleanup1
    Versions = {v1}
    Messages = {ingest1, ingest2, cleanup1}
    Consumers = {c1, c2}
    Subject <- MCSubject
    First <- MCFirst
    Cleanup <- MCCleanup
    Ingest <- MCIngest
    Visibility = 1
    MaxReceives = 2
    MaxLate = 1
    MaxDeaths = 2
INVARIANTS
    ServedContentIsComplete
    RejectedNeverServed
PROPERTIES
    EventuallyVerified
    RemovedIsReclaimed
CHECK_DEADLOCK FALSE
