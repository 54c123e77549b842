SPECIFICATION FairSpec
CONSTANTS
    Events = {1, 2, 3}
    Audit = {2}
    Malformed = {1}
    Undispatched = {}
    Withdrawable = {3}
    Dispatchers = {d1, d2}
    Lease = 2
    Horizon = 2
    BaseDelay = 1
    FirstDelays = {0, 1}
    MaxAttempts = 2
INVARIANTS
    ClaimNumbersUnique
PROPERTIES
    LeaseUndisturbed
    ImplementsHandoff
    EventuallyProcessed
CHECK_DEADLOCK FALSE
