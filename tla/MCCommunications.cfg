SPECIFICATION FairSpec
CONSTANTS
    reminder = reminder
    notice = notice
    Logical = {reminder, notice}
    Incomplete = {reminder}
    Unanchored = {notice}
    MaxRevisions = 3
    Workers = {w1, w2}
    MaxAttempts = 2
    MaxLate = 1
    MaxFaults = 1
    MaxChanges = 2
    MaxDefers = 1
INVARIANTS
    OneHolder
    OneActive
    SentOnce
PROPERTIES
    SentAsPlanned
    EventuallySent
CHECK_DEADLOCK FALSE
