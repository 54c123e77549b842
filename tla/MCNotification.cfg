SPECIFICATION FairSpec
CONSTANTS
    n1 = n1
    m1 = m1
    Notifications = {n1}
    Messages = {m1, m2}
    Consumers = {c1, c2}
    Subject <- MCSubject
    First <- MCFirst
    Visibility = 1
    MaxReceives = 2
    MaxLate = 1
    MaxDeaths = 1
INVARIANTS
    NeverStranded
    RepeatsNeedDeaths
PROPERTIES
    SettledIsFinal
    EventuallySettled
CHECK_DEADLOCK FALSE
