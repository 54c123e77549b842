SPECIFICATION FairSpec
CONSTANTS
    u1 = u1
    u2 = u2
    g1 = g1
    Users = {u1, u2}
    Regions = {g1}
    Capacities = {1}
    MaxRounds = 2
    MaxWindows = 2
    Decisions = {"selected", "cancelled", "waitlisted"}
    Late = {u2}
INVARIANTS
    PlacesExact
    AnnouncedOnce
    InvitationsFit
PROPERTIES
    EventuallyLocked
CHECK_DEADLOCK FALSE
