SPECIFICATION Spec
CONSTANTS
    u1 = u1
    u2 = u2
    g1 = g1
    Users = {u1}
    Regions = {g1}
    Capacities = {1}
    MaxRounds = 2
    MaxWindows = 3
    Decisions = {"selected", "cancelled"}
    Late = {}
PROPERTIES
    ListsStayShut
CHECK_DEADLOCK FALSE
