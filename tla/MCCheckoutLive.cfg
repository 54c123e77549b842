SPECIFICATION FairSpec
CONSTANTS
    ticket = ticket
    bulk = bulk
    extension = extension
    shared = shared
    course = course
    u1 = u1
    u2 = u2
    u3 = u3
    Orders = {ticket, course, bulk}
    EventOrders = {ticket}
    Users = {u1, u2}
    SingleUse = {bulk}
    Capacity = 1
    Buyer <- MCBuyer
    Kind <- MCKind
    Base <- MCBase
    Quantity <- MCOne
PROPERTIES
    PaymentsHonoured
CHECK_DEADLOCK FALSE
