SPECIFICATION Spec
CONSTANTS
    ticket = ticket
    bulk = bulk
    extension = extension
    shared = shared
    course = course
    u1 = u1
    u2 = u2
    u3 = u3
    Orders = {ticket, bulk, extension, shared}
    EventOrders = {ticket, bulk, extension, shared}
    Users = {u1, u2}
    SingleUse = {bulk}
    Capacity = 2
    Buyer <- MCBuyer
    Kind <- MCKind
    Base <- MCBase
    Quantity <- MCOne
INVARIANTS
    PlacesConfirmed
    PlacesNotOversold
    CodesMatchPlaces
    PlacesPaidFor
    FailedNeverPaid
CHECK_DEADLOCK FALSE
