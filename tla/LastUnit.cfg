SPECIFICATION Spec
CONSTANTS
    h1 = h1
    h2 = h2
    h3 = h3
    h4 = h4
    w1 = w1
    w2 = w2
    NoUser = NoUser
    BlankKey = BlankKey
    Malformed = Malformed
    TicketTypes = {"ga"}
    Total <- OneUnit
    TicketEvent <- MCTicketEvent
    Seats = {}
    SeatEvent <- MCSeatEvent
    UserOf <- MCUserOf
    ReservationIds = {1, 2}
    MaxQuantity = 1
    TTL = 1
    MaxTime = 2
    BatchSize = 2
    Requests <- LastUnitRequests
    Handlers = {h1, h2}
    Workers = {}
    Faulty = {}
SYMMETRY HandlerSymmetry
PROPERTIES
    QuantityRetryIsReplayed
