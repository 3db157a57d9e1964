SPECIFICATION Spec
CONSTANTS
    h1 = h1
    h2 = h2
    h3 = h3
    h4 = h4
    w1 = w1
    w2 = w2
    NoUser = NoUser
    BlankKey = BlankKey
    Malformed = Malformed
    TicketTypes = {"ga", "vip"}
    Total <- TwoUnits
    TicketEvent <- MCTicketEvent
    Seats = {}
    SeatEvent <- MCSeatEvent
    UserOf <- MCUserOf
    ReservationIds = {1, 2, 3, 4}
    MaxQuantity = 1
    TTL = 1
    MaxTime = 2
    BatchSize = 2
    Requests <- FourHolds
    Handlers = {h1, h2, h3, h4}
    Workers = {w1, w2}
    Faulty = {}
INVARIANTS
    WorkersNeverDeadlock
CONSTRAINT
    OneRequestAtATime
