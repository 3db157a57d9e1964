SPECIFICATION FairSpec
CONSTANTS
    h1 = h1
    h2 = h2
    h3 = h3
    h4 = h4
    w1 = w1
    w2 = w2
    NoUser = NoUser
    BlankKey = BlankKey
    Malformed = Malformed
    TicketTypes = {}
    Total <- TwoUnits
    TicketEvent <- MCTicketEvent
    Seats = {1, 2}
    SeatEvent <- MCSeatEvent
    UserOf <- MCUserOf
    ReservationIds = {1, 2, 3}
    MaxQuantity = 2
    TTL = 1
    MaxTime = 2
    BatchSize = 1
    Requests <- KeyReuse
    Handlers = {h1, h2, h3}
    Workers = {w1}
    Faulty = {}
PROPERTIES
    RequestsAreAnswered
    OverdueHoldsAreReleased
