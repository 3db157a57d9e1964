SPECIFICATION Spec
CONSTANTS
    h1 = h1
    h2 = h2
    h3 = h3
    h4 = h4
    w1 = w1
    w2 = w2
    NoUser = NoUser
    BlankKey = BlankKey
    Malformed = Malformed
    TicketTypes = {"ga"}
    Total <- TwoUnits
    TicketEvent <- MCTicketEvent
    Seats = {1, 2, 3}
    SeatEvent <- MCSeatEvent
    UserOf <- MCUserOf
    ReservationIds = {1, 2, 3}
    MaxQuantity = 2
    TTL = 1
    MaxTime = 2
    BatchSize = 2
    Requests <- AllWorkloads
    Handlers = {h1, h2, h3}
    Workers = {w1}
    Faulty = {h1, h2, h3, w1}
SYMMETRY HandlerSymmetry
CONSTRAINT OneWorkload
INVARIANTS
    TypeOK
    ChildrenAgree
    NeverInconsistent
    AnswersStayTrue
    AnswersCoherent
    NoWaitCycle
PROPERTIES
    KeyAnswersAreRight
    SeatRefusalIsJust
    ImplementsLedger
