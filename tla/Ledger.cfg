SPECIFICATION Spec
CONSTANTS
    t1 = t1
    s1 = s1
    s2 = s2
    op1 = op1
    op2 = op2
    op3 = op3
    r1 = r1
    r2 = r2
    r3 = r3
    TicketTypes = {t1}
    Total <- MCTotal
    Seats = {s1, s2}
    Operations = {op1, op2, op3}
    ReservationIds = {r1, r2, r3}
    MaxQuantity = 2
    TTL = 1
    MaxTime = 2
SYMMETRY Symmetry
CHECK_DEADLOCK FALSE
INVARIANTS
    TypeOK
    Conservation
    NotOversold
    SeatExclusive
PROPERTY
    HistoryIsFinal
