SPECIFICATION Spec
CONSTANTS
    Handlers = {"h1", "h2", "h3"}
    Requests <- AllRequests
    GivenEvents = {"e1", "s1"}
    StressEvents = {"s1"}
    Bad = Bad
    Empty = Empty
    Malformed = Bad
    Blank = Empty
    Trimmed <- MCTrimmed
    HoldIds = {"k1", "k2"}
    Faulty = {"h1", "h3"}
CONSTRAINT OneWorkload
INVARIANTS
    TypeOK
    BatchIsPrefix
    InventoryIsExact
    SoldStaysSold
