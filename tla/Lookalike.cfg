SPECIFICATION Spec
CONSTANTS
    StressEvents = {"s1"}
    ManualEvents = {"m1"}
    Lookalikes = {"m1"}
    Total = 1
    Holds <- MCHolds
    Handlers = {"h1", "h2", "h3"}
    Requests <- AdminRequests
    Workers = {}
    BatchSize = 2
    Faulty = {"h3"}
    Locals = {TRUE, FALSE}
    TTL = 1
    Tolerance = 0
    MaxTime = 1
PROPERTY
    ManualRowsStay
