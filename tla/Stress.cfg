SPECIFICATION Spec
CONSTANTS
    StressEvents = {"s1"}
    ManualEvents = {"m1"}
    Lookalikes = {}
    Total = 3
    Holds <- MCHolds
    Handlers = {"h1", "h2", "h3"}
    Requests <- AllRequests
    Workers = {"w"}
    BatchSize = 2
    Faulty = {"h3"}
    Locals = {TRUE, FALSE}
    TTL = 1
    Tolerance = 0
    MaxTime = 1
CONSTRAINT OneWorkload
INVARIANTS
    FixturesWhole
    ResetIsComplete
    ResetNeverSeenHalfway
    CyclesNeedResetOrWorkers
    NoFalseAlarm
PROPERTIES
    ManualRowsStay
