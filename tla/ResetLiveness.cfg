SPECIFICATION FairSpec
CONSTANTS
    StressEvents = {"s1"}
    ManualEvents = {"m1"}
    Lookalikes = {}
    Total = 4
    Holds <- MCThreeHolds
    Handlers = {"h2", "h3"}
    Requests <- LivenessRequests
    Workers = {"w"}
    BatchSize = 2
    Faulty = {"h3"}
    Locals = {TRUE}
    TTL = 1
    Tolerance = 0
    MaxTime = 1
PROPERTIES
    EveryoneAnswered
    OverdueHandled
