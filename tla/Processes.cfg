SPECIFICATION FairSpec
CONSTANTS
    Started = {{"api"}, {"worker"}}
    Environments <- AllEnvironments
    Unset = Unset
    Malformed = Malformed
    Bits = 3
    Handlers = {"h1", "h2"}
    Kinds <- MCKinds
    MaxChanges = 2
CONSTRAINT SecondHandler
INVARIANTS
    ExitsAreJustified
    ReadyIsHonest
PROPERTIES
    ProcessesStartAndEnd
    WorkerRecovers
