SPECIFICATION Spec
CONSTANTS
    Started = {{"worker"}}
    Environments <- BatchSizes
    Unset = Unset
    Malformed = Malformed
    Bits = 3
    Handlers = {}
    Kinds <- NoKinds
    MaxChanges = 0
INVARIANT
    BatchSizeIsPositive
