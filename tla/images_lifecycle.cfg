SPECIFICATION Spec
CONSTANTS
    a = a  b = b  edgeA = edgeA
    Jobs = {a, b}
    Nodes = {edgeA}
    Outputs = 2
    MaxPending = 2
    Retained = 1
    Cancellable = {a}
    Troubles <- AllTroubles
    MaxUnits = 2
    MaxStrikes = 1
INVARIANTS TypeOK QuotaBalances WorkUnderLease EndedLeavesNothing MemoryIsHeld
PROPERTIES Refines KnownJobEnds
CHECK_DEADLOCK FALSE
