SPECIFICATION Spec
CONSTANTS
    edgeA = edgeA  edgeB = edgeB
    Nodes = {edgeA, edgeB}
    Specs <- EachKind
    MaxRecoveries = 1
    MaxUpdates = 2
    MaxFence = 2
    MaxControls = 1
    MaxTroubles = 1
    Troubles <- AllTroubles
INVARIANTS TypeOK StoppedIsDead AckedIsKept SucceededIsTrained
PROPERTY StopEnds
CHECK_DEADLOCK FALSE
