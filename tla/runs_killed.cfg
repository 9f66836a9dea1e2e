SPECIFICATION Spec
CONSTANTS
    a = a  b = b  edgeA = edgeA
    Runs = {a}
    Studios = {edgeA}
    Cap = 1
    Killable = {a}
    SlowReap = FALSE
    Attempts = 2
    FinalAttempts = 2
    MaxCrashes = 0
    MaxFaults = 0
    MaxStalls = 0
INVARIANT KilledIsStopped
CHECK_DEADLOCK FALSE
