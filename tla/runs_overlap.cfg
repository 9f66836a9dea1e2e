SPECIFICATION Spec
CONSTANTS
    a = a  b = b  edgeA = edgeA
    Runs = {a, b}
    Studios = {edgeA}
    Cap = 1
    Killable = {}
    SlowReap = FALSE
    Attempts = 2
    FinalAttempts = 2
    MaxCrashes = 0
    MaxFaults = 0
    MaxStalls = 0
INVARIANT CapHeld
CHECK_DEADLOCK FALSE
