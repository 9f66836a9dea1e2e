SPECIFICATION FairSpec
CONSTANTS
    a = a  b = b  c = c  d = d
    Instances = {a, b, c}
    Resident = {a}
    Size <- Units
    Budget = 1
    NodeBudget = 3
    Expiring = {}
    Pinnable = {a}
    Drainable = {a}
    Waits = TRUE
    Sampled = FALSE
    MaxAttempts = 2
    MaxLeases = 1
    MaxCrashes = 0
    MaxTimeouts = 1
    MaxDeaths = 0
INVARIANTS TypeOK AdmittedFit LiveEnginesFit
PROPERTY DecisionEnds
CHECK_DEADLOCK FALSE
