SPECIFICATION Spec
CONSTANTS
    a = a  b = b  c = c  d = d
    Instances = {a, b, c}
    Resident = {a}
    Size <- Units
    Budget = 1
    NodeBudget = 3
    Expiring = {b}
    Pinnable = {}
    Drainable = {}
    Waits = TRUE
    Sampled = TRUE
    MaxAttempts = 1
    MaxLeases = 0
    MaxCrashes = 1
    MaxTimeouts = 0
    MaxDeaths = 1
INVARIANTS RoutedFit ReadyIsCounted AdmittedFit
CHECK_DEADLOCK FALSE
