SPECIFICATION FairSpec
CONSTANTS
    a = a  b = b  c = c  d = d
    Instances = {a, b}
    Resident = {a}
    Size <- Units
    Budget = 2
    NodeBudget = 3
    Expiring = {}
    Pinnable = {}
    Drainable = {}
    Waits = TRUE
    Sampled = FALSE
    MaxAttempts = 2
    MaxLeases = 0
    MaxCrashes = 1
    MaxTimeouts = 0
    MaxDeaths = 0
PROPERTY LaunchEnds
CHECK_DEADLOCK FALSE
