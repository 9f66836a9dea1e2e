CONSTANTS
    r1 = r1  r2 = r2
    Requests <- TwoRequests
    Drain = 2  MaxCrashes = 2  MaxDockerFaults = 1
SPECIFICATION Spec
INVARIANTS TypeOK LeaseOnlyWhileElected
PROPERTIES DrainEnds FrontendStops
