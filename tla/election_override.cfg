CONSTANTS
    Core = core  EdgeA = edgeA  EdgeB = edgeB
    FailureLimit = 1  RecoveryBeats = 1
    Lease = 1  Promotion = 1  Demotion = 2  Drain = 1  Interval = 1
    HandbackTTL = 2  OverrideTTL = 2
    Networks <- Alone
    MaxTime = 3  MaxTerm = 3  MaxCrashes = 0  MaxOverrides = 2  MaxFaults = 0
    MaxPolling = 1  MaxLag = 0  Late = FALSE  MaxIdle = 1
SPECIFICATION Spec
INVARIANTS EdgeBNeedsBreakGlass InhibitWithdraws
