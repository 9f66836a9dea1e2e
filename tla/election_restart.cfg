CONSTANTS
    Core = core  EdgeA = edgeA  EdgeB = edgeB
    FailureLimit = 1  RecoveryBeats = 1
    Lease = 1  Promotion = 1  Demotion = 2  Drain = 1  Interval = 1
    HandbackTTL = 2  OverrideTTL = 2
    Networks <- Unheard
    MaxTime = 3  MaxTerm = 4  MaxCrashes = 1  MaxOverrides = 0  MaxFaults = 1
    MaxPolling = 1  MaxLag = 0  Late = TRUE  MaxIdle = 1
SPECIFICATION Spec
INVARIANTS TypeOK AtMostOneQuorumHost ElectionInv
