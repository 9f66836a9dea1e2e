CONSTANTS
    Core = core  EdgeA = edgeA  EdgeB = edgeB
    FailureLimit = 3  RecoveryBeats = 3
    Lease = 4  Promotion = 4  Demotion = 5  Drain = 1  Interval = 1
    HandbackTTL = 2  OverrideTTL = 2
    Networks <- Flapping
    MaxTime = 10  MaxTerm = 3  MaxCrashes = 0  MaxOverrides = 0  MaxFaults = 0
    MaxPolling = 1  MaxLag = 0  Late = FALSE  MaxIdle = 2
SPECIFICATION Spec
INVARIANT AtMostOneQuorumHost
CONSTRAINT FewPolls
