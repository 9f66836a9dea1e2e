SPECIFICATION Spec
CONSTANTS
    a = a  b = b  edgeA = edgeA
    Runs = {a, b}
    Studios = {edgeA}
    Cap = 1
    Killable = {a}
    SlowReap = TRUE
    Attempts = 2
    FinalAttempts = 2
    MaxCrashes = 1
    MaxFaults = 1
    MaxStalls = 1
INVARIANTS TypeOK CredentialFits SuccessIsEarned PunctualRunsFit
PROPERTIES RunEnds OrphansGo
CONSTRAINT AloneInTrouble
CHECK_DEADLOCK FALSE
