CONSTANTS
    me = me
    other = other
    Nil = Nil
    Absent = Absent
    MaxVersion = 2
    MaxCrashes = 2
    MaxFailures = 1
    Parts <- MCParts
    InitBals <- MCInitBals
    Candidates <- MCCandidates
SPECIFICATION Spec
CHECK_DEADLOCK FALSE
INVARIANTS
    Durable
    SignedIsPersisted
    RestoredMatches
