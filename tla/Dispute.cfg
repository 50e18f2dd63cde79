CONSTANTS
    a = a
    b = b
    Nil = Nil
    Total = 1
    MaxVersion = 1
    MaxProposals = 2
    MaxRegisterFailures = 1
    Parts <- MCParts
    InitBals <- MCInitBals
    Proposals <- MCProposals
SPECIFICATION DisputeSpec
CHECK_DEADLOCK FALSE
INVARIANTS
    OutcomeNotStale
    PanicOnlyAfterDiscard
    PayoutIsOutcome
