CONSTANTS
    a = a
    b = b
    Nil = Nil
    Total = 1
    MaxVersion = 2
    MaxProposals = 3
    Parts <- MCParts
    InitBals <- MCInitBals
    Proposals <- MCProposals
SPECIFICATION FairSpec
CHECK_DEADLOCK FALSE
INVARIANTS
    TypeOK
    FullySigned
    
    VersionGap
    DivergenceOnlyAfterDiscard
PROPERTIES
    NoTheft
    ImplementsAgreedStates
    MutexReleased
