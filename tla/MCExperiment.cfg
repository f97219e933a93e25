SPECIFICATION Spec

CONSTANTS
    DeckIds    <- MCDeckIds
    PolicyIds  <- MCPolicyIds
    Calls      <- MCCalls
    TurnCounts <- MCTurnCounts
    MaxCalls   <- MCMaxCalls
    NoCall     = NoCall

INVARIANTS
    TypeOK
    SummariesAreComplete
    PilotsFollowDecks
    SeatsCycle
    SeatBiasCancels
    EveryGameWonOnce
    Reproducible

\* The program stops after MaxCalls calls.
CHECK_DEADLOCK FALSE
