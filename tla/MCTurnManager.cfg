SPECIFICATION FairSpec

CONSTANTS
    Players   = 3
    Control   <- MCControl
    Lives     <- MCLives
    MaxTurns  = 2
    PoolSize  = 1
    Hands     <- MCHands
    DeckLands = 2
    MaxClicks = 2
    None      = None

INVARIANTS
    TypeOK
    OneLandPerTurn
    TurnsGoRound
    WinnerSurvives

PROPERTY GameEnds
