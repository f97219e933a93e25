SPECIFICATION Spec

CONSTANTS
    Players   = 3
    Control   <- MCControl
    Lives     <- MCLives
    MaxTurns  = 1
    PoolSize  = 1
    Hands     <- MCHands
    DeckLands = 2
    MaxClicks = 2
    None      = None

INVARIANT NoWinnerOnTimeout
