SPECIFICATION FairSpec

CONSTANTS
    Clients  = {c1, c2}
    Ids      = {i1, i2}
    Requests <- MCRequests
    NoClient = NoClient
    NotFound = NotFound

INVARIANTS
    TypeOK
    AllOrNothing
    AckedDurable
    LoadsWhole
    SchemaReady
    StandingsRecoverable
    HeaderExplainsGames

PROPERTIES
    ImplementsLedger
    CallsEnd
