SPECIFICATION Spec

CONSTANTS
    bear = bear  forest = forest  recovery = recovery  sanctuary = sanctuary
    both = both  rats = rats  storm = storm  unknown = unknown
    Names     <- MCNames
    CardNames <- MCNames
    Colors    = {"G", "U"}
    NoEntry   = NoEntry
    Texts     <- MCTexts
    Catalogs  <- MCCatalogs
    None      = None

INVARIANTS
    TypeOK
    DeckIsTheFile
    LegalPrintingWins
    ValidMeansTheRules

CHECK_DEADLOCK FALSE
