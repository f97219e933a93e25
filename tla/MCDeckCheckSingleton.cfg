SPECIFICATION Spec

CONSTANTS
    bear = bear  forest = forest  recovery = recovery  sanctuary = sanctuary
    both = both  rats = rats  storm = storm  unknown = unknown
    Names     <- MCNames
    CardNames <- MCNames
    Colors    = {"G", "U"}
    NoEntry   = NoEntry
    Texts     <- SingletonTexts
    Catalogs  <- MCCatalogs
    None      = None

INVARIANT SingletonEnforced

CHECK_DEADLOCK FALSE
