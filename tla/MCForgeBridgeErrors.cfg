SPECIFICATION FairSpec

CONSTANTS
    checkout = checkout  gui = gui  work = work  fat = fat  thin = thin
    script = script  bridgejar = bridgejar  program = program
    java = java  relative = relative
    Commands  = {java, relative}
    Java      = java
    Anywhere  = {java}
    Paths     <- MCPaths
    NoPath    = NoPath
    Unset     = Unset
    Blank     = Blank
    Gui       <- MCGui
    Suffix    <- MCSuffix
    DeckIds   = {"a", "b"}
    PolicyIds = {"p", "q"}
    Machines  <- BarredMachines
    Requests  <- MCRequests
    Answers   <- MCAnswers
    Timeout   = 2
    None      = None

PROPERTY StartFailuresAreConfigurationErrors
