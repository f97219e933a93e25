SPECIFICATION FairSpec

CONSTANTS
    b1       = b1
    b2       = b2
    Batches  = {b1, b2}
    MaxLines <- MCLines
    None     = None

INVARIANTS
    TypeOK
    ShownIsFinal

PROPERTY LabSettles
