SPECIFICATION Spec

CONSTANTS
    full = full  front = front  back = back  unknown = unknown
    NoCard      = NoCard
    Keys        <- MCKeys
    NameOf      <- MCNameOf
    Interval    = 2
    MaxRevision = 2
    MaxTime     = 6

INVARIANTS
    TypeOK
    RequestsSpaced
    FoundIsKept

CHECK_DEADLOCK FALSE
