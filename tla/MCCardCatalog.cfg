SPECIFICATION Spec

CONSTANTS
    Clients    = {c1, c2}
    MaxRelease = 2
    Size       <- MCSize
    MetadataFields <- CurrentFields
    MaxAge     = 1
    MaxRefresh = 1
    MaxTime    = 4
    NoFile     = NoFile

INVARIANTS
    TypeOK
    UndisturbedCatalogIsWhole
    CardsAreFresh
    RefreshIsCurrent
    OwnDownloadIsReadable

SYMMETRY MCSymmetry
