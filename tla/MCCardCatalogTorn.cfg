SPECIFICATION Spec

CONSTANTS
    Clients    = {c1, c2}
    MaxRelease = 2
    Size       <- MCSize
    MetadataFields <- CurrentFields
    MaxAge     = 1
    MaxRefresh = 1
    MaxTime    = 3
    NoFile     = NoFile

INVARIANT EnsuredCatalogExists
