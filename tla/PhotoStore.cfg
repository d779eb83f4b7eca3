SPECIFICATION FairSpec
CONSTANTS
    Setups <- Ways
    Photo = {p1, p2}
    NoPhoto = NoPhoto
    MaxDay = 1
    Limits = {0, 1, 2}
    Size = 2
    MaxSize = 3
INVARIANT TypeOK
INVARIANT PhotosKept
INVARIANT NoneLeftBehind
INVARIANT StoppedForReason
INVARIANT QuotaKept
PROPERTY ImplementsHandOver
PROPERTY WarningComes
PROPERTY StatusSettles
PROPERTY PhotosConverted
