CONSTANTS
    Rows = {x1, x2, x3, x4}
    DefaultLimit = 1
    MaxLimit = 2
SPECIFICATION ListingSpec
SYMMETRY Symmetry
INVARIANT ListingTypeOK
INVARIANT WalksAreComplete
INVARIANT WalksListOnce
