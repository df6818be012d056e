SPECIFICATION FairSpec
CONSTANTS
    Listers = {A, B}
    Names <- MCNames
    EntSize <- MCEntSize
    Sizes = {3}
    MaxChanges = 2
INVARIANTS
    TypeOK
    ListingWhole
PROPERTIES
    RefusedOnlyIfChanged
    EmptyOnlyAtEnd
    ListingEnds
