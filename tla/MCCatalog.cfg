\* Five products, pages of one or two, any product coming or going at any time.
SPECIFICATION FairCSpec
CONSTANTS
    Products <- MCProducts
    DefaultLimit = 1
    MaxLimit = 2
INVARIANTS
    CTypeOK
    NothingTwice
    NothingSkipped
PROPERTIES
    ReadingEnds
