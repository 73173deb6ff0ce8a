SPECIFICATION FairSpec
CONSTANTS
    Sizes = {0, 3, 4, 5, 8, 11, 12, 13, 15}
    Lens <- MCLens
    RawTypes <- MCTypes
    MaxDepth = 3
INVARIANTS
    Inside
    MessageRead
PROPERTIES
    Ends
CHECK_DEADLOCK FALSE
