SPECIFICATION FairSpec
CONSTANTS
    c1 = c1
    c2 = c2
    Conns = {c1, c2}
    Requests <- MCRequests
    Chunk = 2
    Cap = 4
    InitialBackoff = 1
    MaxBackoff = 3
    MaxStreak = 3
INVARIANTS
    TypeOK
    DroppedJustly
    BufferBounded
    BackoffFollowsStreak
PROPERTIES
    RequestsServed
